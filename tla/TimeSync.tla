-------------------------------- MODULE TimeSync --------------------------------
(***************************************************************************)
(* How a client learns the time of its server: the receive loop's two      *)
(* timers (snapcast-client/src/controller.rs), the server's answer         *)
(* (snapcast-server/src/session.rs), and the TimeProvider, which keeps the *)
(* median of the last measurements and lives as long as the client does,   *)
(* whatever becomes of its connections (time_provider.rs).                 *)
(*                                                                         *)
(* The network delays messages as it likes and keeps their order; a broken *)
(* connection loses what is on its way.  The server that answers next may  *)
(* have another clock: it was started again, or it is another machine.     *)
(*                                                                         *)
(* Clocks run alike and differ by an offset.  Differences are counted in   *)
(* halves of the clock's unit, since set_diff halves them.                 *)
(***************************************************************************)
EXTENDS Wire, DoubleBuffer

CONSTANTS
    Offset,       \* by how much a server's clock may be ahead of the client's
    QuickSyncs,   \* INITIAL_QUICK_SYNCS
    QuickInterval, SyncInterval,  \* QUICK_SYNC_INTERVAL, SYNC_INTERVAL
    Size,         \* the capacity of diff_buffer
    Gap,          \* after how long a pause the buffer is cleared
    MaxTime, MaxFlight, MaxCount  \* bounds on the clock, messages on their way, fresh

ASSUME TimeAssumption ==
    /\ Offset \subseteq Nat /\ Offset # {}
    /\ {QuickSyncs, QuickInterval, SyncInterval, Size, MaxCount} \subseteq Nat \ {0}
    /\ {Gap, MaxTime, MaxFlight} \subseteq Nat

VARIABLES
    now,        \* the client's clock
    offset,     \* of the server's clock
    connected,
    quick_syncs_remaining,
    quick_sync_timer, sync_timer,  \* when their next ticks are due
    requests, replies,  \* on their way
    diff_buffer, diff, last_sync,  \* the TimeProvider
    fresh, \* history: measurements of this clock, up to MaxCount
    up, down, \* history: their longest delays
    paused  \* history: the first of them came more than Gap after the one before

timerVars    == <<quick_syncs_remaining, quick_sync_timer, sync_timer>>
providerVars == <<diff_buffer, diff, last_sync>>
historyVars  == <<fresh, up, down, paused>>
vars == <<now, offset, connected, timerVars, requests, replies, providerVars, historyVars>>

-----------------------------------------------------------------------------
(* The client's loop.                                                        *)

Larger(a, b) == IF a < b THEN b ELSE a

SendTime ==
    /\ Len(requests) < MaxFlight
    /\ requests' = Append(requests, [sent |-> FromUsec(now)])
    /\ UNCHANGED replies

\* receive_loop begins: two intervals that tick at once, and a first request.
Connect ==
    /\ ~connected /\ connected' = TRUE
    /\ quick_syncs_remaining' = QuickSyncs
    /\ quick_sync_timer' = now /\ sync_timer' = now
    /\ requests' = <<[sent |-> FromUsec(now)]>> /\ replies' = <<>>
    /\ UNCHANGED <<now, offset, providerVars, historyVars>>

\* The last of the quick syncs reports TimeSyncComplete.
QuickSync ==
    /\ connected /\ quick_syncs_remaining > 0 /\ now >= quick_sync_timer
    /\ quick_syncs_remaining' = quick_syncs_remaining - 1
    /\ quick_sync_timer' = quick_sync_timer + QuickInterval
    /\ SendTime
    /\ UNCHANGED <<now, offset, connected, sync_timer, providerVars, historyVars>>

\* The other timer is not polled before that: the ticks it missed come at once.
Sync ==
    /\ connected /\ quick_syncs_remaining = 0 /\ now >= sync_timer
    /\ sync_timer' = sync_timer + SyncInterval
    /\ SendTime
    /\ UNCHANGED <<now, offset, connected, quick_syncs_remaining, quick_sync_timer,
                   providerVars, historyVars>>

\* Mutation of SetDiff: the old measurements are kept whatever the pause.
SetDiffNeverClears(measured) ==
    LET new == Newest(Append(diff_buffer, measured), Size)
    IN  /\ diff_buffer' = new /\ diff' = Median(new) /\ last_sync' = now

\* set_diff_ms: a buffer that has not been added to for long is cleared first.
SetDiff(measured) ==
    LET old == IF now - last_sync > Gap /\ diff_buffer # <<>> THEN <<>> ELSE diff_buffer
        new == Newest(Append(old, measured), Size)
    IN  /\ diff_buffer' = new /\ diff' = Median(new) /\ last_sync' = now

\* A reply is read: its latency is the way there, the way back is measured here.
TakeReply ==
    /\ connected /\ replies # <<>>
    /\ LET reply == Head(replies)
           s2c   == Minus(FromUsec(now), reply.sent)
       IN  /\ SetDiff(ToUsec(reply.latency) - ToUsec(s2c))
           /\ up' = Larger(up, ToUsec(reply.latency) - offset)
           /\ down' = Larger(down, ToUsec(s2c) + offset)
    /\ fresh' = IF fresh < MaxCount THEN fresh + 1 ELSE fresh
    /\ paused' = IF fresh = 0 THEN now - last_sync > Gap ELSE paused
    /\ replies' = Tail(replies)
    /\ UNCHANGED <<now, offset, connected, timerVars, requests>>

-----------------------------------------------------------------------------
(* The server, the network and the clock.                                    *)

\* A session's Time arm: when the request was read, less when it was sent.
AnswerTime ==
    /\ connected /\ requests # <<>> /\ Len(replies) < MaxFlight
    /\ LET received == FromUsec(now + offset)
       IN  replies' = Append(replies, [latency |-> Minus(received, Head(requests).sent),
                                       sent    |-> received])
    /\ requests' = Tail(requests)
    /\ UNCHANGED <<now, offset, connected, timerVars, providerVars, historyVars>>

\* The loop returns: its timers are gone, and the provider stays.
Break ==
    /\ connected /\ connected' = FALSE
    /\ quick_syncs_remaining' = 0 /\ quick_sync_timer' = 0 /\ sync_timer' = 0
    /\ requests' = <<>> /\ replies' = <<>>
    /\ UNCHANGED <<now, offset, providerVars, historyVars>>

\* The server the client finds next has another clock.
Restart(o) ==
    /\ ~connected /\ o # offset /\ offset' = o
    /\ fresh' = 0 /\ up' = 0 /\ down' = 0 /\ paused' = FALSE
    /\ UNCHANGED <<now, connected, timerVars, requests, replies, providerVars>>

Tick ==
    /\ now < MaxTime /\ now' = now + 1
    /\ UNCHANGED <<offset, connected, timerVars, requests, replies, providerVars, historyVars>>

-----------------------------------------------------------------------------
(* The specification.                                                        *)

Init ==
    /\ now = 0 /\ offset \in Offset /\ connected = FALSE
    /\ quick_syncs_remaining = 0 /\ quick_sync_timer = 0 /\ sync_timer = 0
    /\ requests = <<>> /\ replies = <<>>
    /\ diff_buffer = <<>> /\ diff = 0 /\ last_sync = 0
    /\ fresh = 0 /\ up = 0 /\ down = 0 /\ paused = FALSE

Next ==
    \/ Connect \/ QuickSync \/ Sync \/ TakeReply
    \/ AnswerTime \/ Break \/ (\E o \in Offset : Restart(o)) \/ Tick

Spec == Init /\ [][Next]_vars

-----------------------------------------------------------------------------
(* Properties.                                                               *)

\* The difference a client plays by is that of the server it hears, up to half of the
\* longest delay there or back, as soon as more than half of the measurements in the
\* buffer are of this server's clock, and at once when the last connection had been
\* quiet for so long that the buffer is cleared (TimeProvider::set_diff).
Recovers ==
    (fresh > 0 /\ paused) \/ 2 * fresh > Len(diff_buffer) =>
        diff \in (2 * offset) - down .. (2 * offset) + up
=============================================================================
