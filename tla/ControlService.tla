---------------------------- MODULE ControlService ----------------------------
(***************************************************************************)
(* What the control interface promises to those who use it, without        *)
(* queues, tasks and channels: a setting that was accepted takes effect    *)
(* later, once, and in the order its user gave; a status that was asked    *)
(* for shows everything its asker had set before.  Between users nothing   *)
(* is promised, and nothing when the server ends.                          *)
(***************************************************************************)
EXTENDS Sequences

CONSTANTS User, Client, State, Operation, Effect(_, _), None

VARIABLES
    value,    \* the server's state
    pending,  \* what each user has set and is not in effect yet
    answer    \* the status given to each user, None when it is taken

vars == <<value, pending, answer>>

Init ==
    /\ value \in State
    /\ pending = [u \in User |-> <<>>]
    /\ answer = [u \in User |-> None]

\* pending' # pending follows from the last line, and is cheaper to find false.
Accept(u) ==
    /\ answer[u] = None /\ pending' # pending
    /\ UNCHANGED <<value, answer>>
    /\ \E op \in Operation : pending' = [pending EXCEPT ![u] = Append(@, op)]

Apply(u) ==
    /\ pending[u] # <<>>
    /\ pending' = [pending EXCEPT ![u] = Tail(@)]
    /\ value' = Effect(value, Head(pending[u]))
    /\ UNCHANGED answer

Read(u) ==
    /\ pending[u] = <<>> /\ answer[u] = None
    /\ answer' = [answer EXCEPT ![u] = value]
    /\ UNCHANGED <<value, pending>>

Take(u) ==
    /\ answer[u] # None
    /\ answer' = [answer EXCEPT ![u] = None]
    /\ UNCHANGED <<value, pending>>

\* A streaming client comes, or changes its own settings.
ClientChanges(c) ==
    /\ value' \in State /\ \A o \in DOMAIN value \ {c} : value'[o] = value[o]
    /\ UNCHANGED <<pending, answer>>

End ==
    /\ value' \in State
    /\ pending' = [u \in User |-> <<>>]
    /\ answer' = [u \in User |-> None]

Next ==
    \/ \E u \in User : Accept(u) \/ Apply(u) \/ Read(u) \/ Take(u)
    \/ \E c \in Client : ClientChanges(c)
    \/ End

Spec == Init /\ [][Next]_vars
=============================================================================
