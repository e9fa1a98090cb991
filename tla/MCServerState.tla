----------------------------- MODULE MCServerState -----------------------------
(* ServerState for TLC: three clients, so that a group can lose one member and   *)
(* keep another while a third joins; ids and clients are interchangeable.        *)
EXTENDS ServerState, TLC

Symmetry == Permutations(ClientId) \cup Permutations(GroupId)
=============================================================================
