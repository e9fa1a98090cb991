---------------------------- MODULE MCSessionServer ----------------------------
(* SessionServer for TLC.  Sessions are interchangeable, clients and group ids too. *)
EXTENDS SessionServer, TLC

Symmetry == Permutations(Session) \cup Permutations(ClientId) \cup Permutations(GroupId)
=============================================================================
