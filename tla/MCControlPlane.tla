---------------------------- MODULE MCControlPlane ----------------------------
(* A small instance of ControlPlane. *)
EXTENDS ControlPlane, TLC

CONSTANTS a, w, h, c1, s1

MCKind == [c \in Conn |-> CASE c = a -> "tcp" [] c = w -> "ws" [] OTHER -> "http"]
MCMethod == {"Client.SetVolume", "Group.SetName", "Group.SetClients", "Server.Authenticate"}
LiveMethod == {"Client.SetVolume", "Group.SetClients", "Stream.AddStream", "Stream.Control",
               "Server.GetStatus"}
=============================================================================
