---------------------------- MODULE MCClientProcess ----------------------------
(* A small instance of ClientProcess: users with the permission, without it, and  *)
(* of an unknown role; a filter; and a mute and three volumes.                     *)
EXTENDS ClientProcess

User(name, role) == [name |-> name, password |-> "pw", role |-> role]
Role(name, permissions) == [name |-> name, permissions |-> permissions]

Open  == [macs |-> None, users |-> None, roles |-> <<>>]
Users == [macs |-> None,
          users |-> <<User("ann", "admin"), User("bob", "guest"), User("eve", "ghost")>>,
          roles |-> <<Role("admin", {"Control", "Streaming"}), Role("guest", {"Control"})>>]
MCAccess == {[Open EXCEPT !.macs = {"m2"}], Open, [Users EXCEPT !.macs = {"m1"}]}

By(login, mixer) == [scheme |-> "tcp", host |-> Server, login |-> login, mixer |-> mixer]
Login(user, password) == [user |-> user, password |-> password]
MCStart == {By(None, "software"), By(Login("ann", "pw"), "hardware"),
            By(Login("bob", "pw"), "script"), By(Login("eve", "pw"), "none"),
            By(Login("ann", "no"), "script"), By(Login("joe", "pw"), "none"),
            [By(None, "software") EXCEPT !.host = None],
            [By(None, "software") EXCEPT !.scheme = "ws"]}
MCVolume == {[percent |-> 100, muted |-> FALSE], [percent |-> 20, muted |-> FALSE],
             [percent |-> 50, muted |-> TRUE]}
=============================================================================
