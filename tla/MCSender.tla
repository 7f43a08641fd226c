--------------------------------- MODULE MCSender ---------------------------------
(* Values for the constants of Sender that are functions.  Server 1 comes first
   by priority; message m2 comes from the address that server 1 is pinned to. *)
EXTENDS Sender

CONSTANTS m1, m2

MCPriority == <<1, 2>>
MCPinned == [m \in Messages |-> IF m = m2 THEN {1} ELSE {}]

NoPriority == <<1>>
NoPins == [m \in Messages |-> {}]

MCMaxConnections == <<1, 3>>
OneConnection == <<1>>
=============================================================================
