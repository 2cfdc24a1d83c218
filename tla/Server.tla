------------------------------- MODULE Server -------------------------------
(***************************************************************************)
(* A server around its handlers: the connections of the node:http server,  *)
(* the readers of request bodies, and the routes.  Each part sees of the   *)
(* others only what is a parameter of its own model (a handler's response, *)
(* an upload, a body that was read), so a behaviour exercises one of them; *)
(* unit says which.                                                        *)
(***************************************************************************)
EXTENDS BodyReads, NodeServer, Routes

VARIABLE unit

Units == {"bodies", "connections", "routes"}

vars == <<unit, bodyVars, serverVars, call>>

Init ==
    /\ unit \in Units
    /\ BodyInit
    /\ ServerInit
    /\ CallsInit

BodyStep ==
    /\ unit = "bodies" /\ BodyNext
    /\ UNCHANGED <<unit, serverVars, call>>

ConnectionStep ==
    /\ unit = "connections" /\ ServerNext
    /\ UNCHANGED <<unit, bodyVars, call>>

RouteStep ==
    /\ unit = "routes" /\ (RoutesNext \/ Return)
    /\ UNCHANGED <<unit, bodyVars, serverVars>>

Next == BodyStep \/ ConnectionStep \/ RouteStep

Spec == Init /\ [][Next]_vars
=============================================================================
