--------------------------- MODULE MCRobotServices ---------------------------
(* Instances of RobotServices for TLC: two clients, which no definition     *)
(* tells apart, and all services.                                          *)
EXTENDS RobotServices, TLC

CONSTANTS c1, c2

MCClients == {c1, c2}
AllServices == {"go2 sport", "b2 sport", "g1 loco", "h1 loco", "voice",
                "motion_switcher", "obstacles_avoid", "go2 vui", "b2 vui",
                "robot_state", "videohub", "front_videohub", "back_videohub"}
ClientSymmetry == Permutations(MCClients)
=============================================================================
