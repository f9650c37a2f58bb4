---------------------------- MODULE MCRobotModel ----------------------------
(* An instance of RobotModel for TLC: every place of the waist, both elbow  *)
(* poses and a floating base; one level below every limit of the joints     *)
(* and one that most joints can reach.                                      *)
EXTENDS RobotModel

EveryWaist ==
  ({FALSE} \X Waists \X {FALSE}) \cup {<<FALSE, "lower_body", TRUE>>, <<TRUE, "lower_body", FALSE>>}
OutsideAndInside == {-4000000, 100000}
=============================================================================
