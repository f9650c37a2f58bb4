----------------------------- MODULE MCSimulator -----------------------------
(* Instances of Simulator: the options that make each branch happen.       *)
EXTENDS Simulator

Every(v, i) == [t \in {"viewer", "reward", "image"} |-> IF t = "image" THEN i ELSE v]
Plain == [base |-> "floating", band |-> TRUE, robot |-> "g1",
          onscreen |-> FALSE, offscreen |-> TRUE, publish |-> TRUE, timers |-> Every(1, 1)]

MCConfigs ==
    {Plain,
     [Plain EXCEPT !.onscreen = TRUE, !.timers = Every(2, 2)],
     [Plain EXCEPT !.publish = FALSE, !.onscreen = TRUE],
     [Plain EXCEPT !.timers = Every(0, 1)],
     [Plain EXCEPT !.base = "constrained"],
     [Plain EXCEPT !.base = "none"],
     [Plain EXCEPT !.offscreen = FALSE],
     [Plain EXCEPT !.band = FALSE],
     [Plain EXCEPT !.robot = "h1"]}
=============================================================================
