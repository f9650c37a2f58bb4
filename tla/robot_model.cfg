\* The G1 with its views, driven within and beyond the limits.
SPECIFICATION ModelSpec
CONSTANTS
    Models <- EveryWaist
    Levels <- OutsideAndInside
INVARIANTS
    ModelInv
    PlacementsAgree
