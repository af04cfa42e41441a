----------------------------- MODULE MCLiveRuns -----------------------------
(* Small instances of LiveRuns.                                               *)
EXTENDS LiveRuns, TLC

\* The values of the settings are interchangeable.
ValueSymmetry == Permutations(Values)
=============================================================================
