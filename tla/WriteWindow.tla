---------------------------- MODULE WriteWindow ----------------------------
(* The pacer as the exchange sees it: somebody begins to watch at an arbitrary *)
(* moment, and counts the ticks that pass and the writes that go out.          *)
EXTENDS WritePacer

VARIABLES watching, ticks, writes
watch == <<watching, ticks, writes>>

WatchInit == Init /\ watching = FALSE /\ ticks = 0 /\ writes = 0

BeginWatch == ~watching /\ watching' = TRUE /\ UNCHANGED <<vars, ticks, writes>>

\* One step of the pacer; every write flips the beat.
WatchStep ==
    /\ Next
    /\ ticks' = IF watching /\ Tick THEN ticks + 1 ELSE ticks
    /\ writes' = IF watching /\ beat' # beat THEN writes + 1 ELSE writes
    /\ UNCHANGED watching

WatchSpec == WatchInit /\ [][BeginWatch \/ WatchStep]_<<vars, watch>>

\* In any T ticks at most Burst + T writes go out (_WritePacer's docstring: "in
\* any T seconds at most burst + rate*T POSTs go out").
WindowBound == writes <= Burst + ticks
=============================================================================
