---------------------------- MODULE TokenBucket ----------------------------
(* What the write pacer promises the exchange: a bucket of at most Burst       *)
(* credits that earns one credit a tick, and one credit spent on each write.   *)
EXTENDS Integers

CONSTANT Burst \* a natural number

VARIABLES credit,
          beat   \* flips with every write, so that no write passes for a stutter

vars == <<credit, beat>>

Init == credit = Burst /\ beat = 0

Earn  == /\ credit' = IF credit < Burst THEN credit + 1 ELSE Burst
         /\ UNCHANGED beat

Write == credit > 0 /\ credit' = credit - 1 /\ beat' = 1 - beat
Next  == Earn \/ Write
Spec  == Init /\ [][Next]_vars
=============================================================================
