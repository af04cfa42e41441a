-------------------------- MODULE PairTrade_proofs --------------------------
(* Proofs about PairTrade, for every batch size, pool size, count, bound and   *)
(* pattern of faults.                                                          *)
EXTENDS PairTrade, FiniteSetTheorems, TLAPS

\* Legs and statuses are what they look like; every constant has its type.
LEMMA Basics ==
    /\ Legs = {"no", "yes"} /\ "no" \in Legs /\ "yes" \in Legs
    /\ N \in Pairs /\ 1 \in Pairs
    /\ Count \in Nat /\ Count > 0
BY PairAssumption DEF Legs, Pairs

----------------------------------------------------------------------------
(* Type correctness.                                                        *)

\* A reading is a number or a failed read, and a failed read is within the bound.
LEMMA ReadingsType ==
    ASSUME TypeOK, NEW p \in Pairs, NEW l \in Legs, NEW k, NEW v \in Readings(p, l, k)
    PROVE  /\ v \in Int \cup {Unread}
           /\ v = Unread => faults < MaxFaults
           /\ v # Unread => v \in {pos[p][l], led[p][l]}
           /\ v # Unread /\ k > lag => v = pos[p][l]
BY PairAssumption DEF Readings, TypeOK

\* What a reading leaves behind has its type.
LEMMA ReadType ==
    ASSUME TypeOK, NEW p \in Pairs, NEW l \in Legs, NEW k, NEW v \in Readings(p, l, k),
           Read(p, l, v)
    PROVE  /\ led' \in [Pairs -> [Legs -> Int]]
           /\ faults' \in 0 .. MaxFaults /\ impaired' \subseteq Pairs
<1>1. CASE v = Unread
  <2>1. faults < MaxFaults
    BY <1>1, ReadingsType
  <2>2. faults' = faults + 1 /\ impaired' = impaired \cup {p} /\ led' = led
    BY <1>1 DEF Read
  <2>3. faults \in 0 .. MaxFaults /\ impaired \subseteq Pairs
        /\ led \in [Pairs -> [Legs -> Int]]
    BY DEF TypeOK
  <2>4. faults' \in 0 .. MaxFaults
    BY <2>1, <2>2, <2>3, PairAssumption
  <2> QED BY <2>2, <2>3, <2>4
<1>2. CASE v # Unread
  <2>1. v \in Int
    BY <1>2, ReadingsType
  <2>2. /\ led' = [led EXCEPT ![p][l] = v] /\ led \in [Pairs -> [Legs -> Int]]
        /\ faults' = faults /\ impaired' = impaired
    BY <1>2 DEF Read, TypeOK
  <2>3. led' \in [Pairs -> [Legs -> Int]]
    BY <2>1, <2>2
  <2> QED BY <2>2, <2>3 DEF TypeOK
<1> QED BY <1>1, <1>2

\* So have a step ...
LEMMA GotoType ==
    ASSUME TypeOK, NEW p \in Pairs, NEW step \in Steps, Goto(p, step)
    PROVE  pc' \in [Pairs -> Steps] /\ result' \in [Pairs -> Statuses]
BY DEF Goto, TypeOK

\* ... and an end.
LEMMA EndType ==
    ASSUME TypeOK, NEW p \in Pairs, NEW status \in Statuses, End(p, status)
    PROVE  pc' \in [Pairs -> Steps] /\ result' \in [Pairs -> Statuses]
BY DEF End, TypeOK, Steps

\* What the decisions after a reading do to the steps, results and latches.
LEMMA DecideNoType ==
    ASSUME TypeOK, NEW p \in Pairs, NEW v, DecideNo(p, v)
    PROVE  /\ pc' \in [Pairs -> Steps] /\ result' \in [Pairs -> Statuses]
           /\ confirmed' \in BOOLEAN /\ disproven' \in BOOLEAN
           /\ unchecked' \subseteq Pairs /\ named' \subseteq Pairs
BY GotoType, EndType
DEF DecideNo, Disprove, latches, TypeOK, Steps, Statuses

\* And what follows a YES reading.
LEMMA DecideYesType ==
    ASSUME TypeOK, NEW p \in Pairs, NEW v, DecideYes(p, v)
    PROVE  pc' \in [Pairs -> Steps] /\ result' \in [Pairs -> Statuses]
BY GotoType, EndType DEF DecideYes, TypeOK, Steps, Statuses

\* The first state is well typed.
LEMMA TypeInit == Init => TypeOK
<1> SUFFICES ASSUME Init PROVE TypeOK
  OBVIOUS
<1>1. /\ main \in {"submit", "watch", "join", "returned"}
      /\ nextp \in Pairs /\ expired \in BOOLEAN
      /\ confirmed \in BOOLEAN /\ disproven \in BOOLEAN
      /\ unchecked \subseteq Pairs /\ named \subseteq Pairs
      /\ impaired \subseteq Pairs /\ touched \subseteq Pairs
  BY Basics DEF Init
<1>2. pc \in [Pairs -> Steps] /\ result \in [Pairs -> Statuses]
  BY DEF Init, Steps, Statuses
<1>3. tries \in [Pairs -> 0 .. Rechecks] /\ faults \in 0 .. MaxFaults
  BY PairAssumption DEF Init
<1>4. before \in [Pairs -> [Legs -> Int \cup {Unread}]]
  BY DEF Init
<1>5. /\ pos \in [Pairs -> [Legs -> Int]] /\ led \in [Pairs -> [Legs -> Int]]
      /\ pos0 \in [Pairs -> [Legs -> Int]]
  BY PairAssumption DEF Init, IsWorld
<1>6. plan \in [Pairs -> Plan] /\ noMove \in Int /\ lag \in Nat
  BY PairAssumption DEF Init, IsWorld
<1> QED BY <1>1, <1>2, <1>3, <1>4, <1>5, <1>6 DEF TypeOK

\* Every step keeps the types.
LEMMA TypeStep == TypeOK /\ [Next]_vars => TypeOK'
<1> SUFFICES ASSUME TypeOK, [Next]_vars PROVE TypeOK'
  OBVIOUS
<1> USE DEF fixed, latches, mainVars
<1>1. CASE Submit
  BY <1>1 DEF Submit, TypeOK, Steps
<1>2. CASE Watch
  BY <1>2, PairAssumption DEF Watch, TypeOK, Pairs
<1>3. CASE BudgetExpires
  BY <1>3 DEF BudgetExpires, TypeOK
<1>4. CASE Return
  BY <1>4 DEF Return, TypeOK
<1>5. CASE Returned \/ UNCHANGED vars
  BY <1>5 DEF Returned, vars, TypeOK
<1>6. ASSUME NEW p \in Pairs, StopAtEntry(p) PROVE TypeOK'
  BY <1>6, EndType DEF StopAtEntry, TypeOK, Statuses
<1>7. ASSUME NEW p \in Pairs, BuildRaises(p) PROVE TypeOK'
  BY <1>7, EndType, PairAssumption DEF BuildRaises, TypeOK, Statuses
<1>8. ASSUME NEW p \in Pairs, Begin(p) PROVE TypeOK'
  BY <1>8, GotoType DEF Begin, TypeOK, Steps
<1>9. ASSUME NEW p \in Pairs, ReadBaselines(p) PROVE TypeOK'
  <2>1. PICK no \in Readings(p, "no", 0), yes \in Readings(p, "yes", 0) :
          LET b == [l \in Legs |-> IF l = "no" THEN no ELSE yes]
              failed == {l \in Legs : b[l] = Unread}
          IN /\ faults + Cardinality(failed) <= MaxFaults
             /\ faults' = faults + Cardinality(failed)
             /\ impaired' = IF failed = {} THEN impaired ELSE impaired \cup {p}
             /\ led' = [led EXCEPT ![p] = [l \in Legs |->
                           IF l \in failed THEN led[p][l] ELSE b[l]]]
             /\ before' = [before EXCEPT ![p] = b]
             /\ IF Mismatch(p, b) THEN End(p, "failed") ELSE Goto(p, "sendNo")
    BY <1>9 DEF ReadBaselines
  <2> DEFINE b == [l \in Legs |-> IF l = "no" THEN no ELSE yes]
             failed == {l \in Legs : b[l] = Unread}
  <2>2. b \in [Legs -> Int \cup {Unread}]
    BY ReadingsType, Basics
  <2>3. Cardinality(failed) \in Nat
    <3>1. IsFiniteSet(Legs)
      <4>1. IsFiniteSet({"no"}) /\ IsFiniteSet({"yes"})
        BY FS_Singleton
      <4>2. IsFiniteSet({"no"} \cup {"yes"})
        BY <4>1, FS_Union
      <4>3. Legs = {"no"} \cup {"yes"}
        BY DEF Legs
      <4> QED BY <4>2, <4>3
    <3>2. IsFiniteSet(failed)
      BY <3>1, FS_Subset
    <3> QED BY <3>2, FS_CardinalityType
  <2>4. faults' \in 0 .. MaxFaults /\ impaired' \subseteq Pairs
    <3>1. /\ faults + Cardinality(failed) <= MaxFaults
          /\ faults' = faults + Cardinality(failed)
          /\ impaired' = impaired \/ impaired' = impaired \cup {p}
      BY <2>1
    <3> HIDE DEF failed
    <3> QED BY <3>1, <2>3, PairAssumption DEF TypeOK
  <2>5. led' \in [Pairs -> [Legs -> Int]]
    BY <2>1, <2>2 DEF TypeOK
  <2>6. before' \in [Pairs -> [Legs -> Int \cup {Unread}]]
    BY <2>1, <2>2 DEF TypeOK
  <2>7. pc' \in [Pairs -> Steps] /\ result' \in [Pairs -> Statuses]
    BY <2>1, GotoType, EndType DEF Steps, Statuses
  <2> QED BY <1>9, <2>4, <2>5, <2>6, <2>7 DEF ReadBaselines, TypeOK
<1>10. ASSUME NEW p \in Pairs, SendNo(p) PROVE TypeOK'
  <2>1. PICK fills \in BOOLEAN, lost \in BOOLEAN :
          /\ MayLose(lost) /\ Lose(lost)
          /\ pos' = IF fills THEN [pos EXCEPT ![p]["no"] = @ + noMove] ELSE pos
          /\ IF lost THEN Goto(p, "askNo")
             ELSE IF fills THEN Goto(p, "confirm") ELSE End(p, "failed")
    BY <1>10 DEF SendNo
  <2>2. pos' \in [Pairs -> [Legs -> Int]]
    BY <2>1, Basics, PairAssumption DEF TypeOK
  <2>3. faults' \in 0 .. MaxFaults
    BY <2>1, PairAssumption DEF Lose, MayLose, TypeOK
  <2>4. pc' \in [Pairs -> Steps] /\ result' \in [Pairs -> Statuses]
    BY <2>1, GotoType, EndType DEF Steps, Statuses
  <2> QED BY <1>10, <2>2, <2>3, <2>4 DEF SendNo, TypeOK
<1>11. ASSUME NEW p \in Pairs, AskNo(p) PROVE TypeOK'
  <2>1. PICK v \in Readings(p, "no", 0) :
          /\ Read(p, "no", v)
          /\ IF RecheckDue(before[p]["no"], v)
             THEN Goto(p, "recheckNo") /\ UNCHANGED latches
             ELSE DecideNo(p, v)
    BY <1>11 DEF AskNo
  <2>2. /\ pc' \in [Pairs -> Steps] /\ result' \in [Pairs -> Statuses]
        /\ confirmed' \in BOOLEAN /\ disproven' \in BOOLEAN
        /\ unchecked' \subseteq Pairs /\ named' \subseteq Pairs
    BY <2>1, GotoType, DecideNoType DEF TypeOK, Steps
  <2> QED BY <1>11, <2>1, <2>2, ReadType, Basics DEF AskNo, TypeOK
<1>12. ASSUME NEW p \in Pairs, RecheckNo(p) PROVE TypeOK'
  BY <1>12, DecideNoType, ReadType, Basics DEF RecheckNo, TypeOK
<1>13. ASSUME NEW p \in Pairs, ConfirmEntry(p) PROVE TypeOK'
  BY <1>13, GotoType, EndType DEF ConfirmEntry, TypeOK, Steps, Statuses
<1>14. ASSUME NEW p \in Pairs, CheckMapping(p) PROVE TypeOK'
  <2>1. PICK v \in Readings(p, "no", tries[p]) :
         LET d == Delta(before[p]["no"], v)
         IN /\ Read(p, "no", v)
            /\ \/ /\ d = Unread
                  /\ unchecked' = unchecked \cup {p}
                  /\ Goto(p, "sendYes")
                  /\ UNCHANGED <<tries, confirmed, disproven, named>>
               \/ /\ d = 0 /\ RechecksLeft(p)
                  /\ tries' = [tries EXCEPT ![p] = @ + 1]
                  /\ UNCHANGED <<pc, result, latches>>
               \/ /\ d = -Count
                  /\ confirmed' = TRUE
                  /\ Goto(p, "sendYes")
                  /\ UNCHANGED <<tries, disproven, unchecked, named>>
               \/ /\ d \notin {Unread, -Count}
                  /\ d = 0 => ~RechecksLeft(p)
                  /\ Disprove
                  /\ End(p, "manual_review")
                  /\ UNCHANGED tries
    BY <1>14 DEF CheckMapping
  <2>2. pc' \in [Pairs -> Steps] /\ result' \in [Pairs -> Statuses]
    <3>1. \/ Goto(p, "sendYes") \/ End(p, "manual_review") \/ UNCHANGED <<pc, result>>
      BY <2>1
    <3> QED BY <3>1, GotoType, EndType DEF TypeOK, Steps, Statuses
  <2>3. /\ confirmed' \in BOOLEAN /\ disproven' \in BOOLEAN
        /\ unchecked' \subseteq Pairs /\ named' \subseteq Pairs
    BY <2>1 DEF TypeOK, Disprove
  <2>4. tries' \in [Pairs -> 0 .. Rechecks]
    <3>1. \/ tries' = tries
          \/ tries[p] < Rechecks /\ tries' = [tries EXCEPT ![p] = @ + 1]
      BY <2>1 DEF RechecksLeft
    <3>2. tries \in [Pairs -> 0 .. Rechecks] /\ tries[p] \in 0 .. Rechecks
      BY DEF TypeOK
    <3>3. tries[p] < Rechecks => tries[p] + 1 \in 0 .. Rechecks
      BY <3>2, PairAssumption
    <3> QED BY <3>1, <3>2, <3>3
  <2> QED BY <1>14, <2>1, <2>2, <2>3, <2>4, ReadType, Basics
       DEF CheckMapping, TypeOK
<1>15. ASSUME NEW p \in Pairs, SendYes(p) PROVE TypeOK'
  <2>1. PICK fills \in BOOLEAN, lost \in BOOLEAN :
          /\ MayLose(lost) /\ Lose(lost)
          /\ pos' = IF fills THEN [pos EXCEPT ![p]["yes"] = @ + Count] ELSE pos
          /\ IF lost THEN Goto(p, "askYes")
             ELSE IF fills THEN End(p, "executed") ELSE Goto(p, "unwind")
    BY <1>15 DEF SendYes
  <2>2. pos' \in [Pairs -> [Legs -> Int]]
    BY <2>1, Basics DEF TypeOK
  <2>3. faults' \in 0 .. MaxFaults
    BY <2>1, PairAssumption DEF Lose, MayLose, TypeOK
  <2>4. pc' \in [Pairs -> Steps] /\ result' \in [Pairs -> Statuses]
    BY <2>1, GotoType, EndType DEF Steps, Statuses
  <2> QED BY <1>15, <2>2, <2>3, <2>4 DEF SendYes, TypeOK
<1>16. ASSUME NEW p \in Pairs, AskYes(p) PROVE TypeOK'
  <2>1. PICK v \in Readings(p, "yes", 0) :
          /\ Read(p, "yes", v)
          /\ IF RecheckDue(before[p]["yes"], v)
             THEN Goto(p, "recheckYes") ELSE DecideYes(p, v)
    BY <1>16 DEF AskYes
  <2>2. pc' \in [Pairs -> Steps] /\ result' \in [Pairs -> Statuses]
    BY <2>1, GotoType, DecideYesType DEF Steps
  <2> QED BY <1>16, <2>1, <2>2, ReadType, Basics DEF AskYes, TypeOK
<1>17. ASSUME NEW p \in Pairs, RecheckYes(p) PROVE TypeOK'
  BY <1>17, DecideYesType, ReadType, Basics DEF RecheckYes, TypeOK
<1>18. ASSUME NEW p \in Pairs, Unwind(p) PROVE TypeOK'
  <2>1. PICK closed \in 0 .. Count, lost \in BOOLEAN :
          /\ MayLose(lost) /\ Lose(lost)
          /\ pos' = [pos EXCEPT ![p]["no"] = @ + closed]
          /\ End(p, IF closed = Count /\ ~lost THEN "rolled_back"
                                               ELSE "rollback_failed")
    BY <1>18 DEF Unwind
  <2>2. pos' \in [Pairs -> [Legs -> Int]]
    BY <2>1, Basics DEF TypeOK
  <2>3. faults' \in 0 .. MaxFaults
    BY <2>1, PairAssumption DEF Lose, MayLose, TypeOK
  <2>4. pc' \in [Pairs -> Steps] /\ result' \in [Pairs -> Statuses]
    BY <2>1, EndType DEF Statuses
  <2> QED BY <1>18, <2>2, <2>3, <2>4 DEF Unwind, TypeOK
<1>19. ASSUME NEW p \in Pairs, NEW l \in Legs, OutsideTrade(p, l) PROVE TypeOK'
  <2>1. PICK d \in {-Count, Count} : pos' = [pos EXCEPT ![p][l] = @ + d]
    BY <1>19 DEF OutsideTrade
  <2>2. pos' \in [Pairs -> [Legs -> Int]]
    BY <2>1, Basics DEF TypeOK
  <2> QED BY <1>19, <2>2 DEF OutsideTrade, TypeOK
<1> QED BY <1>1, <1>2, <1>3, <1>4, <1>5, <1>6, <1>7, <1>8, <1>9, <1>10, <1>11,
           <1>12, <1>13, <1>14, <1>15, <1>16, <1>17, <1>18, <1>19 DEF Next, PairStep

\* Every variable keeps its type in every run, whatever the constants.
THEOREM TypeCorrect == Spec => []TypeOK
BY TypeInit, TypeStep, PTL DEF Spec

----------------------------------------------------------------------------
(* What the account holds of a pair, by the step its worker has reached.  An   *)
(* unwind rests on the NO leg being known to have filled, and that knowledge   *)
(* on the baseline being what the account held before the batch: both are part *)
(* of the invariant.  lag = 0 says a reading after one pause is up to date.    *)

NothingSent == {"waiting", "queued", "baseline", "sendNo"}
NoUnsure    == {"askNo", "recheckNo"}
NoFilled    == {"confirm", "check", "sendYes"}
YesUnsure   == {"askYes", "recheckYes"}

\* The change n of the NO market and y of the YES market a step stands for.
StepHolds(step, n, y) ==
    /\ step \in NothingSent => n = 0 /\ y = 0
    /\ step \in NoUnsure    => n \in {0, -Count} /\ y = 0
    /\ step \in NoFilled    => n = -Count /\ y = 0
    /\ step \in YesUnsure   => n = -Count /\ y \in {0, Count}
    /\ step = "unwind"      => n = -Count /\ y \in {0, Count} /\ (lag = 0 => y = 0)
    /\ step = "done"        => n \in -Count .. 0 /\ y \in {0, Count}

\* The same for a status, which only a pair that is done has.
StatusHolds(step, status, n, y) ==
    /\ step # "done" => status = "none"
    /\ status = "executed" => n = -Count /\ y = Count
    /\ lag = 0 =>
         /\ status \in {"failed", "rolled_back"} => n = 0 /\ y = 0
         /\ status = "rollback_failed" => y = 0

\* A baseline is unread or what the account held, and until the pair is done a
\* late reading is one of the two positions its market had.
ReadingsHold(step, b, ld, p, q) ==
    \A l \in Legs : /\ b[l] \in {Unread, q[l]}
                    /\ step # "done" => ld[l] \in {p[l], q[l]}

AccountOf(step, status, b, ld, p, q) ==
    /\ StepHolds(step, p["no"] - q["no"], p["yes"] - q["yes"])
    /\ StatusHolds(step, status, p["no"] - q["no"], p["yes"] - q["yes"])
    /\ ReadingsHold(step, b, ld, p, q)

Account(p) == AccountOf(pc[p], result[p], before[p], led[p], pos[p], pos0[p])

AccountInv == RightMapping => \A p \in Pairs \ touched : Account(p)

\* Everything Account(q) looks at stays as it is.
Kept(q) == /\ pc'[q] = pc[q] /\ result'[q] = result[q] /\ before'[q] = before[q]
           /\ led'[q] = led[q] /\ pos'[q] = pos[q]

\* A pair nothing is done to keeps its account.
LEMMA KeptAccount ==
    ASSUME NEW q \in Pairs, Account(q), Kept(q), pos0' = pos0, lag' = lag
    PROVE  Account(q)'
BY DEF Account, AccountOf, StepHolds, StatusHolds, ReadingsHold, Kept,
       NothingSent, NoUnsure, NoFilled, YesUnsure

\* Going on changes the pair's step only ...
LEMMA GotoFacts ==
    ASSUME TypeOK, NEW p \in Pairs, NEW step, Goto(p, step)
    PROVE  /\ pc'[p] = step /\ result' = result
           /\ \A q \in Pairs \ {p} : pc'[q] = pc[q]
BY DEF Goto, TypeOK

\* ... and ending its step and its status.
LEMMA EndFacts ==
    ASSUME TypeOK, NEW p \in Pairs, NEW status, End(p, status)
    PROVE  /\ pc'[p] = "done" /\ result'[p] = status
           /\ \A q \in Pairs \ {p} : pc'[q] = pc[q] /\ result'[q] = result[q]
BY DEF End, TypeOK

\* A reading shows on its own leg only.
LEMMA ReadFacts ==
    ASSUME TypeOK, NEW p \in Pairs, NEW l \in Legs, NEW k, NEW v \in Readings(p, l, k),
           Read(p, l, v)
    PROVE  /\ v = Unread => led' = led
           /\ v # Unread => led'[p][l] = v
           /\ \A m \in Legs \ {l} : led'[p][m] = led[p][m]
           /\ \A q \in Pairs \ {p} : led'[q] = led[q]
BY DEF Read, TypeOK

\* The numbers behind a pair's account.
LEMMA Numbers ==
    ASSUME TypeOK, NEW p \in Pairs, NEW l \in Legs
    PROVE  /\ pos[p][l] \in Int /\ pos0[p][l] \in Int /\ led[p][l] \in Int
           /\ before[p][l] \in Int \cup {Unread}
           /\ pos0[p][l] # Unread /\ pos[p][l] # Unread
BY PairAssumption DEF TypeOK

\* A change that was read is none or the true one, and after the last late
\* reading it is the true one.
LEMMA DeltaFacts ==
    ASSUME TypeOK, NEW p \in Pairs, NEW l \in Legs, NEW k, NEW v \in Readings(p, l, k),
           Account(p), pc[p] # "done"
    PROVE  LET d == Delta(before[p][l], v)
           IN /\ d = Unread \/ d = 0 \/ d = Change(p, l)
              /\ k > lag => d = Unread \/ d = Change(p, l)
              /\ v # Unread => v \in {pos[p][l], pos0[p][l]}
<1>1. before[p][l] \in {Unread, pos0[p][l]} /\ led[p][l] \in {pos[p][l], pos0[p][l]}
  BY DEF Account, AccountOf, ReadingsHold
<1>2. /\ v \in Int \cup {Unread}
      /\ v # Unread => v \in {pos[p][l], led[p][l]}
      /\ v # Unread /\ k > lag => v = pos[p][l]
  BY ReadingsType
<1>3. pos[p][l] \in Int /\ pos0[p][l] \in Int
  BY Numbers
<1>4. CASE before[p][l] = Unread \/ v = Unread
  BY <1>1, <1>2, <1>4 DEF Delta
<1>5. CASE before[p][l] # Unread /\ v # Unread
  <2>1. Delta(before[p][l], v) = v - pos0[p][l]
    BY <1>1, <1>5 DEF Delta
  <2> QED BY <1>1, <1>2, <1>3, <1>5, <2>1 DEF Change
<1> QED BY <1>4, <1>5

----------------------------------------------------------------------------
(* One lemma per step of a worker: the pair keeps its account.                *)

\* Unless the pair ends, new readings that hold are all a reading changes.
LEMMA ReadingKept ==
    ASSUME TypeOK, NEW p \in Pairs, NEW l \in Legs, NEW k, NEW v \in Readings(p, l, k),
           Account(p), pc[p] # "done", Read(p, l, v),
           before' = before, pos' = pos, pos0' = pos0, lag' = lag, NEW step
    PROVE  ReadingsHold(step, before'[p], led'[p], pos'[p], pos0'[p])
<1>1. \A m \in Legs : before[p][m] \in {Unread, pos0[p][m]}
                    /\ led[p][m] \in {pos[p][m], pos0[p][m]}
  BY DEF Account, AccountOf, ReadingsHold
<1>2. \A m \in Legs : led'[p][m] \in {pos[p][m], pos0[p][m]}
  BY <1>1, DeltaFacts, ReadFacts
<1> QED BY <1>1, <1>2 DEF ReadingsHold

\* A pair that ends before it sent anything left everything as it was.
LEMMA EndsBeforeSending ==
    ASSUME TypeOK, NEW p \in Pairs, Account(p), pc[p] \in NothingSent,
           pos' = pos, pos0' = pos0, lag' = lag,
           \A l \in Legs : before'[p][l] \in {Unread, pos0[p][l]},
           NEW status \in {"failed", "manual_review"}, End(p, status)
    PROVE  Account(p)'
<1>1. pos[p]["no"] - pos0[p]["no"] = 0 /\ pos[p]["yes"] - pos0[p]["yes"] = 0
  BY DEF Account, AccountOf, StepHolds
<1>2. pc'[p] = "done" /\ result'[p] = status
  BY EndFacts
<1> QED BY <1>1, <1>2, Basics
    DEF Account, AccountOf, StepHolds, StatusHolds, ReadingsHold,
        NothingSent, NoUnsure, NoFilled, YesUnsure

\* The baselines are what the account held.
LEMMA ReadBaselinesAccount ==
    ASSUME TypeOK, NEW p \in Pairs, Account(p), ReadBaselines(p)
    PROVE  Account(p)'
<1>1. pc[p] = "baseline" /\ pc[p] \in NothingSent /\ pos' = pos /\ pos0' = pos0
      /\ lag' = lag
  BY DEF ReadBaselines, fixed, NothingSent
<1>2. pos[p]["no"] - pos0[p]["no"] = 0 /\ pos[p]["yes"] - pos0[p]["yes"] = 0
      /\ result[p] = "none"
      /\ \A l \in Legs : led[p][l] \in {pos[p][l], pos0[p][l]}
  BY <1>1 DEF Account, AccountOf, StepHolds, StatusHolds, ReadingsHold
<1>3. \A l \in Legs : pos[p][l] = pos0[p][l]
  BY <1>2, Numbers, Basics DEF Legs
<1>4. \A l \in Legs : \A v \in Readings(p, l, 0) : v \in {Unread, pos0[p][l]}
  BY <1>2, <1>3, ReadingsType
<1>5. PICK no \in Readings(p, "no", 0), yes \in Readings(p, "yes", 0) :
        LET b == [l \in Legs |-> IF l = "no" THEN no ELSE yes]
            failed == {l \in Legs : b[l] = Unread}
        IN /\ led' = [led EXCEPT ![p] = [l \in Legs |->
                         IF l \in failed THEN led[p][l] ELSE b[l]]]
           /\ before' = [before EXCEPT ![p] = b]
           /\ IF Mismatch(p, b) THEN End(p, "failed") ELSE Goto(p, "sendNo")
  BY DEF ReadBaselines
<1> DEFINE b == [l \in Legs |-> IF l = "no" THEN no ELSE yes]
           failed == {l \in Legs : b[l] = Unread}
<1>6. \A l \in Legs : b[l] \in {Unread, pos0[p][l]}
  BY <1>4, Basics DEF Legs
<1>7. \A l \in Legs : before'[p][l] \in {Unread, pos0[p][l]}
  BY <1>5, <1>6 DEF TypeOK
<1>8. \A l \in Legs : led'[p][l] \in {pos[p][l], pos0[p][l]}
  BY <1>2, <1>5, <1>6 DEF TypeOK
<1>9. CASE End(p, "failed")
  BY <1>1, <1>7, <1>9, EndsBeforeSending
<1>10. CASE Goto(p, "sendNo")
  <2>1. pc'[p] = "sendNo" /\ result'[p] = "none"
    BY <1>2, <1>10, GotoFacts
  <2> QED BY <1>1, <1>2, <1>7, <1>8, <2>1
      DEF Account, AccountOf, StepHolds, StatusHolds, ReadingsHold,
          NothingSent, NoUnsure, NoFilled, YesUnsure
<1> QED BY <1>5, <1>9, <1>10

\* The NO order moves the NO leg by all or nothing.
LEMMA SendNoAccount ==
    ASSUME TypeOK, RightMapping, NEW p \in Pairs, Account(p), SendNo(p)
    PROVE  Account(p)'
<1>1. /\ pc[p] = "sendNo" /\ pos0' = pos0 /\ lag' = lag /\ before' = before /\ led' = led
  BY DEF SendNo, fixed
<1>2. PICK fills \in BOOLEAN, lost \in BOOLEAN :
        /\ pos' = IF fills THEN [pos EXCEPT ![p]["no"] = @ + noMove] ELSE pos
        /\ IF lost THEN Goto(p, "askNo")
           ELSE IF fills THEN Goto(p, "confirm") ELSE End(p, "failed")
  BY DEF SendNo
<1>3. /\ pos[p]["no"] = pos0[p]["no"] /\ pos[p]["yes"] = pos0[p]["yes"]
      /\ result[p] = "none"
      /\ \A l \in Legs : /\ before[p][l] \in {Unread, pos0[p][l]}
                         /\ led[p][l] = pos0[p][l]
  <2>1. /\ pos[p]["no"] - pos0[p]["no"] = 0 /\ pos[p]["yes"] - pos0[p]["yes"] = 0
        /\ result[p] = "none"
        /\ \A l \in Legs : /\ before[p][l] \in {Unread, pos0[p][l]}
                           /\ led[p][l] \in {pos[p][l], pos0[p][l]}
    BY <1>1 DEF Account, AccountOf, StepHolds, StatusHolds, ReadingsHold, NothingSent
  <2> QED BY <2>1, Numbers, Basics
<1>4. /\ pos'[p]["no"] = IF fills THEN pos0[p]["no"] - Count ELSE pos0[p]["no"]
      /\ pos'[p]["yes"] = pos0[p]["yes"]
  BY <1>2, <1>3, Basics, Numbers DEF TypeOK, RightMapping
<1>5. /\ pos'[p]["no"] - pos0'[p]["no"] = IF fills THEN -Count ELSE 0
      /\ pos'[p]["yes"] - pos0'[p]["yes"] = 0
  BY <1>1, <1>4, Numbers, Basics
<1>6. \A step : ReadingsHold(step, before'[p], led'[p], pos'[p], pos0'[p])
  BY <1>1, <1>3 DEF ReadingsHold
<1>7. /\ lost => pc'[p] = "askNo" /\ result'[p] = "none"
      /\ ~lost /\ fills => pc'[p] = "confirm" /\ result'[p] = "none"
      /\ ~lost /\ ~fills => pc'[p] = "done" /\ result'[p] = "failed"
  BY <1>2, <1>3, GotoFacts, EndFacts
<1>8. StepHolds(pc'[p], pos'[p]["no"] - pos0'[p]["no"], pos'[p]["yes"] - pos0'[p]["yes"])
  BY <1>5, <1>7, Basics
  DEF StepHolds, NothingSent, NoUnsure, NoFilled, YesUnsure
<1>9. StatusHolds(pc'[p], result'[p], pos'[p]["no"] - pos0'[p]["no"],
                  pos'[p]["yes"] - pos0'[p]["yes"])
  BY <1>5, <1>7, Basics DEF StatusHolds
<1> QED BY <1>1, <1>6, <1>8, <1>9
    DEF Account, AccountOf, StepHolds, StatusHolds

\* What the decision after a NO reading leads to, from the change that was read.
LEMMA DecideNoAccount ==
    ASSUME TypeOK, NEW p \in Pairs, Account(p), pc[p] \in NoUnsure,
           NEW k, NEW v \in Readings(p, "no", k), Read(p, "no", v), DecideNo(p, v),
           lag = 0 => k > lag,
           pos' = pos, pos0' = pos0, lag' = lag, before' = before
    PROVE  Account(p)'
<1> DEFINE d == Delta(before[p]["no"], v)
           n == pos[p]["no"] - pos0[p]["no"]
           y == pos[p]["yes"] - pos0[p]["yes"]
<1>1. pc[p] # "done" /\ result[p] = "none" /\ n \in {0, -Count} /\ y = 0
  BY DEF Account, AccountOf, StepHolds, StatusHolds, NoUnsure
<1>2. /\ d = Unread \/ d = 0 \/ d = n
      /\ lag = 0 => d = Unread \/ d = n
  BY <1>1, DeltaFacts, Basics DEF Change
<1>3. 0 # Unread /\ -Count # 0 /\ -Count # Unread
  BY PairAssumption
<1>4. /\ \/ d = 0 /\ End(p, "failed")
         \/ d = -Count /\ Goto(p, "unwind")
         \/ End(p, "manual_review")
  BY DEF DecideNo
<1> HIDE DEF d
<1>5. \/ pc'[p] = "done" /\ result'[p] = "failed" /\ (lag = 0 => n = 0)
      \/ pc'[p] = "unwind" /\ result'[p] = "none" /\ n = -Count
      \/ pc'[p] = "done" /\ result'[p] = "manual_review"
  BY <1>1, <1>2, <1>3, <1>4, GotoFacts, EndFacts
<1>6. ReadingsHold(pc'[p], before'[p], led'[p], pos'[p], pos0'[p])
  BY <1>1, ReadingKept, Basics
<1>7. StepHolds(pc'[p], n, y)
  BY <1>1, <1>5, Basics
  DEF StepHolds, NothingSent, NoUnsure, NoFilled, YesUnsure
<1>8. StatusHolds(pc'[p], result'[p], n, y)
  BY <1>1, <1>5, Basics DEF StatusHolds
<1> QED BY <1>1, <1>6, <1>7, <1>8
    DEF Account, AccountOf, StepHolds, StatusHolds

\* A step that reads a position and goes to one that stands for the same change.
LEMMA GoesOnAccount ==
    ASSUME TypeOK, NEW p \in Pairs, Account(p), pc[p] # "done",
           NEW l \in Legs, NEW k, NEW v \in Readings(p, l, k), Read(p, l, v),
           pos' = pos, pos0' = pos0, lag' = lag, before' = before,
           result'[p] = result[p], pc'[p] # "done",
           StepHolds(pc'[p], pos[p]["no"] - pos0[p]["no"], pos[p]["yes"] - pos0[p]["yes"])
    PROVE  Account(p)'
<1>1. ReadingsHold(pc'[p], before'[p], led'[p], pos'[p], pos0'[p])
  BY ReadingKept
<1>2. StatusHolds(pc'[p], result'[p], pos[p]["no"] - pos0[p]["no"],
                  pos[p]["yes"] - pos0[p]["yes"])
  BY DEF Account, AccountOf, StatusHolds
<1> QED BY <1>1, <1>2
    DEF Account, AccountOf, StepHolds, StatusHolds

\* A first reading that shows a change shows the true one.
LEMMA AskNoAccount ==
    ASSUME TypeOK, NEW p \in Pairs, Account(p), AskNo(p)
    PROVE  Account(p)'
<1>1. /\ pc[p] = "askNo" /\ pos' = pos /\ pos0' = pos0 /\ lag' = lag /\ before' = before
  BY DEF AskNo, fixed
<1>2. PICK v \in Readings(p, "no", 0) :
        /\ Read(p, "no", v)
        /\ IF RecheckDue(before[p]["no"], v) THEN Goto(p, "recheckNo") ELSE DecideNo(p, v)
  BY DEF AskNo
<1>3. CASE RecheckDue(before[p]["no"], v)
  <2>1. pc'[p] = "recheckNo" /\ result'[p] = result[p]
    BY <1>2, <1>3, GotoFacts
  <2>2. StepHolds("recheckNo", pos[p]["no"] - pos0[p]["no"], pos[p]["yes"] - pos0[p]["yes"])
    BY <1>1 DEF Account, AccountOf, StepHolds, NothingSent, NoUnsure, NoFilled, YesUnsure
  <2> QED BY <1>1, <1>2, <2>1, <2>2, GoesOnAccount, Basics
<1>4. CASE ~RecheckDue(before[p]["no"], v)
  <2> DEFINE d == Delta(before[p]["no"], v)
  <2>1. d # 0 /\ DecideNo(p, v)
    BY <1>2, <1>4 DEF RecheckDue
  <2>2. /\ result[p] = "none" /\ pos[p]["no"] - pos0[p]["no"] \in {0, -Count}
        /\ pos[p]["yes"] - pos0[p]["yes"] = 0
    BY <1>1 DEF Account, AccountOf, StepHolds, StatusHolds, NoUnsure
  <2>3. d = Unread \/ d = pos[p]["no"] - pos0[p]["no"]
    BY <1>1, <2>1, DeltaFacts, Basics DEF Change
  <2>4. \/ d = -Count /\ Goto(p, "unwind")
        \/ End(p, "manual_review")
    BY <2>1 DEF DecideNo
  <2>5. -Count # Unread
    BY PairAssumption
  <2> HIDE DEF d
  <2>6. CASE d = -Count /\ Goto(p, "unwind")
    <3>1. pc'[p] = "unwind" /\ result'[p] = result[p]
      BY <2>6, GotoFacts
    <3>2. StepHolds("unwind", pos[p]["no"] - pos0[p]["no"], pos[p]["yes"] - pos0[p]["yes"])
      BY <2>2, <2>3, <2>5, <2>6
      DEF StepHolds, NothingSent, NoUnsure, NoFilled, YesUnsure
    <3> QED BY <1>1, <1>2, <3>1, <3>2, GoesOnAccount, Basics
  <2>7. CASE End(p, "manual_review")
    <3>1. pc'[p] = "done" /\ result'[p] = "manual_review"
      BY <2>7, EndFacts
    <3>2. ReadingsHold(pc'[p], before'[p], led'[p], pos'[p], pos0'[p])
      BY <1>1, <1>2, ReadingKept, Basics
    <3> QED BY <1>1, <2>2, <3>1, <3>2, Basics
        DEF Account, AccountOf, StepHolds, StatusHolds,
            NothingSent, NoUnsure, NoFilled, YesUnsure
  <2> QED BY <2>4, <2>6, <2>7
<1> QED BY <1>3, <1>4

\* The second reading settles it.
LEMMA RecheckNoAccount ==
    ASSUME TypeOK, NEW p \in Pairs, Account(p), RecheckNo(p)
    PROVE  Account(p)'
<1>1. /\ pc[p] \in NoUnsure /\ pos' = pos /\ pos0' = pos0 /\ lag' = lag /\ before' = before
  BY DEF RecheckNo, fixed, NoUnsure
<1>2. lag = 0 => 1 > lag
  OBVIOUS
<1> QED BY <1>1, <1>2, DecideNoAccount DEF RecheckNo

\* A step that moves no position and reads none keeps the account if the new
\* step stands for the same change and a pair that ends ends without a promise.
LEMMA QuietAccount ==
    ASSUME TypeOK, NEW p \in Pairs, Account(p), pc[p] # "done",
           pos' = pos, pos0' = pos0, lag' = lag, before' = before, led' = led,
           \/ /\ pc'[p] # "done" /\ result'[p] = result[p]
              /\ StepHolds(pc'[p], pos[p]["no"] - pos0[p]["no"],
                                   pos[p]["yes"] - pos0[p]["yes"])
           \/ /\ pc'[p] = "done" /\ result'[p] = "manual_review"
              /\ pos[p]["no"] - pos0[p]["no"] \in {0, -Count}
              /\ pos[p]["yes"] - pos0[p]["yes"] = 0
    PROVE  Account(p)'
<1>1. ReadingsHold(pc'[p], before'[p], led'[p], pos'[p], pos0'[p])
  BY DEF Account, AccountOf, ReadingsHold
<1>2. StepHolds(pc'[p], pos[p]["no"] - pos0[p]["no"], pos[p]["yes"] - pos0[p]["yes"])
  BY Basics DEF StepHolds, NothingSent, NoUnsure, NoFilled, YesUnsure
<1>3. StatusHolds(pc'[p], result'[p], pos[p]["no"] - pos0[p]["no"],
                  pos[p]["yes"] - pos0[p]["yes"])
  BY DEF Account, AccountOf, StatusHolds
<1> QED BY <1>1, <1>2, <1>3
    DEF Account, AccountOf, StepHolds, StatusHolds

\* The look at the latches moves nothing.
LEMMA ConfirmEntryAccount ==
    ASSUME TypeOK, NEW p \in Pairs, Account(p), ConfirmEntry(p)
    PROVE  Account(p)'
<1>1. /\ pc[p] = "confirm" /\ pos' = pos /\ pos0' = pos0 /\ lag' = lag /\ before' = before
      /\ led' = led
  BY DEF ConfirmEntry, fixed
<1>2. \/ End(p, "manual_review") \/ Goto(p, "sendYes") \/ Goto(p, "check")
  BY DEF ConfirmEntry
<1>3. /\ pos[p]["no"] - pos0[p]["no"] = -Count /\ pos[p]["yes"] - pos0[p]["yes"] = 0
      /\ \A step \in NoFilled : StepHolds(step, pos[p]["no"] - pos0[p]["no"],
                                          pos[p]["yes"] - pos0[p]["yes"])
  BY <1>1 DEF Account, AccountOf, StepHolds, NothingSent, NoUnsure, NoFilled, YesUnsure
<1>4. CASE End(p, "manual_review")
  BY <1>1, <1>3, <1>4, EndFacts, QuietAccount
<1>5. CASE Goto(p, "sendYes") \/ Goto(p, "check")
  <2>1. pc'[p] \in NoFilled /\ pc'[p] # "done" /\ result'[p] = result[p]
    BY <1>5, GotoFacts DEF NoFilled
  <2> QED BY <1>1, <1>3, <2>1, QuietAccount
<1> QED BY <1>2, <1>4, <1>5

\* Nor does the mapping check.
LEMMA CheckMappingAccount ==
    ASSUME TypeOK, NEW p \in Pairs, Account(p), CheckMapping(p)
    PROVE  Account(p)'
<1>1. /\ pc[p] = "check" /\ pos' = pos /\ pos0' = pos0 /\ lag' = lag /\ before' = before
  BY DEF CheckMapping, fixed
<1>2. PICK v \in Readings(p, "no", tries[p]) :
        /\ Read(p, "no", v)
        /\ Goto(p, "sendYes") \/ UNCHANGED <<pc, result>> \/ End(p, "manual_review")
  BY DEF CheckMapping
<1>3. /\ pos[p]["no"] - pos0[p]["no"] = -Count /\ pos[p]["yes"] - pos0[p]["yes"] = 0
      /\ \A step \in NoFilled : StepHolds(step, pos[p]["no"] - pos0[p]["no"],
                                          pos[p]["yes"] - pos0[p]["yes"])
  BY <1>1 DEF Account, AccountOf, StepHolds, NothingSent, NoUnsure, NoFilled, YesUnsure
<1>4. CASE Goto(p, "sendYes") \/ UNCHANGED <<pc, result>>
  <2>1. pc'[p] \in NoFilled /\ pc'[p] # "done" /\ result'[p] = result[p]
    BY <1>1, <1>4, GotoFacts DEF NoFilled
  <2> QED BY <1>1, <1>2, <1>3, <2>1, GoesOnAccount, Basics
<1>5. CASE End(p, "manual_review")
  <2>1. pc'[p] = "done" /\ result'[p] = "manual_review"
    BY <1>5, EndFacts
  <2>2. ReadingsHold(pc'[p], before'[p], led'[p], pos'[p], pos0'[p])
    BY <1>1, <1>2, ReadingKept, Basics
  <2> QED BY <1>1, <1>3, <2>1, <2>2, Basics
      DEF Account, AccountOf, StepHolds, StatusHolds,
          NothingSent, NoUnsure, NoFilled, YesUnsure
<1> QED BY <1>2, <1>4, <1>5

\* The YES order moves the YES leg by all or nothing.
LEMMA SendYesAccount ==
    ASSUME TypeOK, NEW p \in Pairs, Account(p), SendYes(p)
    PROVE  Account(p)'
<1>1. /\ pc[p] = "sendYes" /\ pos0' = pos0 /\ lag' = lag /\ before' = before /\ led' = led
  BY DEF SendYes, fixed
<1>2. PICK fills \in BOOLEAN, lost \in BOOLEAN :
        /\ pos' = IF fills THEN [pos EXCEPT ![p]["yes"] = @ + Count] ELSE pos
        /\ IF lost THEN Goto(p, "askYes")
           ELSE IF fills THEN End(p, "executed") ELSE Goto(p, "unwind")
  BY DEF SendYes
<1>3. /\ pos[p]["no"] - pos0[p]["no"] = -Count
      /\ pos[p]["yes"] - pos0[p]["yes"] = 0
      /\ result[p] = "none"
      /\ \A l \in Legs : /\ before[p][l] \in {Unread, pos0[p][l]}
                         /\ led[p][l] \in {pos[p][l], pos0[p][l]}
  BY <1>1 DEF Account, AccountOf, StepHolds, StatusHolds, ReadingsHold, NoFilled
<1>4. pos[p]["yes"] = pos0[p]["yes"]
  BY <1>3, Numbers, Basics
<1>5. /\ pos'[p]["yes"] = IF fills THEN pos0[p]["yes"] + Count ELSE pos0[p]["yes"]
      /\ pos'[p]["no"] = pos[p]["no"]
  BY <1>2, <1>4, Basics, Numbers DEF TypeOK
<1>6. /\ pos'[p]["no"] - pos0'[p]["no"] = -Count
      /\ pos'[p]["yes"] - pos0'[p]["yes"] = IF fills THEN Count ELSE 0
  BY <1>1, <1>3, <1>5, Numbers, Basics
<1>7. \A step : ReadingsHold(step, before'[p], led'[p], pos'[p], pos0'[p])
  BY <1>1, <1>3, <1>4, <1>5, Basics DEF ReadingsHold, Legs
<1>8. /\ lost => pc'[p] = "askYes" /\ result'[p] = "none"
      /\ ~lost /\ fills => pc'[p] = "done" /\ result'[p] = "executed"
      /\ ~lost /\ ~fills => pc'[p] = "unwind" /\ result'[p] = "none"
  BY <1>2, <1>3, GotoFacts, EndFacts
<1>9. StepHolds(pc'[p], pos'[p]["no"] - pos0'[p]["no"], pos'[p]["yes"] - pos0'[p]["yes"])
  BY <1>6, <1>8, Basics
  DEF StepHolds, NothingSent, NoUnsure, NoFilled, YesUnsure
<1>10. StatusHolds(pc'[p], result'[p], pos'[p]["no"] - pos0'[p]["no"],
                   pos'[p]["yes"] - pos0'[p]["yes"])
  BY <1>6, <1>8, Basics DEF StatusHolds
<1> QED BY <1>1, <1>7, <1>9, <1>10
    DEF Account, AccountOf, StepHolds, StatusHolds

\* The YES reading: which changes it can show, and what it leads to.
LEMMA YesReading ==
    ASSUME TypeOK, NEW p \in Pairs, Account(p), pc[p] \in YesUnsure,
           NEW k, NEW v \in Readings(p, "yes", k)
    PROVE  LET d == Delta(before[p]["yes"], v)
               y == pos[p]["yes"] - pos0[p]["yes"]
           IN /\ d = Unread \/ d = 0 \/ d = y
              /\ k > lag => d = Unread \/ d = y
              /\ y \in {0, Count} /\ pos[p]["no"] - pos0[p]["no"] = -Count
              /\ result[p] = "none" /\ pc[p] # "done"
<1>1. /\ pos[p]["yes"] - pos0[p]["yes"] \in {0, Count} /\ pc[p] # "done"
      /\ pos[p]["no"] - pos0[p]["no"] = -Count /\ result[p] = "none"
  BY DEF Account, AccountOf, StepHolds, StatusHolds, YesUnsure
<1> QED BY <1>1, DeltaFacts, Basics DEF Change

\* What the decision after a YES reading leads to.
LEMMA DecideYesAccount ==
    ASSUME TypeOK, NEW p \in Pairs, Account(p), pc[p] \in YesUnsure,
           NEW k, NEW v \in Readings(p, "yes", k), Read(p, "yes", v), DecideYes(p, v),
           lag = 0 /\ Delta(before[p]["yes"], v) = 0 => k > lag,
           pos' = pos, pos0' = pos0, lag' = lag, before' = before
    PROVE  Account(p)'
<1> DEFINE d == Delta(before[p]["yes"], v)
           n == pos[p]["no"] - pos0[p]["no"]
           y == pos[p]["yes"] - pos0[p]["yes"]
<1>1. /\ d = Unread \/ d = 0 \/ d = y
      /\ lag = 0 /\ d = 0 => d = Unread \/ d = y
      /\ y \in {0, Count} /\ n = -Count
      /\ result[p] = "none" /\ pc[p] # "done"
  BY YesReading
<1>2. \/ d = Count /\ End(p, "executed")
      \/ d = 0 /\ Goto(p, "unwind")
      \/ End(p, "manual_review")
  BY DEF DecideYes
<1>3. 0 # Unread /\ Count # 0 /\ Count # Unread
  BY PairAssumption
<1> HIDE DEF d
<1>4. \/ pc'[p] = "done" /\ result'[p] = "executed" /\ y = Count
      \/ pc'[p] = "unwind" /\ result'[p] = "none" /\ (lag = 0 => y = 0)
      \/ pc'[p] = "done" /\ result'[p] = "manual_review"
  BY <1>1, <1>2, <1>3, GotoFacts, EndFacts
<1>5. ReadingsHold(pc'[p], before'[p], led'[p], pos'[p], pos0'[p])
  BY <1>1, ReadingKept, Basics
<1>6. StepHolds(pc'[p], n, y)
  BY <1>1, <1>4, Basics
  DEF StepHolds, NothingSent, NoUnsure, NoFilled, YesUnsure
<1>7. StatusHolds(pc'[p], result'[p], n, y)
  BY <1>1, <1>4, Basics DEF StatusHolds
<1> QED BY <1>1, <1>5, <1>6, <1>7
    DEF Account, AccountOf, StepHolds, StatusHolds

\* The first YES reading.
LEMMA AskYesAccount ==
    ASSUME TypeOK, NEW p \in Pairs, Account(p), AskYes(p)
    PROVE  Account(p)'
<1>1. /\ pc[p] \in YesUnsure /\ pos' = pos /\ pos0' = pos0 /\ lag' = lag /\ before' = before
  BY DEF AskYes, fixed, YesUnsure
<1>2. PICK v \in Readings(p, "yes", 0) :
        /\ Read(p, "yes", v)
        /\ IF RecheckDue(before[p]["yes"], v)
           THEN Goto(p, "recheckYes") ELSE DecideYes(p, v)
  BY DEF AskYes
<1>3. CASE RecheckDue(before[p]["yes"], v)
  <2>1. pc'[p] = "recheckYes" /\ result'[p] = result[p] /\ pc[p] # "done"
    BY <1>1, <1>2, <1>3, GotoFacts DEF YesUnsure
  <2>2. StepHolds("recheckYes", pos[p]["no"] - pos0[p]["no"],
                  pos[p]["yes"] - pos0[p]["yes"])
    BY <1>1 DEF Account, AccountOf, StepHolds, NothingSent, NoUnsure, NoFilled, YesUnsure
  <2> QED BY <1>1, <1>2, <2>1, <2>2, GoesOnAccount, Basics
<1>4. CASE ~RecheckDue(before[p]["yes"], v)
  <2>1. Delta(before[p]["yes"], v) # 0 /\ DecideYes(p, v)
    BY <1>2, <1>4 DEF RecheckDue
  <2> QED BY <1>1, <1>2, <2>1, DecideYesAccount
<1> QED BY <1>3, <1>4

\* The second one.
LEMMA RecheckYesAccount ==
    ASSUME TypeOK, NEW p \in Pairs, Account(p), RecheckYes(p)
    PROVE  Account(p)'
<1>1. /\ pc[p] \in YesUnsure /\ pos' = pos /\ pos0' = pos0 /\ lag' = lag /\ before' = before
  BY DEF RecheckYes, fixed, YesUnsure
<1>2. lag = 0 => 1 > lag
  OBVIOUS
<1> QED BY <1>1, <1>2, DecideYesAccount DEF RecheckYes

\* An unwind closes no more than the pair opened.
LEMMA UnwindAccount ==
    ASSUME TypeOK, NEW p \in Pairs, Account(p), Unwind(p)
    PROVE  Account(p)'
<1>1. /\ pc[p] = "unwind" /\ pos0' = pos0 /\ lag' = lag /\ before' = before
  BY DEF Unwind, fixed
<1>2. PICK closed \in 0 .. Count, lost \in BOOLEAN :
        /\ pos' = [pos EXCEPT ![p]["no"] = @ + closed]
        /\ End(p, IF closed = Count /\ ~lost THEN "rolled_back" ELSE "rollback_failed")
  BY DEF Unwind
<1>3. /\ pos[p]["no"] - pos0[p]["no"] = -Count
      /\ pos[p]["yes"] - pos0[p]["yes"] \in {0, Count}
      /\ lag = 0 => pos[p]["yes"] - pos0[p]["yes"] = 0
      /\ \A l \in Legs : before[p][l] \in {Unread, pos0[p][l]}
  BY <1>1 DEF Account, AccountOf, StepHolds, ReadingsHold
<1>4. /\ pos'[p]["no"] = pos[p]["no"] + closed /\ pos'[p]["yes"] = pos[p]["yes"]
  BY <1>2, Basics DEF TypeOK
<1>5. /\ pos'[p]["no"] - pos0'[p]["no"] = closed - Count
      /\ pos'[p]["yes"] - pos0'[p]["yes"] = pos[p]["yes"] - pos0[p]["yes"]
  BY <1>1, <1>3, <1>4, Numbers, Basics
<1>6. /\ pc'[p] = "done" /\ result'[p] \in {"rolled_back", "rollback_failed"}
      /\ result'[p] = "rolled_back" => closed = Count
  BY <1>2, EndFacts
<1>7. closed - Count \in -Count .. 0 /\ (closed = Count => closed - Count = 0)
  BY Basics
<1>8. StepHolds(pc'[p], pos'[p]["no"] - pos0'[p]["no"], pos'[p]["yes"] - pos0'[p]["yes"])
  BY <1>3, <1>5, <1>6, <1>7
  DEF StepHolds, NothingSent, NoUnsure, NoFilled, YesUnsure
<1>9. StatusHolds(pc'[p], result'[p], pos'[p]["no"] - pos0'[p]["no"],
                  pos'[p]["yes"] - pos0'[p]["yes"])
  BY <1>3, <1>5, <1>6, <1>7 DEF StatusHolds
<1>10. ReadingsHold(pc'[p], before'[p], led'[p], pos'[p], pos0'[p])
  BY <1>1, <1>3, <1>6 DEF ReadingsHold
<1> QED BY <1>1, <1>8, <1>9, <1>10
    DEF Account, AccountOf, StepHolds, StatusHolds

\* A pair that is stopped, cannot be built or begins has sent nothing.
LEMMA EntryAccount ==
    ASSUME TypeOK, NEW p \in Pairs, Account(p),
           StopAtEntry(p) \/ BuildRaises(p) \/ Begin(p)
    PROVE  Account(p)'
<1>1. /\ pc[p] = "queued" /\ pc[p] \in NothingSent
      /\ pos' = pos /\ pos0' = pos0 /\ lag' = lag /\ before' = before /\ led' = led
  BY DEF StopAtEntry, BuildRaises, Begin, CanStart, fixed, NothingSent
<1>2. \A l \in Legs : before'[p][l] \in {Unread, pos0[p][l]}
  BY <1>1 DEF Account, AccountOf, ReadingsHold
<1>3. End(p, "failed") \/ End(p, "manual_review") \/ Goto(p, "baseline")
  BY DEF StopAtEntry, BuildRaises, Begin
<1>4. CASE End(p, "failed") \/ End(p, "manual_review")
  BY <1>1, <1>2, <1>4, EndsBeforeSending
<1>5. CASE Goto(p, "baseline")
  <2>1. pc'[p] = "baseline" /\ result'[p] = result[p] /\ pc[p] # "done"
    BY <1>1, <1>5, GotoFacts
  <2>2. StepHolds("baseline", pos[p]["no"] - pos0[p]["no"], pos[p]["yes"] - pos0[p]["yes"])
    BY <1>1 DEF Account, AccountOf, StepHolds, NothingSent, NoUnsure, NoFilled, YesUnsure
  <2> QED BY <1>1, <2>1, <2>2, QuietAccount
<1> QED BY <1>3, <1>4, <1>5

\* A worker's step changes its own pair only.
LEMMA OthersKept ==
    ASSUME TypeOK, NEW p \in Pairs, PairStep(p), NEW q \in Pairs \ {p}
    PROVE  Kept(q) /\ pos0' = pos0 /\ lag' = lag /\ noMove' = noMove /\ touched' = touched
<1> USE DEF Kept, fixed
<1>1. CASE StopAtEntry(p) \/ BuildRaises(p) \/ Begin(p)
  BY <1>1, GotoFacts, EndFacts DEF StopAtEntry, BuildRaises, Begin
<1>2. CASE ReadBaselines(p)
  <2>1. /\ led'[q] = led[q] /\ before'[q] = before[q]
        /\ (\E b : IF Mismatch(p, b) THEN End(p, "failed") ELSE Goto(p, "sendNo"))
    BY <1>2 DEF ReadBaselines, TypeOK
  <2> QED BY <1>2, <2>1, GotoFacts, EndFacts DEF ReadBaselines
<1>3. CASE SendNo(p)
  <2>1. pos'[q] = pos[q]
    BY <1>3 DEF SendNo, TypeOK
  <2> QED BY <1>3, <2>1, GotoFacts, EndFacts DEF SendNo
<1>4. CASE AskNo(p) \/ RecheckNo(p)
  <2>1. PICK v \in Readings(p, "no", 0) \cup Readings(p, "no", 1) :
          Read(p, "no", v) /\ (Goto(p, "recheckNo") \/ DecideNo(p, v))
    BY <1>4 DEF AskNo, RecheckNo
  <2>2. pc'[q] = pc[q] /\ result'[q] = result[q]
    BY <2>1, GotoFacts, EndFacts DEF DecideNo
  <2> QED BY <1>4, <2>1, <2>2, ReadFacts, Basics DEF AskNo, RecheckNo
<1>5. CASE ConfirmEntry(p)
  BY <1>5, GotoFacts, EndFacts DEF ConfirmEntry
<1>6. CASE CheckMapping(p)
  <2>1. PICK v \in Readings(p, "no", tries[p]) :
          /\ Read(p, "no", v)
          /\ Goto(p, "sendYes") \/ UNCHANGED <<pc, result>> \/ End(p, "manual_review")
    BY <1>6 DEF CheckMapping
  <2>2. pc'[q] = pc[q] /\ result'[q] = result[q]
    BY <2>1, GotoFacts, EndFacts
  <2> QED BY <1>6, <2>1, <2>2, ReadFacts, Basics DEF CheckMapping
<1>7. CASE SendYes(p)
  <2>1. pos'[q] = pos[q]
    BY <1>7 DEF SendYes, TypeOK
  <2> QED BY <1>7, <2>1, GotoFacts, EndFacts DEF SendYes
<1>8. CASE AskYes(p) \/ RecheckYes(p)
  <2>1. PICK v \in Readings(p, "yes", 0) \cup Readings(p, "yes", 1) :
          Read(p, "yes", v) /\ (Goto(p, "recheckYes") \/ DecideYes(p, v))
    BY <1>8 DEF AskYes, RecheckYes
  <2>2. pc'[q] = pc[q] /\ result'[q] = result[q]
    BY <2>1, GotoFacts, EndFacts DEF DecideYes
  <2> QED BY <1>8, <2>1, <2>2, ReadFacts, Basics DEF AskYes, RecheckYes
<1>9. CASE Unwind(p)
  <2>1. pos'[q] = pos[q]
    BY <1>9 DEF Unwind, TypeOK
  <2> QED BY <1>9, <2>1, EndFacts DEF Unwind
<1> QED BY <1>1, <1>2, <1>3, <1>4, <1>5, <1>6, <1>7, <1>8, <1>9 DEF PairStep

\* Every step of a worker keeps its pair's account.
LEMMA OwnAccount ==
    ASSUME TypeOK, RightMapping, NEW p \in Pairs, Account(p), PairStep(p)
    PROVE  Account(p)'
BY EntryAccount, ReadBaselinesAccount, SendNoAccount, AskNoAccount, RecheckNoAccount,
   ConfirmEntryAccount, CheckMappingAccount, SendYesAccount, AskYesAccount,
   RecheckYesAccount, UnwindAccount
DEF PairStep

\* The submitting thread moves pc of a pair that waits, and nothing else here.
LEMMA SubmitAccount ==
    ASSUME TypeOK, Submit, NEW q \in Pairs, Account(q), pc[nextp] = "waiting"
    PROVE  Account(q)'
<1>1. /\ pos' = pos /\ pos0' = pos0 /\ lag' = lag /\ before' = before /\ led' = led
      /\ result' = result /\ pc' = [pc EXCEPT ![nextp] = "queued"] /\ nextp \in Pairs
  BY DEF Submit, fixed, TypeOK
<1>2. CASE q = nextp
  <2>1. pc[q] = "waiting" /\ pc'[q] = "queued"
    BY <1>1, <1>2 DEF TypeOK
  <2>2. StepHolds("queued", pos[q]["no"] - pos0[q]["no"], pos[q]["yes"] - pos0[q]["yes"])
    BY <2>1 DEF Account, AccountOf, StepHolds, NothingSent, NoUnsure, NoFilled, YesUnsure
  <2> QED BY <1>1, <2>1, <2>2, QuietAccount
<1>3. CASE q # nextp
  BY <1>1, <1>3, KeptAccount DEF Kept, TypeOK
<1> QED BY <1>2, <1>3

\* The pairs not submitted yet are those from nextp on.
Submitting == main = "submit" => \A p \in Pairs : p >= nextp => pc[p] = "waiting"
Waiting    == main = "watch" => \A p \in Pairs : p > nextp => pc[p] = "waiting"

\* A worker's step submits nothing.
LEMMA PairStepSubmitting ==
    ASSUME TypeOK, Submitting, Waiting, NEW p \in Pairs, PairStep(p)
    PROVE  Submitting' /\ Waiting'
<1>1. pc[p] # "waiting"
  BY DEF PairStep, StopAtEntry, BuildRaises, Begin, CanStart, ReadBaselines, SendNo,
         AskNo, RecheckNo, ConfirmEntry, CheckMapping, SendYes, AskYes, RecheckYes,
         Unwind
<1>2. main' = main /\ nextp' = nextp
  BY DEF PairStep, StopAtEntry, BuildRaises, Begin, CanStart, ReadBaselines, SendNo,
         AskNo, RecheckNo, ConfirmEntry, CheckMapping, SendYes, AskYes, RecheckYes,
         Unwind, mainVars
<1>3. \A q \in Pairs \ {p} : pc'[q] = pc[q]
  BY OthersKept DEF Kept
<1> QED BY <1>1, <1>2, <1>3 DEF Submitting, Waiting

\* Pairs are submitted in order.
LEMMA SubmittingStep ==
    ASSUME TypeOK, Submitting, Waiting, [Next]_vars
    PROVE  Submitting' /\ Waiting'
<1> USE DEF Submitting, Waiting
<1>1. CASE Submit
  BY <1>1 DEF Submit, TypeOK, Pairs
<1>2. CASE Watch
  BY <1>2, PairAssumption DEF Watch, TypeOK, Pairs
<1>3. CASE BudgetExpires \/ Return \/ Returned \/ UNCHANGED vars
  BY <1>3 DEF BudgetExpires, Return, Returned, vars
<1>4. ASSUME NEW p \in Pairs, PairStep(p) PROVE Submitting' /\ Waiting'
  BY <1>4, PairStepSubmitting
<1>5. ASSUME NEW p \in Pairs, NEW l \in Legs, OutsideTrade(p, l)
      PROVE  Submitting' /\ Waiting'
  BY <1>5 DEF OutsideTrade, mainVars
<1> QED BY <1>1, <1>2, <1>3, <1>4, <1>5 DEF Next

AccountIInv == TypeOK /\ Submitting /\ Waiting /\ AccountInv

\* The invariant holds before the batch.
LEMMA AccountInit == Init => AccountIInv
<1> SUFFICES ASSUME Init PROVE AccountIInv
  OBVIOUS
<1>1. TypeOK
  BY TypeInit
<1>2. Submitting /\ Waiting
  BY DEF Init, Submitting, Waiting
<1>3. ASSUME NEW p \in Pairs PROVE Account(p)
  <2>1. /\ pc[p] = "waiting" /\ result[p] = "none" /\ pos0[p] = pos[p] /\ led[p] = pos[p]
        /\ \A l \in Legs : before[p][l] = Unread
    BY DEF Init
  <2>2. pos[p]["no"] - pos0[p]["no"] = 0 /\ pos[p]["yes"] - pos0[p]["yes"] = 0
    BY <1>1, <2>1, Numbers, Basics
  <2> QED BY <2>1, <2>2, Basics
      DEF Account, AccountOf, StepHolds, StatusHolds, ReadingsHold,
          NothingSent, NoUnsure, NoFilled, YesUnsure
<1> QED BY <1>1, <1>2, <1>3 DEF AccountIInv, AccountInv

\* Every step of the batch keeps it.
LEMMA AccountStep == AccountIInv /\ [Next]_vars => AccountIInv'
<1> SUFFICES ASSUME AccountIInv, [Next]_vars PROVE AccountIInv'
  OBVIOUS
<1>1. TypeOK /\ Submitting /\ Waiting /\ TypeOK' /\ Submitting' /\ Waiting'
  BY TypeStep, SubmittingStep DEF AccountIInv
<1>2. AccountInv'
  <2>1. noMove' = noMove /\ pos0' = pos0 /\ lag' = lag /\ touched \subseteq touched'
    BY <1>1 DEF Next, vars, Submit, Watch, BudgetExpires, Return, Returned,
       OutsideTrade, PairStep, StopAtEntry, BuildRaises, Begin, ReadBaselines, SendNo,
       AskNo, RecheckNo, ConfirmEntry, CheckMapping, SendYes, AskYes, RecheckYes,
       Unwind, fixed
  <2> SUFFICES ASSUME RightMapping, NEW q \in Pairs \ touched' PROVE Account(q)'
    BY <2>1 DEF AccountInv, RightMapping
  <2>2. Account(q)
    BY <2>1 DEF AccountIInv, AccountInv
  <2>3. CASE Submit
    <3>1. pc[nextp] = "waiting"
      BY <1>1, <2>3 DEF Submit, Submitting, TypeOK, Pairs
    <3> QED BY <1>1, <2>2, <2>3, <3>1, SubmitAccount
  <2>4. CASE Watch \/ BudgetExpires \/ Return \/ Returned \/ UNCHANGED vars
    BY <2>2, <2>4, KeptAccount
    DEF Watch, BudgetExpires, Return, Returned, vars, fixed, Kept
  <2>5. ASSUME NEW p \in Pairs, PairStep(p) PROVE Account(q)'
    <3>1. CASE p = q
      BY <1>1, <2>2, <2>5, <3>1, OwnAccount
    <3>2. CASE p # q
      BY <1>1, <2>2, <2>5, <3>2, OthersKept, KeptAccount
    <3> QED BY <3>1, <3>2
  <2>6. ASSUME NEW p \in Pairs, NEW l \in Legs, OutsideTrade(p, l) PROVE Account(q)'
    <3>1. p # q /\ pos'[q] = pos[q]
      BY <1>1, <2>6 DEF OutsideTrade, TypeOK
    <3> QED BY <2>1, <2>2, <2>6, <3>1, KeptAccount DEF OutsideTrade, Kept
  <2> QED BY <2>3, <2>4, <2>5, <2>6 DEF Next
<1> QED BY <1>1, <1>2 DEF AccountIInv

\* In every batch, however late its readings are, a pair never closes contracts
\* the account held before it and never buys more than its own count.
THEOREM PairKeepsOlderContracts == Spec => []OlderContractsKept
<1>1. AccountIInv => OlderContractsKept
  <2> SUFFICES ASSUME AccountIInv, RightMapping, NEW p \in Pairs \ touched
               PROVE  Change(p, "no") \in -Count .. 0 /\ Change(p, "yes") \in 0 .. Count
    BY DEF OlderContractsKept
  <2>1. StepHolds(pc[p], Change(p, "no"), Change(p, "yes")) /\ pc[p] \in Steps
    BY DEF AccountIInv, AccountInv, Account, AccountOf, Change, TypeOK
  <2> QED BY <2>1, Basics
      DEF StepHolds, Steps, NothingSent, NoUnsure, NoFilled, YesUnsure
<1> QED BY <1>1, AccountInit, AccountStep, PTL DEF Spec

\* The status a pair is reported with says what the account holds of it, in every
\* batch in which positions can be read up to date after one pause.
THEOREM StatusIsTrue == Spec => []ReportMatchesAccount
<1>1. AccountIInv => ReportMatchesAccount
  <2> SUFFICES ASSUME AccountIInv, RightMapping, lag = 0, NEW p \in Pairs \ touched
               PROVE /\ result[p] = "executed" =>
                           Change(p, "no") = -Count /\ Change(p, "yes") = Count
                     /\ result[p] \in {"failed", "rolled_back"} =>
                           Change(p, "no") = 0 /\ Change(p, "yes") = 0
                     /\ result[p] = "rollback_failed" =>
                           Change(p, "no") \in -Count .. 0 /\ Change(p, "yes") = 0
    BY DEF ReportMatchesAccount
  <2>1. /\ StepHolds(pc[p], Change(p, "no"), Change(p, "yes"))
        /\ StatusHolds(pc[p], result[p], Change(p, "no"), Change(p, "yes"))
    BY DEF AccountIInv, AccountInv, Account, AccountOf, Change
  <2> QED BY <2>1 DEF StepHolds, StatusHolds
<1> QED BY <1>1, AccountInit, AccountStep, PTL DEF Spec

----------------------------------------------------------------------------
(* Add-ons, whatever a NO buy does.                                          *)

\* The pair adds to a holding that was not there when the batch began.
Stray(p) == plan[p].adds /\ pos0[p] # [l \in Legs |-> plan[p][l]]

\* Such a pair sends nothing, and none of its readings can show the holding.
Untraded(p) ==
    /\ pc[p] \in {"waiting", "queued", "baseline", "done"}
    /\ pos[p] = pos0[p] /\ led[p] = pos0[p]

AddOnInv == \A p \in Pairs \ touched : Stray(p) => Untraded(p)

\* The first readings of such a pair differ from the plan, so it ends there.
LEMMA ReadBaselinesUntraded ==
    ASSUME TypeOK, NEW p \in Pairs, Stray(p), Untraded(p), ReadBaselines(p)
    PROVE  Untraded(p)'
<1>1. PICK no \in Readings(p, "no", 0), yes \in Readings(p, "yes", 0) :
         LET b == [l \in Legs |-> IF l = "no" THEN no ELSE yes]
             failed == {l \in Legs : b[l] = Unread}
         IN /\ led' = [led EXCEPT ![p] = [l \in Legs |->
                          IF l \in failed THEN led[p][l] ELSE b[l]]]
            /\ IF Mismatch(p, b) THEN End(p, "failed") ELSE Goto(p, "sendNo")
  BY DEF ReadBaselines
<1> DEFINE b == [l \in Legs |-> IF l = "no" THEN no ELSE yes]
<1>2. /\ plan[p] \in Plan /\ pos0[p] \in [Legs -> Int] /\ pos[p] = pos0[p] /\ led[p] = pos0[p]
  BY DEF TypeOK, Untraded
<1>3. no \in {Unread, pos0[p]["no"]} /\ yes \in {Unread, pos0[p]["yes"]}
  BY <1>2, ReadingsType, Basics
<1>4. pos' = pos /\ pos0' = pos0
  BY DEF ReadBaselines, fixed
<1>5. Mismatch(p, b)
  <2> SUFFICES ASSUME b["no"] = plan[p].no, b["yes"] = plan[p].yes PROVE FALSE
    BY DEF Mismatch, Stray
  <2>1. no = plan[p].no /\ yes = plan[p].yes
    BY Basics
  <2>2. plan[p].no \in Int /\ plan[p].yes \in Int
    BY <1>2 DEF Plan
  <2>3. pos0[p]["no"] = plan[p].no /\ pos0[p]["yes"] = plan[p].yes
    BY <1>3, <2>1, <2>2, PairAssumption
  <2>4. pos0[p] = [l \in Legs |-> plan[p][l]]
    BY <1>2, <2>3, Basics
  <2> QED BY <2>4 DEF Stray
<1>6. led'[p] = pos0[p]
  <2>1. led'[p] = [l \in Legs |-> IF b[l] = Unread THEN led[p][l] ELSE b[l]]
    BY <1>1 DEF TypeOK
  <2>2. \A l \in Legs : (IF b[l] = Unread THEN led[p][l] ELSE b[l]) = pos0[p][l]
    BY <1>2, <1>3, Basics
  <2> QED BY <1>2, <2>1, <2>2
<1>7. End(p, "failed")
  BY <1>1, <1>5
<1>8. pc'[p] = "done"
  BY <1>7, EndFacts
<1> QED BY <1>2, <1>4, <1>6, <1>8 DEF Untraded

\* Before its readings it only waits, and after them it has ended.
LEMMA PairStepUntraded ==
    ASSUME TypeOK, NEW p \in Pairs, Stray(p), Untraded(p), PairStep(p)
    PROVE  Untraded(p)'
<1>1. CASE StopAtEntry(p) \/ BuildRaises(p) \/ Begin(p)
  <2>1. pos' = pos /\ pos0' = pos0 /\ led' = led
    BY <1>1 DEF StopAtEntry, BuildRaises, Begin, fixed
  <2>2. pc'[p] \in {"baseline", "done"}
    BY <1>1, GotoFacts, EndFacts DEF StopAtEntry, BuildRaises, Begin
  <2> QED BY <2>1, <2>2 DEF Untraded
<1>2. CASE ReadBaselines(p)
  BY <1>2, ReadBaselinesUntraded
<1>3. CASE ~(StopAtEntry(p) \/ BuildRaises(p) \/ Begin(p) \/ ReadBaselines(p))
  BY <1>3 DEF PairStep, Untraded, SendNo, AskNo, RecheckNo, ConfirmEntry, CheckMapping,
              SendYes, AskYes, RecheckYes, Unwind
<1> QED BY <1>1, <1>2, <1>3

\* Every step of the batch keeps it.
LEMMA AddOnStep == TypeOK /\ AddOnInv /\ [Next]_vars => AddOnInv'
<1> SUFFICES ASSUME TypeOK, AddOnInv, [Next]_vars PROVE AddOnInv'
  OBVIOUS
<1>1. pos0' = pos0 /\ plan' = plan /\ touched \subseteq touched'
  BY DEF Next, vars, Submit, Watch, BudgetExpires, Return, Returned,
     OutsideTrade, PairStep, StopAtEntry, BuildRaises, Begin, ReadBaselines, SendNo,
     AskNo, RecheckNo, ConfirmEntry, CheckMapping, SendYes, AskYes, RecheckYes,
     Unwind, fixed
<1> SUFFICES ASSUME NEW q \in Pairs, q \notin touched', Stray(q) PROVE Untraded(q)'
  BY <1>1 DEF AddOnInv, Stray
<1>2. Untraded(q)
  BY <1>1 DEF AddOnInv
<1>3. CASE Submit
  BY <1>2, <1>3 DEF Submit, TypeOK, Untraded, fixed
<1>4. CASE Watch \/ BudgetExpires \/ Return \/ Returned \/ UNCHANGED vars
  BY <1>2, <1>4 DEF Watch, BudgetExpires, Return, Returned, vars, fixed, Untraded
<1>5. ASSUME NEW p \in Pairs, PairStep(p) PROVE Untraded(q)'
  <2>1. CASE p = q
    BY <1>2, <1>5, <2>1, PairStepUntraded
  <2>2. CASE p # q
    BY <1>2, <1>5, <2>2, OthersKept DEF Kept, Untraded
  <2> QED BY <2>1, <2>2
<1>6. ASSUME NEW p \in Pairs, NEW l \in Legs, OutsideTrade(p, l) PROVE Untraded(q)'
  <2>1. p # q
    BY <1>6 DEF OutsideTrade, TypeOK
  <2>2. pos'[q] = pos[q] /\ pc' = pc /\ led' = led /\ pos0' = pos0
    BY <1>6, <2>1 DEF OutsideTrade, TypeOK, fixed
  <2> QED BY <1>2, <2>2 DEF Untraded
<1> QED BY <1>3, <1>4, <1>5, <1>6 DEF Next

\* An add-on planned on a holding that is no longer there trades nothing, in every
\* batch, with any mapping, however late or often failed its readings
\* (_add_on_mismatch).
THEOREM AddOnsFitTheirPlan == Spec => []AddsOnlyToPlannedHolding
<1>1. Init => TypeOK /\ AddOnInv
  <2>1. Init => AddOnInv
    BY DEF Init, AddOnInv, Untraded
  <2> QED BY <2>1, TypeInit
<1>2. TypeOK /\ AddOnInv /\ [Next]_vars => (TypeOK /\ AddOnInv)'
  BY TypeStep, AddOnStep
<1>3. TypeOK /\ AddOnInv => AddsOnlyToPlannedHolding
  BY DEF AddOnInv, Stray, Untraded, AddsOnlyToPlannedHolding
<1> QED BY <1>1, <1>2, <1>3, PTL DEF Spec

----------------------------------------------------------------------------
(* The verdict on the mapping.                                               *)

Begun == Steps \ {"waiting", "queued", "baseline", "done"}

\* A baseline that could not be read marks its pair.
Marked == \A p \in Pairs : pc[p] \in Begun /\ (\E l \in Legs : before[p][l] = Unread)
                              => p \in impaired

\* A right mapping is never disproven, and nobody is called for in vain.
Calm == RightMapping /\ touched = {} /\ lag < Rechecks =>
            /\ ~disproven
            /\ \A p \in Pairs \ impaired : result[p] # "manual_review"

\* Steps that look at the NO leg, and those after it.
NoChecked == {"confirm", "check"}
YesSteps  == {"sendYes", "askYes", "recheckYes", "unwind"}

\* What a pair that meets a wrong mapping holds.  It can reach its YES order only
\* by a reading that failed.
OddAccount(p) ==
    /\ pc[p] # "done" => result[p] = "none"
    /\ pc[p] \in NothingSent \cup NoUnsure => pos[p]["yes"] = pos0[p]["yes"]
    /\ pc[p] \in NothingSent => pos[p]["no"] = pos0[p]["no"]
    /\ pc[p] \in NoUnsure => pos[p]["no"] \in {pos0[p]["no"], pos0[p]["no"] + noMove}
    /\ pc[p] \in NoChecked => pos[p]["no"] = pos0[p]["no"] + noMove
    /\ pc[p] \in NothingSent \cup NoUnsure \cup NoChecked =>
          /\ before[p]["no"] \in {Unread, pos0[p]["no"]}
          /\ led[p]["no"] \in {pos[p]["no"], pos0[p]["no"]}
    /\ pc[p] \in YesSteps => p \in impaired /\ p \in unchecked
    /\ result[p] = "executed" => p \in unchecked

\* Pairs run one at a time until the mapping is disproven, and then none begins.
OneByOne ==
    /\ ~confirmed
    /\ ~disproven => /\ \A p \in Pairs : p < nextp => pc[p] = "done"
                     /\ main \in {"join", "returned"} => \A p \in Pairs : pc[p] = "done"
    /\ disproven => /\ \A p \in Pairs : pc[p] \in {"waiting", "queued", "done"}
                    /\ unchecked \subseteq named

Moved(p) == p \notin impaired /\ pos[p] # pos0[p]

\* Before the disproof no pair that ended was moved; then only the one is.
CostsOne == lag = 0 =>
    /\ ~disproven => \A p \in Pairs : pc[p] = "done" => ~Moved(p)
    /\ disproven => \A p, q \in Pairs : Moved(p) /\ Moved(q) => p = q

OddInv == ~RightMapping /\ touched = {} /\ ~expired =>
              (\A p \in Pairs : OddAccount(p)) /\ OneByOne /\ CostsOne

\* What a worker's step leaves alone: the submitting thread and its clock.
LEMMA StepFrame ==
    ASSUME TypeOK, NEW p \in Pairs, PairStep(p)
    PROVE  /\ main' = main /\ nextp' = nextp /\ expired' = expired
           /\ impaired \subseteq impaired' /\ unchecked \subseteq unchecked'
           /\ pc[p] \notin {"waiting", "done"}
<1> USE DEF mainVars, latches
<1>1. CASE StopAtEntry(p) \/ BuildRaises(p) \/ Begin(p)
  BY <1>1 DEF StopAtEntry, BuildRaises, Begin, CanStart
<1>2. CASE ReadBaselines(p) \/ SendNo(p) \/ ConfirmEntry(p) \/ SendYes(p) \/ Unwind(p)
  BY <1>2 DEF ReadBaselines, SendNo, ConfirmEntry, SendYes, Unwind
<1>3. CASE AskNo(p) \/ RecheckNo(p)
  BY <1>3 DEF AskNo, RecheckNo, Read, DecideNo, Disprove
<1>4. CASE CheckMapping(p)
  BY <1>4 DEF CheckMapping, Read, Disprove
<1>5. CASE AskYes(p) \/ RecheckYes(p)
  BY <1>5 DEF AskYes, RecheckYes, Read
<1> QED BY <1>1, <1>2, <1>3, <1>4, <1>5 DEF PairStep

\* A change that cannot be told marks its pair.
LEMMA UnreadMarked ==
    ASSUME TypeOK, Marked, NEW p \in Pairs, pc[p] \in Begun,
           NEW l \in Legs, NEW k, NEW v \in Readings(p, l, k), Read(p, l, v),
           Delta(before[p][l], v) = Unread
    PROVE  p \in impaired'
<1>1. CASE v = Unread
  BY <1>1 DEF Read
<1>2. CASE before[p][l] = Unread
  BY <1>2 DEF Marked, Read
<1>3. CASE v # Unread /\ before[p][l] # Unread
  <2>1. v - before[p][l] \in Int
    BY <1>3, ReadingsType, Numbers
  <2> QED BY <1>3, <2>1, PairAssumption DEF Delta
<1> QED BY <1>1, <1>2, <1>3

\* Marks are made when the baselines are read.
LEMMA MarkedStep == TypeOK /\ Marked /\ [Next]_vars => Marked'
<1> SUFFICES ASSUME TypeOK, Marked, [Next]_vars PROVE Marked'
  OBVIOUS
<1>1. CASE Submit
  BY <1>1 DEF Submit, Marked, TypeOK, Begun
<1>2. CASE Watch \/ BudgetExpires \/ Return \/ Returned \/ UNCHANGED vars
  BY <1>2 DEF Watch, BudgetExpires, Return, Returned, vars, Marked
<1>3. ASSUME NEW p \in Pairs, PairStep(p) PROVE Marked'
  <2> SUFFICES ASSUME NEW q \in Pairs, pc'[q] \in Begun,
                      NEW l \in Legs, before'[q][l] = Unread
               PROVE  q \in impaired'
    BY DEF Marked
  <2>1. impaired \subseteq impaired'
    BY <1>3, StepFrame
  <2>2. CASE q # p
    <3>1. pc'[q] = pc[q] /\ before'[q] = before[q]
      BY <1>3, <2>2, OthersKept DEF Kept
    <3> QED BY <2>1, <3>1 DEF Marked
  <2>3. CASE q = p /\ (StopAtEntry(p) \/ BuildRaises(p) \/ Begin(p))
    BY <2>3, GotoFacts, EndFacts DEF StopAtEntry, BuildRaises, Begin, Begun
  <2>4. CASE q = p /\ ReadBaselines(p)
    <3>1. PICK b : /\ before' = [before EXCEPT ![p] = b]
                   /\ impaired' = IF {m \in Legs : b[m] = Unread} = {} THEN impaired
                                  ELSE impaired \cup {p}
      BY <2>4 DEF ReadBaselines
    <3>2. b[l] = Unread
      BY <2>4, <3>1 DEF TypeOK
    <3> QED BY <2>4, <3>1, <3>2
  <2>5. CASE q = p /\ ~(StopAtEntry(p) \/ BuildRaises(p) \/ Begin(p) \/ ReadBaselines(p))
    <3>1. pc[p] \in Begun /\ before' = before
      BY <1>3, <2>5 DEF PairStep, SendNo, AskNo, RecheckNo, ConfirmEntry, CheckMapping,
         SendYes, AskYes, RecheckYes, Unwind, Begun, Steps
    <3> QED BY <2>1, <2>5, <3>1 DEF Marked
  <2> QED BY <2>2, <2>3, <2>4, <2>5
<1>4. ASSUME NEW p \in Pairs, NEW l \in Legs, OutsideTrade(p, l) PROVE Marked'
  BY <1>4 DEF OutsideTrade, Marked
<1> QED BY <1>1, <1>2, <1>3, <1>4 DEF Next

----------------------------------------------------------------------------
(* A right mapping.                                                          *)

\* The reading after a lost NO reply: no false alarm comes of it.
LEMMA DecideNoCalm ==
    ASSUME TypeOK, Marked, NEW p \in Pairs, Account(p), pc[p] \in NoUnsure,
           NEW k, NEW v \in Readings(p, "no", k), Read(p, "no", v), DecideNo(p, v)
    PROVE  /\ disproven' = disproven
           /\ result'[p] = "manual_review" => p \in impaired'
<1> DEFINE d == Delta(before[p]["no"], v)
<1>1. /\ pos[p]["no"] - pos0[p]["no"] \in {0, -Count} /\ pc[p] # "done"
      /\ result[p] = "none" /\ pc[p] \in Begun
  BY DEF Account, AccountOf, StepHolds, StatusHolds, NoUnsure, Begun, Steps
<1>2. d \in {Unread, 0, -Count}
  BY <1>1, DeltaFacts, Basics DEF Change
<1>3. CASE d = Unread
  <2>1. p \in impaired'
    BY <1>1, <1>3, UnreadMarked, Basics
  <2>2. d # 0 /\ d # -Count
    BY <1>3, PairAssumption
  <2> QED BY <1>3, <2>1, <2>2 DEF DecideNo, latches
<1>4. CASE d # Unread
  <2>1. \/ End(p, "failed") /\ UNCHANGED latches
        \/ Goto(p, "unwind") /\ UNCHANGED latches
    BY <1>2, <1>4 DEF DecideNo
  <2>2. result'[p] \in {"failed", "none"}
    BY <1>1, <2>1, GotoFacts, EndFacts
  <2> QED BY <2>1, <2>2 DEF latches
<1> QED BY <1>3, <1>4

\* The reading after a lost YES reply.
LEMMA DecideYesCalm ==
    ASSUME TypeOK, Marked, NEW p \in Pairs, Account(p), pc[p] \in YesUnsure,
           NEW k, NEW v \in Readings(p, "yes", k), Read(p, "yes", v), DecideYes(p, v)
    PROVE  result'[p] = "manual_review" => p \in impaired'
<1> DEFINE d == Delta(before[p]["yes"], v)
<1>1. pc[p] \in Begun /\ result[p] = "none"
  BY YesReading DEF YesUnsure, Begun, Steps
<1>2. d \in {Unread, 0, Count}
  BY YesReading
<1>3. CASE d = Unread
  BY <1>1, <1>3, UnreadMarked, Basics
<1>4. CASE d # Unread
  <2>1. End(p, "executed") \/ Goto(p, "unwind")
    BY <1>2, <1>4 DEF DecideYes
  <2>2. result'[p] \in {"executed", "none"}
    BY <1>1, <2>1, GotoFacts, EndFacts
  <2> QED BY <2>2
<1> QED BY <1>3, <1>4

\* The re-reads of the mapping check outlast the lag, so it never disproves.
LEMMA CheckMappingCalm ==
    ASSUME TypeOK, Marked, NEW p \in Pairs, Account(p), lag < Rechecks, CheckMapping(p)
    PROVE  disproven' = disproven /\ result'[p] = result[p]
<1>1. PICK v \in Readings(p, "no", tries[p]) :
         LET d == Delta(before[p]["no"], v)
         IN \/ d = Unread /\ Goto(p, "sendYes") /\ UNCHANGED disproven
            \/ d = 0 /\ RechecksLeft(p) /\ UNCHANGED <<pc, result, latches>>
            \/ d = -Count /\ Goto(p, "sendYes") /\ UNCHANGED disproven
            \/ d \notin {Unread, -Count} /\ (d = 0 => ~RechecksLeft(p))
  BY DEF CheckMapping
<1> DEFINE d == Delta(before[p]["no"], v)
<1>2. pc[p] = "check" /\ pos[p]["no"] - pos0[p]["no"] = -Count
  BY DEF CheckMapping, Account, AccountOf, StepHolds, NoFilled
<1>3. /\ d = Unread \/ d = 0 \/ d = -Count
      /\ tries[p] > lag => d = Unread \/ d = -Count
  BY <1>2, DeltaFacts, Basics DEF Change
<1>4. ~RechecksLeft(p) => tries[p] > lag
  <2>1. tries[p] \in 0 .. Rechecks /\ lag \in Nat
    BY DEF TypeOK
  <2> QED BY <2>1, PairAssumption DEF RechecksLeft
<1>5. ~(d \notin {Unread, -Count} /\ (d = 0 => ~RechecksLeft(p)))
  BY <1>3, <1>4
<1> HIDE DEF d
<1>6. \/ Goto(p, "sendYes") /\ UNCHANGED disproven
      \/ UNCHANGED <<pc, result, latches>>
  BY <1>1, <1>5 DEF d
<1> QED BY <1>6, GotoFacts DEF latches

\* A worker's step raises no false alarm.
LEMMA OwnCalm ==
    ASSUME TypeOK, Marked, NEW p \in Pairs, Account(p), lag < Rechecks, ~disproven,
           PairStep(p)
    PROVE  ~disproven' /\ (result'[p] = "manual_review" => p \in impaired')
<1>1. result[p] = "none"
  <2>1. pc[p] # "done"
    BY StepFrame
  <2> QED BY <2>1 DEF Account, AccountOf, StatusHolds
<1>2. CASE StopAtEntry(p) \/ BuildRaises(p) \/ Begin(p)
  BY <1>1, <1>2, GotoFacts DEF StopAtEntry, BuildRaises, Begin, latches
<1>3. CASE ReadBaselines(p)
  <2>1. (End(p, "failed") \/ Goto(p, "sendNo")) /\ disproven' = disproven
    BY <1>3 DEF ReadBaselines, latches
  <2>2. result'[p] \in {"failed", "none"}
    BY <1>1, <2>1, GotoFacts, EndFacts
  <2> QED BY <2>1, <2>2
<1>4. CASE SendNo(p)
  <2>1. /\ Goto(p, "askNo") \/ Goto(p, "confirm") \/ End(p, "failed")
        /\ disproven' = disproven
    BY <1>4 DEF SendNo, latches
  <2>2. result'[p] \in {"failed", "none"}
    BY <1>1, <2>1, GotoFacts, EndFacts
  <2> QED BY <2>1, <2>2
<1>5. CASE AskNo(p)
  <2>1. PICK v \in Readings(p, "no", 0) :
          /\ Read(p, "no", v)
          /\ \/ Goto(p, "recheckNo") /\ UNCHANGED latches
             \/ DecideNo(p, v)
    BY <1>5 DEF AskNo
  <2>2. CASE Goto(p, "recheckNo") /\ UNCHANGED latches
    BY <1>1, <2>2, GotoFacts DEF latches
  <2>3. CASE DecideNo(p, v)
    BY <1>5, <2>1, <2>3, DecideNoCalm DEF AskNo, NoUnsure
  <2> QED BY <2>1, <2>2, <2>3
<1>6. CASE RecheckNo(p)
  BY <1>6, DecideNoCalm DEF RecheckNo, NoUnsure
<1>7. CASE ConfirmEntry(p)
  <2>1. (Goto(p, "sendYes") \/ Goto(p, "check")) /\ disproven' = disproven
    BY <1>7 DEF ConfirmEntry, latches
  <2> QED BY <1>1, <2>1, GotoFacts
<1>8. CASE CheckMapping(p)
  BY <1>1, <1>8, CheckMappingCalm
<1>9. CASE SendYes(p)
  <2>1. /\ Goto(p, "askYes") \/ Goto(p, "unwind") \/ End(p, "executed")
        /\ disproven' = disproven
    BY <1>9 DEF SendYes, latches
  <2>2. result'[p] \in {"executed", "none"}
    BY <1>1, <2>1, GotoFacts, EndFacts
  <2> QED BY <2>1, <2>2
<1>10. CASE AskYes(p)
  <2>1. PICK v \in Readings(p, "yes", 0) :
          Read(p, "yes", v) /\ (Goto(p, "recheckYes") \/ DecideYes(p, v))
    BY <1>10 DEF AskYes
  <2>2. disproven' = disproven /\ pc[p] \in YesUnsure
    BY <1>10 DEF AskYes, latches, YesUnsure
  <2>3. CASE Goto(p, "recheckYes")
    BY <1>1, <2>2, <2>3, GotoFacts
  <2>4. CASE DecideYes(p, v)
    BY <2>1, <2>2, <2>4, DecideYesCalm
  <2> QED BY <2>1, <2>3, <2>4
<1>11. CASE RecheckYes(p)
  BY <1>11, DecideYesCalm DEF RecheckYes, YesUnsure, latches
<1>12. CASE Unwind(p)
  <2>1. (\E s \in {"rolled_back", "rollback_failed"} : End(p, s)) /\ disproven' = disproven
    BY <1>12 DEF Unwind, latches
  <2> QED BY <2>1, EndFacts
<1> QED BY <1>2, <1>3, <1>4, <1>5, <1>6, <1>7, <1>8, <1>9, <1>10, <1>11, <1>12 DEF PairStep

\* Every step of the batch stays calm.
LEMMA CalmStep == AccountIInv /\ Marked /\ Calm /\ [Next]_vars => Calm'
<1> SUFFICES ASSUME AccountIInv, Marked, Calm, [Next]_vars,
                    RightMapping', touched' = {}, (lag < Rechecks)'
             PROVE  /\ ~disproven'
                    /\ \A q \in Pairs \ impaired' : result'[q] # "manual_review"
  BY DEF Calm
<1>1. /\ noMove' = noMove /\ lag' = lag /\ touched \subseteq touched'
      /\ TypeOK
  BY DEF AccountIInv, Next, vars, Submit, Watch, BudgetExpires, Return, Returned,
     OutsideTrade, PairStep, StopAtEntry, BuildRaises, Begin, ReadBaselines, SendNo,
     AskNo, RecheckNo, ConfirmEntry, CheckMapping, SendYes, AskYes, RecheckYes,
     Unwind, fixed
<1>2. /\ RightMapping /\ touched = {} /\ lag < Rechecks /\ ~disproven
      /\ \A q \in Pairs \ impaired : result[q] # "manual_review"
      /\ \A q \in Pairs : Account(q)
  BY <1>1 DEF Calm, RightMapping, AccountIInv, AccountInv
<1>3. CASE Submit \/ Watch \/ BudgetExpires \/ Return \/ Returned \/ UNCHANGED vars
  BY <1>2, <1>3 DEF Submit, Watch, BudgetExpires, Return, Returned, vars, latches
<1>4. ASSUME NEW p \in Pairs, PairStep(p)
      PROVE  /\ ~disproven'
             /\ \A q \in Pairs \ impaired' : result'[q] # "manual_review"
  <2>1. ~disproven' /\ (result'[p] = "manual_review" => p \in impaired')
    BY <1>1, <1>2, <1>4, OwnCalm
  <2>2. \A q \in Pairs \ {p} : result'[q] = result[q]
    BY <1>1, <1>4, OthersKept DEF Kept
  <2>3. impaired \subseteq impaired'
    BY <1>1, <1>4, StepFrame
  <2> QED BY <1>2, <2>1, <2>2, <2>3
<1>5. ASSUME NEW p \in Pairs, NEW l \in Legs, OutsideTrade(p, l) PROVE FALSE
  BY <1>1, <1>5 DEF OutsideTrade
<1> QED BY <1>3, <1>4, <1>5 DEF Next

----------------------------------------------------------------------------
(* A wrong mapping.                                                          *)

\* A change read on the NO leg is none, or the true one, which no NO buy makes.
LEMMA OddReading ==
    ASSUME TypeOK, ~RightMapping, NEW p \in Pairs, OddAccount(p),
           pc[p] \in NoUnsure \cup NoChecked, NEW k, NEW v \in Readings(p, "no", k)
    PROVE  LET d == Delta(before[p]["no"], v)
           IN /\ d \in {Unread, 0, noMove} /\ d # -Count
              /\ k > lag => d = Unread \/ pos[p]["no"] = pos0[p]["no"] + d
              /\ v # Unread => v \in {pos[p]["no"], pos0[p]["no"]}
              /\ pc[p] \in NoChecked /\ k > lag => d \in {Unread, noMove}
<1> DEFINE d == Delta(before[p]["no"], v)
<1>1. /\ before[p]["no"] \in {Unread, pos0[p]["no"]}
      /\ led[p]["no"] \in {pos[p]["no"], pos0[p]["no"]}
      /\ pos[p]["no"] \in {pos0[p]["no"], pos0[p]["no"] + noMove}
      /\ pc[p] \in NoChecked => pos[p]["no"] = pos0[p]["no"] + noMove
  BY DEF OddAccount
<1>2. /\ v \in Int \cup {Unread}
      /\ v # Unread => v \in {pos[p]["no"], led[p]["no"]}
      /\ v # Unread /\ k > lag => v = pos[p]["no"]
  BY ReadingsType, Basics
<1>3. pos[p]["no"] \in Int /\ pos0[p]["no"] \in Int /\ noMove \in Int
  BY Numbers, Basics DEF TypeOK
<1>4. noMove # -Count /\ -Count # 0 /\ -Count # Unread
  BY Basics, PairAssumption DEF RightMapping
<1>5. CASE before[p]["no"] = Unread \/ v = Unread
  <2>1. d = Unread
    BY <1>5 DEF Delta
  <2> QED BY <1>1, <1>2, <1>4, <2>1
<1>6. CASE before[p]["no"] # Unread /\ v # Unread
  <2>1. d = v - pos0[p]["no"]
    BY <1>1, <1>6 DEF Delta
  <2>2. v \in {pos[p]["no"], pos0[p]["no"]}
    BY <1>1, <1>2, <1>6
  <2>3. d \in {0, noMove}
    BY <1>1, <1>3, <2>1, <2>2
  <2>4. k > lag => pos[p]["no"] = pos0[p]["no"] + d
    BY <1>2, <1>3, <1>6, <2>1
  <2>5. ASSUME pc[p] \in NoChecked, k > lag PROVE d = noMove
    <3>1. v = pos0[p]["no"] + noMove
      BY <1>1, <1>2, <1>6, <2>5
    <3> QED BY <1>3, <2>1, <3>1
  <2>6. d # -Count
    BY <1>4, <2>3
  <2> QED BY <2>2, <2>3, <2>4, <2>5, <2>6
<1> QED BY <1>5, <1>6

\* What a step does to the latches while the mapping is wrong.  It disproves it
\* when its pair ends, and names the pairs that went ahead.
OddLatches(p) ==
    /\ ~confirmed'
    /\ disproven => disproven'
    /\ ~disproven /\ disproven' =>
          /\ pc'[p] = "done" /\ pos' = pos
          /\ unchecked' = unchecked /\ unchecked \subseteq named'

\* What it does to its pair: it stays what it should be, and a pair that ends
\* moved and unmarked has disproved the mapping.
OddOutcome(p) ==
    /\ OddAccount(p)'
    /\ OddLatches(p)
    /\ lag = 0 /\ ~disproven' /\ pc'[p] = "done" => ~Moved(p)'

\* Before its NO order a pair holds what it held.
LEMMA NothingMoved ==
    ASSUME TypeOK, NEW p \in Pairs, pos[p]["no"] = pos0[p]["no"], pos[p]["yes"] = pos0[p]["yes"]
    PROVE  pos[p] = pos0[p]
<1>1. pos[p] \in [Legs -> Int] /\ pos0[p] \in [Legs -> Int]
  BY DEF TypeOK
<1>2. \A l \in Legs : pos[p][l] = pos0[p][l]
  BY Basics
<1> QED BY <1>1, <1>2

\* A pair that is stopped, cannot be built or begins has moved nothing.
LEMMA EntryOdd ==
    ASSUME TypeOK, NEW p \in Pairs, OddAccount(p), ~confirmed,
           StopAtEntry(p) \/ BuildRaises(p) \/ Begin(p)
    PROVE  OddOutcome(p)
<1>1. /\ pc[p] = "queued" /\ pos' = pos /\ pos0' = pos0 /\ before' = before /\ led' = led
      /\ noMove' = noMove /\ UNCHANGED latches
  BY DEF StopAtEntry, BuildRaises, Begin, CanStart, fixed
<1>2. \/ pc'[p] = "done" /\ result'[p] \in {"failed", "manual_review"}
      \/ pc'[p] = "baseline" /\ result'[p] = result[p]
  BY GotoFacts, EndFacts DEF StopAtEntry, BuildRaises, Begin
<1>3. pos[p]["no"] = pos0[p]["no"] /\ pos[p]["yes"] = pos0[p]["yes"]
  BY <1>1 DEF OddAccount, NothingSent
<1>4. pos[p] = pos0[p]
  BY <1>3, NothingMoved
<1>5. OddAccount(p)'
  BY <1>1, <1>2, <1>3
  DEF OddAccount, NothingSent, NoUnsure, NoChecked, YesSteps
<1>6. OddLatches(p)
  BY <1>1 DEF OddLatches, latches
<1> QED BY <1>1, <1>4, <1>5, <1>6 DEF OddOutcome, Moved

\* Nor has one that reads its baselines.
LEMMA ReadBaselinesOdd ==
    ASSUME TypeOK, NEW p \in Pairs, OddAccount(p), ~confirmed, ReadBaselines(p)
    PROVE  OddOutcome(p)
<1>1. /\ pc[p] = "baseline" /\ pos' = pos /\ pos0' = pos0 /\ noMove' = noMove
      /\ UNCHANGED latches
  BY DEF ReadBaselines, fixed
<1>2. /\ pos[p]["no"] = pos0[p]["no"] /\ pos[p]["yes"] = pos0[p]["yes"]
      /\ led[p]["no"] \in {pos[p]["no"], pos0[p]["no"]} /\ result[p] = "none"
  BY <1>1 DEF OddAccount, NothingSent
<1>3. PICK no \in Readings(p, "no", 0), yes \in Readings(p, "yes", 0) :
        LET b == [l \in Legs |-> IF l = "no" THEN no ELSE yes]
            failed == {l \in Legs : b[l] = Unread}
        IN /\ led' = [led EXCEPT ![p] = [l \in Legs |->
                         IF l \in failed THEN led[p][l] ELSE b[l]]]
           /\ before' = [before EXCEPT ![p] = b]
           /\ IF Mismatch(p, b) THEN End(p, "failed") ELSE Goto(p, "sendNo")
  BY DEF ReadBaselines
<1> DEFINE b == [l \in Legs |-> IF l = "no" THEN no ELSE yes]
           failed == {l \in Legs : b[l] = Unread}
<1>4. b["no"] \in {Unread, pos0[p]["no"]}
  BY <1>2, ReadingsType, Basics
<1>5. before'[p]["no"] \in {Unread, pos0[p]["no"]}
  BY <1>3, <1>4 DEF TypeOK
<1>6. led'[p]["no"] = pos0[p]["no"]
  BY <1>2, <1>3, <1>4, Basics DEF TypeOK
<1>7. \/ pc'[p] = "done" /\ result'[p] = "failed"
      \/ pc'[p] = "sendNo" /\ result'[p] = result[p]
  BY <1>3, GotoFacts, EndFacts
<1>8. OddAccount(p)'
  BY <1>1, <1>2, <1>5, <1>6, <1>7
  DEF OddAccount, NothingSent, NoUnsure, NoChecked, YesSteps
<1>9. pos[p] = pos0[p]
  BY <1>2, NothingMoved
<1>10. OddLatches(p)
  BY <1>1 DEF OddLatches, latches
<1> QED BY <1>1, <1>8, <1>9, <1>10 DEF OddOutcome, Moved

\* The NO order moves the NO leg the wrong way, or not at all.
LEMMA SendNoOdd ==
    ASSUME TypeOK, NEW p \in Pairs, OddAccount(p), ~confirmed, SendNo(p)
    PROVE  OddOutcome(p)
<1>1. /\ pc[p] = "sendNo" /\ pos0' = pos0 /\ before' = before /\ led' = led
      /\ noMove' = noMove /\ UNCHANGED latches
  BY DEF SendNo, fixed
<1>2. PICK fills \in BOOLEAN, lost \in BOOLEAN :
        /\ pos' = IF fills THEN [pos EXCEPT ![p]["no"] = @ + noMove] ELSE pos
        /\ IF lost THEN Goto(p, "askNo")
           ELSE IF fills THEN Goto(p, "confirm") ELSE End(p, "failed")
  BY DEF SendNo
<1>3. /\ pos[p]["no"] = pos0[p]["no"] /\ pos[p]["yes"] = pos0[p]["yes"]
      /\ before[p]["no"] \in {Unread, pos0[p]["no"]}
      /\ led[p]["no"] = pos0[p]["no"] /\ result[p] = "none"
  BY <1>1 DEF OddAccount, NothingSent
<1>4. /\ pos'[p]["no"] = IF fills THEN pos0[p]["no"] + noMove ELSE pos0[p]["no"]
      /\ pos'[p]["yes"] = pos0[p]["yes"]
  BY <1>2, <1>3, Basics DEF TypeOK
<1>5. /\ lost => pc'[p] = "askNo" /\ result'[p] = "none"
      /\ ~lost /\ fills => pc'[p] = "confirm" /\ result'[p] = "none"
      /\ ~lost /\ ~fills => pc'[p] = "done" /\ result'[p] = "failed"
  BY <1>2, <1>3, GotoFacts, EndFacts
<1>6. OddAccount(p)'
  BY <1>1, <1>3, <1>4, <1>5
  DEF OddAccount, NothingSent, NoUnsure, NoChecked, YesSteps
<1>7. pc'[p] = "done" => pos'[p] = pos0[p]
  <2>1. pc'[p] = "done" => pos' = pos
    BY <1>2, <1>5
  <2> QED BY <1>3, <2>1, NothingMoved
<1>8. OddLatches(p)
  BY <1>1 DEF OddLatches, latches
<1> QED BY <1>1, <1>6, <1>7, <1>8 DEF OddOutcome, Moved

\* A reading leaves the NO leg's late reading one of the two it can be.
LEMMA OddLed ==
    ASSUME TypeOK, ~RightMapping, NEW p \in Pairs, OddAccount(p),
           pc[p] \in NoUnsure \cup NoChecked, NEW k, NEW v \in Readings(p, "no", k),
           Read(p, "no", v)
    PROVE  led'[p]["no"] \in {pos[p]["no"], pos0[p]["no"]}
<1>1. led[p]["no"] \in {pos[p]["no"], pos0[p]["no"]}
  BY DEF OddAccount
<1>2. v # Unread => v \in {pos[p]["no"], pos0[p]["no"]}
  BY OddReading
<1> QED BY <1>1, <1>2, ReadFacts, Basics

\* After a lost reply a change that no NO buy makes disproves the mapping.
LEMMA DecideNoOdd ==
    ASSUME TypeOK, Marked, ~RightMapping, NEW p \in Pairs, OddAccount(p), ~confirmed,
           pc[p] \in NoUnsure, NEW k, NEW v \in Readings(p, "no", k), Read(p, "no", v),
           DecideNo(p, v), lag = 0 /\ Delta(before[p]["no"], v) = 0 => k > lag,
           pos' = pos, pos0' = pos0, noMove' = noMove, before' = before
    PROVE  OddOutcome(p)
<1> DEFINE d == Delta(before[p]["no"], v)
<1>1. /\ d \in {Unread, 0, noMove} /\ d # -Count
      /\ k > lag => d = Unread \/ pos[p]["no"] = pos0[p]["no"] + d
  BY OddReading
<1>2. /\ pos[p]["yes"] = pos0[p]["yes"] /\ pc[p] \in Begun
  BY DEF OddAccount, NoUnsure, Begun, Steps
<1>3. d = Unread => p \in impaired'
  BY <1>2, UnreadMarked, Basics
<1>4. \/ d = 0 /\ End(p, "failed") /\ UNCHANGED latches
      \/ d = Unread /\ End(p, "manual_review") /\ UNCHANGED latches
      \/ End(p, "manual_review") /\ Disprove
  BY <1>1 DEF DecideNo
<1>5. 0 # Unread /\ pos0[p]["no"] \in Int
  BY PairAssumption, Numbers, Basics
<1>6. lag = 0 /\ d = 0 => pos[p]["no"] = pos0[p]["no"]
  BY <1>1, <1>5
<1> HIDE DEF d
<1>7. pc'[p] = "done" /\ result'[p] \in {"failed", "manual_review"}
  BY <1>4, EndFacts
<1>8. OddAccount(p)'
  BY <1>7 DEF OddAccount, NothingSent, NoUnsure, NoChecked, YesSteps
<1>9. OddLatches(p)
  BY <1>4, <1>7 DEF OddLatches, latches, Disprove
<1>10. lag = 0 /\ ~disproven' => ~Moved(p)'
  <2> SUFFICES ASSUME lag = 0, ~disproven' PROVE ~Moved(p)'
    OBVIOUS
  <2>1. d = 0 \/ p \in impaired'
    BY <1>3, <1>4 DEF Disprove
  <2>2. CASE d = 0
    BY <1>2, <1>6, <2>2, NothingMoved DEF Moved
  <2> QED BY <2>1, <2>2 DEF Moved
<1> QED BY <1>8, <1>9, <1>10 DEF OddOutcome

\* The first reading after a lost reply.
LEMMA AskNoOdd ==
    ASSUME TypeOK, Marked, ~RightMapping, NEW p \in Pairs, OddAccount(p), ~confirmed,
           AskNo(p)
    PROVE  OddOutcome(p)
<1>1. /\ pc[p] = "askNo" /\ pos' = pos /\ pos0' = pos0 /\ noMove' = noMove
      /\ before' = before
  BY DEF AskNo, fixed
<1>2. PICK v \in Readings(p, "no", 0) :
        /\ Read(p, "no", v)
        /\ IF RecheckDue(before[p]["no"], v)
           THEN Goto(p, "recheckNo") /\ UNCHANGED latches ELSE DecideNo(p, v)
  BY DEF AskNo
<1>3. CASE RecheckDue(before[p]["no"], v)
  <2>1. pc'[p] = "recheckNo" /\ result'[p] = result[p] /\ UNCHANGED latches
    BY <1>2, <1>3, GotoFacts
  <2>2. led'[p]["no"] \in {pos[p]["no"], pos0[p]["no"]}
    BY <1>1, <1>2, OddLed DEF NoUnsure
  <2>3. OddAccount(p)'
    BY <1>1, <2>1, <2>2 DEF OddAccount, NothingSent, NoUnsure, NoChecked, YesSteps
  <2> QED BY <2>1, <2>3 DEF OddOutcome, OddLatches, latches
<1>4. CASE ~RecheckDue(before[p]["no"], v)
  BY <1>1, <1>2, <1>4, DecideNoOdd DEF RecheckDue, NoUnsure
<1> QED BY <1>3, <1>4

\* The second one.
LEMMA RecheckNoOdd ==
    ASSUME TypeOK, Marked, ~RightMapping, NEW p \in Pairs, OddAccount(p), ~confirmed,
           RecheckNo(p)
    PROVE  OddOutcome(p)
<1>1. /\ pc[p] \in NoUnsure /\ pos' = pos /\ pos0' = pos0 /\ noMove' = noMove
      /\ before' = before
  BY DEF RecheckNo, fixed, NoUnsure
<1>2. lag = 0 => 1 > lag
  OBVIOUS
<1> QED BY <1>1, <1>2, DecideNoOdd DEF RecheckNo

\* Without a confirmed mapping no pair skips the check.
LEMMA ConfirmEntryOdd ==
    ASSUME TypeOK, NEW p \in Pairs, OddAccount(p), ~confirmed, ConfirmEntry(p)
    PROVE  OddOutcome(p)
<1>1. /\ pc[p] = "confirm" /\ pos' = pos /\ pos0' = pos0 /\ before' = before
      /\ led' = led /\ noMove' = noMove /\ UNCHANGED latches
  BY DEF ConfirmEntry, fixed
<1>2. \/ disproven /\ pc'[p] = "done" /\ result'[p] = "manual_review"
      \/ pc'[p] = "check" /\ result'[p] = result[p]
  BY GotoFacts, EndFacts DEF ConfirmEntry
<1>3. OddAccount(p)'
  BY <1>1, <1>2 DEF OddAccount, NothingSent, NoUnsure, NoChecked, YesSteps
<1> QED BY <1>1, <1>2, <1>3 DEF OddOutcome, OddLatches, latches

\* The mapping check lets a pair go on only unread, and then it says so.
LEMMA CheckMappingOdd ==
    ASSUME TypeOK, Marked, ~RightMapping, NEW p \in Pairs, OddAccount(p), ~confirmed,
           CheckMapping(p)
    PROVE  OddOutcome(p)
<1>1. /\ pc[p] = "check" /\ pos' = pos /\ pos0' = pos0 /\ noMove' = noMove
      /\ before' = before
  BY DEF CheckMapping, fixed
<1>2. PICK v \in Readings(p, "no", tries[p]) :
         LET d == Delta(before[p]["no"], v)
         IN /\ Read(p, "no", v)
            /\ \/ /\ d = Unread
                  /\ unchecked' = unchecked \cup {p}
                  /\ Goto(p, "sendYes")
                  /\ UNCHANGED <<confirmed, disproven>>
               \/ UNCHANGED <<pc, result, latches>>
               \/ d = -Count
               \/ Disprove /\ End(p, "manual_review")
  BY DEF CheckMapping
<1> DEFINE d == Delta(before[p]["no"], v)
<1>3. d # -Count /\ pc[p] \in Begun /\ result[p] = "none"
  BY <1>1, OddReading DEF NoChecked, Begun, Steps, OddAccount
<1>4. led'[p]["no"] \in {pos[p]["no"], pos0[p]["no"]}
  BY <1>1, <1>2, OddLed DEF NoChecked
<1>5. CASE d = Unread /\ unchecked' = unchecked \cup {p} /\ Goto(p, "sendYes")
           /\ UNCHANGED <<confirmed, disproven>>
  <2>1. pc'[p] = "sendYes" /\ result'[p] = "none" /\ p \in unchecked'
    BY <1>3, <1>5, GotoFacts
  <2>2. p \in impaired'
    BY <1>2, <1>3, <1>5, UnreadMarked, Basics
  <2>3. OddAccount(p)'
    BY <2>1, <2>2 DEF OddAccount, NothingSent, NoUnsure, NoChecked, YesSteps
  <2> QED BY <1>5, <2>1, <2>3 DEF OddOutcome, OddLatches
<1>6. CASE UNCHANGED <<pc, result, latches>>
  <2>1. OddAccount(p)'
    BY <1>1, <1>3, <1>4, <1>6
    DEF OddAccount, NothingSent, NoUnsure, NoChecked, YesSteps, latches
  <2> QED BY <1>1, <1>6, <2>1 DEF OddOutcome, OddLatches, latches
<1>7. CASE Disprove /\ End(p, "manual_review")
  <2>1. pc'[p] = "done" /\ result'[p] = "manual_review"
    BY <1>7, EndFacts
  <2>2. OddAccount(p)'
    BY <2>1 DEF OddAccount, NothingSent, NoUnsure, NoChecked, YesSteps
  <2> QED BY <1>1, <1>7, <2>1, <2>2 DEF OddOutcome, OddLatches, Disprove
<1> QED BY <1>2, <1>3, <1>5, <1>6, <1>7

\* A pair past the check is marked, and among those that went ahead.
LEMMA YesStepsOdd ==
    ASSUME TypeOK, NEW p \in Pairs, OddAccount(p), ~confirmed,
           SendYes(p) \/ AskYes(p) \/ RecheckYes(p) \/ Unwind(p)
    PROVE  OddOutcome(p)
<1>1. /\ pc[p] \in YesSteps /\ UNCHANGED latches /\ result[p] = "none"
      /\ p \in impaired /\ p \in unchecked
  BY DEF SendYes, AskYes, RecheckYes, Unwind, YesSteps, OddAccount
<1>2. impaired \subseteq impaired'
  BY StepFrame DEF PairStep
<1>3. pc'[p] = "done" \/ (pc'[p] \in YesSteps /\ result'[p] = "none")
  <2>1. CASE SendYes(p)
    <3>1. Goto(p, "askYes") \/ Goto(p, "unwind") \/ End(p, "executed")
      BY <2>1 DEF SendYes
    <3> QED BY <1>1, <3>1, GotoFacts, EndFacts DEF YesSteps
  <2>2. CASE AskYes(p) \/ RecheckYes(p)
    <3>1. \/ Goto(p, "recheckYes") \/ Goto(p, "unwind")
          \/ End(p, "executed") \/ End(p, "manual_review")
      BY <2>2 DEF AskYes, RecheckYes, DecideYes
    <3> QED BY <1>1, <3>1, GotoFacts, EndFacts DEF YesSteps
  <2>3. CASE Unwind(p)
    BY <2>3, EndFacts DEF Unwind
  <2> QED BY <2>1, <2>2, <2>3
<1>4. p \in impaired' /\ p \in unchecked'
  BY <1>1, <1>2 DEF latches
<1>5. OddAccount(p)'
  BY <1>3, <1>4 DEF OddAccount, NothingSent, NoUnsure, NoChecked, YesSteps
<1> QED BY <1>1, <1>4, <1>5 DEF OddOutcome, OddLatches, latches, Moved

\* Every step of a worker keeps what it should under a wrong mapping.
LEMMA OwnOdd ==
    ASSUME TypeOK, Marked, ~RightMapping, NEW p \in Pairs, OddAccount(p), ~confirmed,
           PairStep(p)
    PROVE  OddOutcome(p)
BY EntryOdd, ReadBaselinesOdd, SendNoOdd, AskNoOdd, RecheckNoOdd, ConfirmEntryOdd,
   CheckMappingOdd, YesStepsOdd DEF PairStep

\* While pairs run one at a time, only the pair at work can have been moved.
LEMMA OnlyOneMoved ==
    ASSUME TypeOK, Submitting, Waiting, OneByOne, \A p \in Pairs : OddAccount(p),
           ~disproven, \A p \in Pairs : pc[p] = "done" => ~Moved(p),
           NEW p \in Pairs, NEW q \in Pairs, Moved(p), Moved(q)
    PROVE  p = q
<1>1. ASSUME NEW r \in Pairs, pc[r] = "waiting" PROVE ~Moved(r)
  <2>1. pos[r]["no"] = pos0[r]["no"] /\ pos[r]["yes"] = pos0[r]["yes"]
    BY <1>1 DEF OddAccount, NothingSent
  <2> QED BY <2>1, NothingMoved DEF Moved
<1>2. ASSUME NEW r \in Pairs, Moved(r) PROVE r = nextp
  <2>1. pc[r] # "done" /\ pc[r] # "waiting"
    BY <1>1, <1>2
  <2>2. main \in {"submit", "watch"} /\ ~(r < nextp) /\ ~(r > nextp)
    BY <2>1 DEF OneByOne, Submitting, Waiting, TypeOK, Pairs
  <2>3. r \in Int /\ nextp \in Int
    BY DEF TypeOK, Pairs
  <2> QED BY <2>2, <2>3
<1> QED BY <1>2

\* A worker that acts before the disproof is the one the batch waits for; after
\* it, one that had not begun.
LEMMA WhoActs ==
    ASSUME TypeOK, Submitting, Waiting, OneByOne, NEW p \in Pairs, PairStep(p)
    PROVE  /\ ~disproven => main = "watch" /\ p = nextp
           /\ disproven => StopAtEntry(p)
<1>1. pc[p] \notin {"waiting", "done"}
  BY StepFrame
<1>2. ASSUME ~disproven PROVE main = "watch" /\ p = nextp
  <2>1. main \in {"submit", "watch"} /\ ~(p < nextp) /\ ~(p > nextp)
    BY <1>1, <1>2 DEF OneByOne, Submitting, Waiting, TypeOK, Pairs
  <2>2. p \in Int /\ nextp \in Int
    BY DEF TypeOK, Pairs
  <2>3. p = nextp
    BY <2>1, <2>2
  <2>4. main # "submit"
    BY <1>1, <2>2, <2>3 DEF Submitting
  <2> QED BY <2>1, <2>3, <2>4
<1>3. ASSUME disproven PROVE StopAtEntry(p)
  <2>1. pc[p] = "queued"
    BY <1>1, <1>3 DEF OneByOne
  <2> QED BY <1>3, <2>1 DEF PairStep, BuildRaises, Begin, ReadBaselines, SendNo, AskNo,
      RecheckNo, ConfirmEntry, CheckMapping, SendYes, AskYes, RecheckYes, Unwind
<1> QED BY <1>2, <1>3

\* A worker's step keeps the pairs one by one, and the cost at one.
LEMMA OddPairStep ==
    ASSUME TypeOK, Submitting, Waiting, Marked, ~RightMapping,
           \A q \in Pairs : OddAccount(q), OneByOne, CostsOne,
           NEW p \in Pairs, PairStep(p)
    PROVE  (\A q \in Pairs : OddAccount(q)') /\ OneByOne' /\ CostsOne'
<1>1. OddOutcome(p)
  BY OwnOdd DEF OneByOne
<1>2. /\ main' = main /\ nextp' = nextp /\ impaired \subseteq impaired'
      /\ unchecked \subseteq unchecked'
  BY StepFrame
<1>3. ASSUME NEW q \in Pairs \ {p} PROVE Kept(q)
  BY <1>3, OthersKept
<1>4. pos0' = pos0 /\ lag' = lag /\ noMove' = noMove
  BY DEF PairStep, StopAtEntry, BuildRaises, Begin, ReadBaselines, SendNo,
     AskNo, RecheckNo, ConfirmEntry, CheckMapping, SendYes, AskYes, RecheckYes,
     Unwind, fixed
<1>5. ASSUME NEW q \in Pairs PROVE OddAccount(q)'
  <2>1. CASE q = p
    BY <1>1, <2>1 DEF OddOutcome
  <2>2. CASE q # p
    <3>1. Kept(q) /\ OddAccount(q)
      BY <1>3, <2>2
    <3> QED BY <1>2, <1>4, <3>1
        DEF OddAccount, Kept, NothingSent, NoUnsure, NoChecked, YesSteps
  <2> QED BY <2>1, <2>2
<1>6. CASE disproven
  <2>1. /\ pc'[p] = "done" /\ pos' = pos /\ UNCHANGED latches
    BY <1>6, WhoActs, EndFacts DEF StopAtEntry
  <2>2. \A q \in Pairs : pc'[q] \in {"waiting", "queued", "done"}
    <3> SUFFICES ASSUME NEW q \in Pairs PROVE pc'[q] \in {"waiting", "queued", "done"}
      OBVIOUS
    <3>1. CASE q = p
      BY <2>1, <3>1
    <3>2. CASE q # p
      BY <1>3, <1>6, <3>2 DEF Kept, OneByOne
    <3> QED BY <3>1, <3>2
  <2>3. OneByOne'
    BY <1>6, <2>1, <2>2 DEF OneByOne, latches
  <2>4. CostsOne'
    BY <1>2, <1>4, <1>6, <2>1 DEF CostsOne, Moved, latches
  <2> QED BY <1>5, <2>3, <2>4
<1>7. CASE ~disproven
  <2>1. main = "watch" /\ p = nextp
    BY <1>7, WhoActs
  <2>2. \A q \in Pairs : q < p => pc'[q] = "done"
    BY <1>3, <1>7, <2>1 DEF Kept, OneByOne, Pairs
  <2>3. \A q \in Pairs : q > p => pc'[q] = "waiting"
    BY <1>3, <2>1 DEF Kept, Waiting, Pairs
  <2>4. CASE ~disproven'
    <3>1. OneByOne'
      BY <1>1, <1>2, <2>1, <2>2, <2>4 DEF OneByOne, OddOutcome, OddLatches
    <3>2. ASSUME lag = 0, NEW q \in Pairs, pc'[q] = "done" PROVE ~Moved(q)'
      <4>1. CASE q = p
        BY <1>1, <2>4, <3>2, <4>1 DEF OddOutcome
      <4>2. CASE q # p
        BY <1>2, <1>3, <1>4, <1>7, <3>2, <4>2 DEF Kept, CostsOne, Moved
      <4> QED BY <4>1, <4>2
    <3>3. CostsOne'
      BY <1>4, <2>4, <3>2 DEF CostsOne
    <3> QED BY <1>5, <3>1, <3>3
  <2>5. CASE disproven'
    <3>1. /\ pc'[p] = "done" /\ pos' = pos /\ ~confirmed'
          /\ unchecked' = unchecked /\ unchecked \subseteq named'
      BY <1>1, <1>7, <2>5 DEF OddOutcome, OddLatches
    <3>2. ASSUME NEW q \in Pairs PROVE pc'[q] \in {"waiting", "queued", "done"}
      <4>1. q < p \/ q = p \/ q > p
        BY DEF Pairs
      <4> QED BY <2>2, <2>3, <3>1, <4>1
    <3>3. OneByOne'
      BY <2>5, <3>1, <3>2 DEF OneByOne
    <3>4. ASSUME lag = 0, NEW q \in Pairs, NEW r \in Pairs, Moved(q)', Moved(r)'
          PROVE  q = r
      <4>1. Moved(q) /\ Moved(r)
        BY <1>2, <1>4, <3>1, <3>4 DEF Moved
      <4>2. \A s \in Pairs : pc[s] = "done" => ~Moved(s)
        BY <1>7, <3>4 DEF CostsOne
      <4> QED BY <1>7, <4>1, <4>2, OnlyOneMoved
    <3>5. CostsOne'
      BY <1>4, <2>5, <3>4 DEF CostsOne
    <3> QED BY <1>5, <3>3, <3>5
  <2> QED BY <2>4, <2>5
<1> QED BY <1>6, <1>7

\* The submitting thread keeps it: before the disproof it goes on only when the
\* pair it waits for has ended.
LEMMA OddMainStep ==
    ASSUME TypeOK, Submitting, Waiting, \A q \in Pairs : OddAccount(q), OneByOne, CostsOne,
           ~expired, Submit \/ Watch \/ Return
    PROVE  (\A q \in Pairs : OddAccount(q)') /\ OneByOne' /\ CostsOne'
<1>1. /\ pos' = pos /\ pos0' = pos0 /\ lag' = lag /\ noMove' = noMove /\ before' = before
      /\ led' = led /\ result' = result /\ impaired' = impaired /\ UNCHANGED latches
      /\ nextp \in Pairs
  BY DEF Submit, Watch, Return, fixed, TypeOK
<1>2. CASE Submit
  <2>1. /\ main = "submit" /\ main' = "watch" /\ nextp' = nextp
        /\ pc' = [pc EXCEPT ![nextp] = "queued"] /\ pc[nextp] = "waiting"
    BY <1>1, <1>2 DEF Submit, Submitting, Pairs
  <2>2. \A q \in Pairs : pc'[q] = IF q = nextp THEN "queued" ELSE pc[q]
    BY <2>1 DEF TypeOK
  <2>3. ASSUME NEW q \in Pairs PROVE OddAccount(q)'
    <3>1. OddAccount(q)
      OBVIOUS
    <3>2. CASE q = nextp
      <4>1. pc[q] = "waiting" /\ pc'[q] = "queued"
        BY <2>1, <2>2, <3>2
      <4> QED BY <1>1, <3>1, <4>1
          DEF OddAccount, NothingSent, NoUnsure, NoChecked, YesSteps, latches
    <3>3. CASE q # nextp
      <4>1. pc'[q] = pc[q]
        BY <2>2, <3>3
      <4> QED BY <1>1, <3>1, <4>1
          DEF OddAccount, NothingSent, NoUnsure, NoChecked, YesSteps, latches
    <3> QED BY <3>2, <3>3
  <2>4. OneByOne'
    BY <1>1, <2>1, <2>2 DEF OneByOne, latches, Pairs
  <2>5. CostsOne'
    BY <1>1, <2>2 DEF CostsOne, Moved, latches
  <2> QED BY <2>3, <2>4, <2>5
<1>3. CASE Watch \/ Return
  <2>1. pc' = pc
    BY <1>3 DEF Watch, Return
  <2>2. ASSUME NEW q \in Pairs PROVE OddAccount(q)'
    BY <1>1, <2>1 DEF OddAccount, NothingSent, NoUnsure, NoChecked, YesSteps, latches
  <2>3. CostsOne'
    BY <1>1, <2>1 DEF CostsOne, Moved, latches
  <2>4. OneByOne'
    <3>1. CASE disproven
      BY <1>1, <2>1, <3>1 DEF OneByOne, latches
    <3>2. CASE ~disproven /\ Return
      BY <1>1, <2>1, <3>2 DEF OneByOne, latches, Return
    <3>3. CASE ~disproven /\ Watch
      <4>1. pc[nextp] = "done" /\ \A q \in Pairs : q < nextp => pc[q] = "done"
        BY <3>3 DEF Watch, MayGoOn, Verified, OneByOne
      <4>2. \A q \in Pairs : q <= nextp => pc[q] = "done"
        BY <1>1, <4>1 DEF Pairs
      <4>3. CASE nextp = N
        <5>1. \A q \in Pairs : pc[q] = "done"
          BY <4>2, <4>3 DEF Pairs
        <5> QED BY <1>1, <2>1, <3>3, <5>1 DEF OneByOne, latches
      <4>4. CASE nextp # N
        <5>1. main' = "submit" /\ nextp' = nextp + 1
          BY <3>3, <4>4 DEF Watch
        <5>2. \A q \in Pairs : q < nextp' => pc'[q] = "done"
          BY <1>1, <2>1, <4>2, <5>1 DEF Pairs
        <5> QED BY <1>1, <3>3, <5>1, <5>2 DEF OneByOne, latches
      <4> QED BY <4>3, <4>4
    <3> QED BY <1>3, <3>1, <3>2, <3>3
  <2> QED BY <2>2, <2>3, <2>4
<1> QED BY <1>2, <1>3

\* Every step of the batch keeps it, until the clock runs out or someone trades.
LEMMA OddStep == AccountIInv /\ Marked /\ OddInv /\ [Next]_vars => OddInv'
<1> SUFFICES ASSUME AccountIInv, Marked, OddInv, [Next]_vars,
                    ~RightMapping', touched' = {}, ~expired'
             PROVE  (\A q \in Pairs : OddAccount(q)') /\ OneByOne' /\ CostsOne'
  BY DEF OddInv
<1>1. /\ noMove' = noMove /\ touched \subseteq touched' /\ (expired => expired')
      /\ TypeOK /\ Submitting /\ Waiting
  <2>1. TypeOK /\ Submitting /\ Waiting
    BY DEF AccountIInv
  <2>2. ASSUME NEW p \in Pairs, PairStep(p) PROVE expired' = expired
    BY <2>1, <2>2, StepFrame
  <2>3. expired => expired'
    BY <2>2 DEF Next, vars, Submit, Watch, BudgetExpires, Return, Returned, OutsideTrade,
                mainVars
  <2>4. noMove' = noMove /\ touched \subseteq touched'
    BY DEF Next, vars, Submit, Watch, BudgetExpires, Return, Returned,
     OutsideTrade, PairStep, StopAtEntry, BuildRaises, Begin, ReadBaselines, SendNo,
     AskNo, RecheckNo, ConfirmEntry, CheckMapping, SendYes, AskYes, RecheckYes,
     Unwind, fixed
  <2> QED BY <2>1, <2>3, <2>4
<1>2. ~RightMapping /\ touched = {} /\ ~expired
  BY <1>1 DEF RightMapping
<1>3. (\A q \in Pairs : OddAccount(q)) /\ OneByOne /\ CostsOne
  BY <1>2 DEF OddInv
<1>4. CASE Submit \/ Watch \/ Return
  BY <1>1, <1>2, <1>3, <1>4, OddMainStep
<1>5. ASSUME NEW p \in Pairs, PairStep(p)
      PROVE  (\A q \in Pairs : OddAccount(q)') /\ OneByOne' /\ CostsOne'
  BY <1>1, <1>2, <1>3, <1>5, OddPairStep
<1>6. CASE BudgetExpires
  BY <1>6 DEF BudgetExpires
<1>7. CASE Returned \/ UNCHANGED vars
  BY <1>3, <1>7 DEF Returned, vars, OddAccount, OneByOne, CostsOne, Moved,
     NothingSent, NoUnsure, NoChecked, YesSteps
<1>8. ASSUME NEW p \in Pairs, NEW l \in Legs, OutsideTrade(p, l) PROVE FALSE
  BY <1>8 DEF OutsideTrade
<1> QED BY <1>4, <1>5, <1>6, <1>7, <1>8 DEF Next

\* The state before the first step.
LEMMA VerdictInit == Init => Marked /\ Calm /\ OddInv
<1> SUFFICES ASSUME Init PROVE Marked /\ Calm /\ OddInv
  OBVIOUS
<1>1. Marked /\ Calm
  BY DEF Init, Marked, Begun, Calm
<1>2. ASSUME NEW p \in Pairs PROVE OddAccount(p)
  <2>1. /\ pc[p] = "waiting" /\ result[p] = "none" /\ pos0[p] = pos[p] /\ led[p] = pos[p]
        /\ before[p]["no"] = Unread
    BY Basics DEF Init
  <2> QED BY <2>1 DEF OddAccount, NothingSent, NoUnsure, NoChecked, YesSteps
<1>3. OneByOne
  BY DEF Init, OneByOne, Pairs
<1>4. CostsOne
  BY DEF Init, CostsOne, Moved
<1> QED BY <1>1, <1>2, <1>3, <1>4 DEF OddInv

\* The mapping is judged right in every batch: a late ledger and lost replies never
\* stop the run, and while pairs run one at a time a wrong mapping moves at most one
\* position unseen, and the alert names every pair that went ahead unchecked
\* (_confirm_v2_no_mapping, execute_trades, _stop_run_on_v2_mapping_disproof).
THEOREM MappingIsJudgedRight == Spec => []MappingJudgedRight
<1> DEFINE I == AccountIInv /\ Marked /\ Calm /\ OddInv
<1>1. Init => I
  BY AccountInit, VerdictInit
<1>2. I /\ [Next]_vars => I'
  BY AccountStep, MarkedStep, CalmStep, OddStep DEF AccountIInv
<1>3. I => MappingJudgedRight
  <2> SUFFICES ASSUME I PROVE MappingJudgedRight
    OBVIOUS
  <2>1. NoFalseAlarm
    BY DEF Calm, NoFalseAlarm
  <2>2. WrongMappingCostsOne
    <3> SUFFICES ASSUME ~RightMapping, lag = 0, ~expired, touched = {}
                 PROVE  Cardinality({p \in Pairs \ impaired : pos[p] # pos0[p]}) <= 1
      BY DEF WrongMappingCostsOne
    <3> DEFINE S == {p \in Pairs \ impaired : pos[p] # pos0[p]}
    <3>1. (\A p \in Pairs : OddAccount(p)) /\ OneByOne /\ CostsOne
      BY DEF OddInv
    <3>2. ASSUME NEW p \in S, NEW q \in S PROVE p = q
      <4>1. p \in Pairs /\ q \in Pairs /\ Moved(p) /\ Moved(q)
        BY <3>2 DEF Moved
      <4>2. CASE disproven
        BY <3>1, <4>1, <4>2 DEF CostsOne
      <4>3. CASE ~disproven
        BY <3>1, <4>1, <4>3, OnlyOneMoved DEF CostsOne, AccountIInv
      <4> QED BY <4>2, <4>3
    <3> HIDE DEF S
    <3>3. CASE S = {}
      BY <3>3, FS_EmptySet DEF S
    <3>4. CASE S # {}
      <4>1. PICK c : c \in S
        BY <3>4
      <4>2. S = {c}
        BY <3>2, <4>1
      <4>3. Cardinality(S) = 1
        BY <4>2, FS_Singleton
      <4> QED BY <4>3 DEF S
    <3> QED BY <3>3, <3>4
  <2>3. WrongSideNamed
    BY DEF OddInv, OddAccount, OneByOne, WrongSideNamed
  <2> QED BY <2>1, <2>2, <2>3 DEF MappingJudgedRight
<1> QED BY <1>1, <1>2, <1>3, PTL DEF Spec
=============================================================================
