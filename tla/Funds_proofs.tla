----------------------------- MODULE Funds_proofs -----------------------------
(* Proofs about the parts of Funds: PairSale, for every plan, holding, lag and *)
(* pattern of faults; Probe, for any size of its order; ShardCollateral, for   *)
(* any shards, pairs, balances and faults; LiveScan, for any listings and      *)
(* account; and Holdings, for any markets, trades and settlements.             *)
EXTENDS Funds, Sequences, FiniteSetTheorems, WellFoundedInduction, TLAPS


\* The shape of the state, which TypeOK says leg by leg.
Shape ==
    /\ plan \in Plans /\ dry \in BOOLEAN /\ disproven \in BOOLEAN
    /\ pos \in [Legs -> Int] /\ led \in [Legs -> Int] /\ pos0 \in [Legs -> Int]
    /\ before \in [Legs -> Int \cup {Unread}]
    /\ sold \in [Legs -> Int \cup {Unread}]
    /\ outside \in Nat

Selling == pc \in {"send", "ask"}

\* The account while nobody else trades.  Positions only fall, and a reading
\* lags behind them; the leg being sold has lost nothing before its order and at
\* most the order after it; the other leg follows the first.
AccountInv ==
    outside = 0 =>
        /\ pc = "start" => pos = pos0 /\ leg = "first"
        /\ \A l \in Legs : pos[l] <= led[l] /\ led[l] <= pos0[l]
        /\ Selling => \A l \in plan.legs : before[l] = pos0[l] /\ pos0[l] = plan.held
        /\ pc = "send" => Gone(leg) = 0
        /\ pc = "ask" => Gone(leg) <= asked
        /\ leg = "first" => Gone("other") = 0
        /\ leg = "other" /\ Selling => asked <= Gone("first")
        /\ Gone("other") <= Gone("first")
        /\ (\E l \in plan.legs : pos0[l] # plan.held) => pos = pos0

SaleIInv == Shape /\ TypeOK /\ AccountInv

\* What the assumptions say of the constants.
LEMMA Basics ==
    /\ "first" \in Legs /\ "other" \in Legs
    /\ \A l \in Legs : l = "first" \/ l = "other"
    /\ \A p \in Plans : /\ p.count \in Nat /\ p.count > 0 /\ p.held \in Nat
                        /\ p.legs = {"first"} \/ p.legs = Legs
    /\ Unread \notin Int /\ MaxFaults \in Nat /\ Rechecks \in Nat
BY SaleAssumption DEF Legs, IsPlan

\* It holds before the sale.
LEMMA InitInv == Init => SaleIInv
<1> SUFFICES ASSUME Init PROVE SaleIInv
  OBVIOUS
<1>1. Shape
  <2>1. pos \in [Legs -> Int]
    BY SaleAssumption DEF Init
  <2> QED BY <2>1 DEF Init, Shape
<1>2. leg \in plan.legs
  BY Basics DEF Init
<1>3. TypeOK
  BY <1>1, <1>2, Basics DEF Init, TypeOK, Shape, Statuses
<1>4. AccountInv
  BY <1>1, <1>2, Basics DEF Init, AccountInv, Shape, Selling, Gone
<1> QED BY <1>1, <1>3, <1>4 DEF SaleIInv

\* A fault stays within the bound.
LEMMA FaultType ==
    ASSUME faults \in 0 .. MaxFaults, NEW h \in BOOLEAN, Fault(h)
    PROVE  faults' \in 0 .. MaxFaults
<1>1. CASE h
  BY <1>1, Basics DEF Fault
<1>2. CASE ~h
  BY <1>2, Basics DEF Fault
<1> QED BY <1>1, <1>2

\* What is told of the current leg, within its order, keeps the types.
LEMMA ToldType ==
    ASSUME Shape, TypeOK, NEW n \in 0 .. asked \cup {Unread}, Told(n), plan' = plan
    PROVE  /\ pc' \in {"send", "done"} /\ leg' \in plan'.legs
           /\ asked' \in 0 .. plan'.count /\ looks' = 0
           /\ sold' \in [Legs -> Int \cup {Unread}]
           /\ \A l \in Legs : sold'[l] \in 0 .. plan'.count \cup {Unread}
           /\ status' \in Statuses
<1> USE Basics
<1>0. /\ plan \in Plans /\ asked \in 0 .. plan.count /\ plan.count \in Nat
      /\ leg \in plan.legs /\ leg \in Legs /\ status \in Statuses
  BY DEF Shape, TypeOK
<1>1. n \in 0 .. plan.count \cup {Unread}
  BY <1>0
<1>2. sold' = [sold EXCEPT ![leg] = n] /\ looks' = 0
  BY DEF Told
<1>3. /\ sold' \in [Legs -> Int \cup {Unread}]
      /\ \A l \in Legs : sold'[l] \in 0 .. plan'.count \cup {Unread}
  BY <1>0, <1>1, <1>2 DEF Shape, TypeOK
<1>4. \A a, b : Verdict(a, b) \in Statuses
  BY DEF Verdict, Statuses
<1>5. CASE n = Unread
  BY <1>0, <1>2, <1>3, <1>5 DEF Told, End, Statuses
<1>6. CASE n # Unread /\ leg = "first"
  <2>1. CASE n = 0 \/ plan.legs = {"first"}
    BY <1>0, <1>2, <1>3, <1>4, <1>6, <2>1 DEF Told, End
  <2>2. CASE ~(n = 0 \/ plan.legs = {"first"})
    <3>1. /\ pc' = "send" /\ leg' = "other" /\ asked' = n /\ status' = status
      BY <1>6, <2>2 DEF Told, AskSold
    <3>2. "other" \in plan.legs
      BY <1>0, <2>2
    <3> QED BY <1>0, <1>1, <1>2, <1>3, <1>6, <3>1, <3>2
  <2> QED BY <2>1, <2>2
<1>7. CASE n # Unread /\ leg = "other"
  BY <1>0, <1>2, <1>3, <1>4, <1>7 DEF Told, End
<1> QED BY <1>0, <1>5, <1>6, <1>7

\* What is told of the current leg, when it is no more than has left the account,
\* is all the second order asks for.
LEMMA ToldAccount ==
    ASSUME Shape, TypeOK, AccountInv, outside = 0, Selling,
           NEW n \in 0 .. asked \cup {Unread}, Told(n),
           plan' = plan, pos0' = pos0, before' = before, outside' = outside,
           pos' \in [Legs -> Int], led' \in [Legs -> Int],
           \A l \in Legs : l # leg => pos'[l] = pos[l],
           \A l \in Legs : pos'[l] <= led'[l] /\ led'[l] <= pos0[l],
           pos0[leg] - pos'[leg] <= asked,
           n # Unread => n <= pos0[leg] - pos'[leg]
    PROVE  AccountInv'
<1> USE Basics
<1>0. /\ plan \in Plans /\ asked \in Nat /\ leg \in plan.legs /\ leg \in Legs
      /\ pos \in [Legs -> Int] /\ pos0 \in [Legs -> Int]
  BY DEF Shape, TypeOK
<1>1. /\ \A l \in plan.legs : before[l] = pos0[l] /\ pos0[l] = plan.held
      /\ leg = "first" => pos0["other"] - pos["other"] = 0
      /\ leg = "other" => asked <= pos0["first"] - pos["first"]
  BY DEF AccountInv, Gone
<1>2. pc' \in {"send", "done"}
  BY ToldType
<1>3. leg' = "first" => leg = "first"
  BY <1>0 DEF Told
<1>4. leg = "first" => pos0["other"] - pos'["other"] = 0
  BY <1>0, <1>1
<1>5. leg = "other" => pos0["first"] - pos'["first"] = pos0["first"] - pos["first"]
  BY <1>0
<1>6. pos0["other"] - pos'["other"] <= pos0["first"] - pos'["first"]
  <2>1. CASE leg = "first"
    <3>1. pos'["first"] <= led'["first"] /\ led'["first"] <= pos0["first"]
      OBVIOUS
    <3>2. 0 <= pos0["first"] - pos'["first"]
      BY <1>0, <3>1
    <3> QED BY <1>0, <1>4, <2>1, <3>2
  <2>2. CASE leg = "other"
    BY <1>0, <1>1, <1>5, <2>2
  <2> QED BY <1>0, <2>1, <2>2
<1>7. pc' = "send" =>
         /\ leg = "first" /\ leg' = "other" /\ n # Unread /\ asked' = n
         /\ pos0["other"] - pos'["other"] = 0
         /\ asked' <= pos0["first"] - pos'["first"]
  BY <1>0, <1>4 DEF Told, End, AskSold
<1> QED BY <1>1, <1>2, <1>3, <1>4, <1>6, <1>7 DEF AccountInv, Gone, Selling

----------------------------------------------------------------------------
(* Every step keeps the invariant.                                          *)

\* A sale that is not sent changes nothing on the account.
LEMMA RefuseInv == SaleIInv /\ Refuse => SaleIInv'
<1> SUFFICES ASSUME SaleIInv, Refuse PROVE SaleIInv'
  OBVIOUS
<1> USE DEF SaleIInv
<1>1. /\ pc' = "done" /\ status' \in Statuses
      /\ UNCHANGED <<leg, asked, before, looks, sold, pos, led, plan, dry, disproven,
                     pos0, outside, faults>>
  BY DEF Refuse, End, Statuses, account, fixed
<1>2. Shape'
  BY <1>1 DEF Shape
<1>3. TypeOK'
  BY <1>1 DEF TypeOK
<1>4. AccountInv'
  BY <1>1 DEF AccountInv, Selling, Gone
<1> QED BY <1>2, <1>3, <1>4

\* A sale begins only on the planned holding, as it was before the sale.
LEMMA ReadHoldingsInv == SaleIInv /\ ReadHoldings => SaleIInv'
<1> SUFFICES ASSUME SaleIInv, ReadHoldings PROVE SaleIInv'
  OBVIOUS
<1> USE Basics DEF SaleIInv
<1>1. PICK failed \in SUBSET plan.legs :
          /\ Fault(failed # {})
          /\ before' = [l \in Legs |-> IF l \in failed THEN Unread ELSE pos[l]]
          /\ IF AsPlanned(before')
             THEN pc' = "send" /\ asked' = plan.count /\ UNCHANGED status
             ELSE End("not_sold") /\ UNCHANGED asked
  BY DEF ReadHoldings
<1>2. UNCHANGED <<leg, looks, sold, pos, led, plan, dry, disproven, pos0, outside>>
  BY DEF ReadHoldings, account, fixed
<1>3. before' \in [Legs -> Int \cup {Unread}]
  BY <1>1 DEF Shape
<1>4. faults' \in 0 .. MaxFaults
  BY <1>1, FaultType DEF TypeOK
<1>5. /\ plan.count \in Nat /\ plan.legs \subseteq Legs /\ leg \in plan.legs
      /\ plan.held \in Nat
  BY DEF Shape, TypeOK
<1>6. pc = "start"
  BY DEF ReadHoldings
<1>7. asked' \in 0 .. plan.count /\ status' \in Statuses /\ pc' \in {"send", "done"}
  BY <1>1, <1>5 DEF TypeOK, End, Statuses
<1>8. Shape'
  BY <1>2, <1>3 DEF Shape
<1>9. TypeOK'
  BY <1>2, <1>3, <1>4, <1>7 DEF TypeOK
<1>10. AccountInv'
  <2> SUFFICES ASSUME outside' = 0 PROVE AccountInv'
    BY DEF AccountInv
  <2>1. pos = pos0 /\ pos \in [Legs -> Int]
    BY <1>2, <1>6 DEF AccountInv, Shape
  <2>2. \A l \in Legs : Gone(l)' = 0
    BY <1>2, <2>1 DEF Gone
  <2>3. pc' = "send" => \A l \in plan.legs : before'[l] = pos0[l] /\ pos0[l] = plan.held
    <3> SUFFICES ASSUME pc' = "send", NEW l \in plan.legs
                 PROVE  before'[l] = pos0[l] /\ pos0[l] = plan.held
      OBVIOUS
    <3>1. before'[l] = plan.held
      BY <1>1 DEF End, AsPlanned
    <3>2. before'[l] = pos[l]
      BY <1>1, <1>5, <3>1
    <3> QED BY <2>1, <3>1, <3>2
  <2>4. leg = "first"
    BY <1>2, <1>6 DEF AccountInv
  <2> QED BY <1>2, <1>7, <2>1, <2>2, <2>3, <2>4 DEF AccountInv, Selling
<1> QED BY <1>8, <1>9, <1>10

\* An order sells at most what it asks for, and the hedge no more than the first leg.
LEMMA SendInv == SaleIInv /\ Send => SaleIInv'
<1> SUFFICES ASSUME SaleIInv, Send PROVE SaleIInv'
  OBVIOUS
<1> USE Basics DEF SaleIInv
<1>1. PICK n \in 0 .. Least(asked, IF pos[leg] > 0 THEN pos[leg] ELSE 0),
           lost \in BOOLEAN :
          /\ Fault(lost)
          /\ pos' = [pos EXCEPT ![leg] = @ - n]
          /\ IF lost
             THEN pc' = "ask" /\ UNCHANGED <<leg, asked, looks, sold, status>>
             ELSE Told(n)
  BY DEF Send
<1>2. UNCHANGED <<before, led, plan, dry, disproven, pos0, outside>> /\ pc = "send"
  BY DEF Send, fixed
<1>3. /\ pos \in [Legs -> Int] /\ led \in [Legs -> Int] /\ pos0 \in [Legs -> Int]
      /\ leg \in plan.legs /\ leg \in Legs /\ asked \in 0 .. plan.count
      /\ plan.count \in Nat /\ plan.held \in Nat
  BY DEF Shape, TypeOK
<1>4. n \in 0 .. asked
  <2>1. (IF pos[leg] > 0 THEN pos[leg] ELSE 0) \in Int
    BY <1>3
  <2> QED BY <1>1, <1>3, <2>1 DEF Least
<1>5. /\ pos' \in [Legs -> Int] /\ pos'[leg] = pos[leg] - n
      /\ \A l \in Legs : l # leg => pos'[l] = pos[l]
  BY <1>1, <1>3, <1>4
<1>6. faults' \in 0 .. MaxFaults
  BY <1>1, FaultType DEF TypeOK
<1>7. CASE lost
  <2>1. pc' = "ask" /\ UNCHANGED <<leg, asked, looks, sold, status>>
    BY <1>1, <1>7
  <2>2. Shape'
    BY <1>2, <1>5, <2>1 DEF Shape
  <2>3. TypeOK'
    BY <1>2, <1>3, <1>5, <1>6, <2>1 DEF TypeOK
  <2>4. AccountInv'
    <3> SUFFICES ASSUME outside' = 0 PROVE AccountInv'
      BY DEF AccountInv
    <3>1. /\ \A l \in Legs : pos[l] <= led[l] /\ led[l] <= pos0[l]
          /\ \A l \in plan.legs : before[l] = pos0[l] /\ pos0[l] = plan.held
          /\ pos0[leg] - pos[leg] = 0
          /\ leg = "first" => pos0["other"] - pos["other"] = 0
          /\ leg = "other" => asked <= pos0["first"] - pos["first"]
      BY <1>2 DEF AccountInv, Gone, Selling
    <3>2. \A l \in Legs : pos'[l] <= led'[l] /\ led'[l] <= pos0'[l]
      <4> SUFFICES ASSUME NEW l \in Legs PROVE pos'[l] <= led[l] /\ led[l] <= pos0[l]
        BY <1>2
      <4>1. pos'[l] \in Int /\ pos'[l] <= pos[l] /\ pos[l] \in Int /\ led[l] \in Int
        BY <1>3, <1>4, <1>5
      <4> QED BY <3>1, <4>1
    <3>3. pos0[leg] - pos'[leg] <= asked
      BY <1>3, <1>4, <1>5, <3>1
    <3>4. /\ leg = "first" => pos0["other"] - pos'["other"] = 0
          /\ leg = "other" => asked <= pos0["first"] - pos'["first"]
      BY <1>5, <3>1
    <3>5. pos0["other"] - pos'["other"] <= pos0["first"] - pos'["first"]
      <4>1. CASE leg = "first"
        BY <1>3, <1>4, <1>5, <3>1, <3>4, <4>1
      <4>2. CASE leg = "other"
        BY <1>3, <1>5, <3>3, <3>4, <4>2
      <4> QED BY <1>3, <4>1, <4>2
    <3> QED BY <1>2, <2>1, <3>1, <3>2, <3>3, <3>4, <3>5
            DEF AccountInv, Gone, Selling
  <2> QED BY <2>2, <2>3, <2>4
<1>8. CASE ~lost
  <2>1. Told(n)
    BY <1>1, <1>8
  <2>2. /\ pc' \in {"send", "done"} /\ leg' \in plan'.legs
        /\ asked' \in 0 .. plan'.count /\ looks' = 0
        /\ sold' \in [Legs -> Int \cup {Unread}]
        /\ \A l \in Legs : sold'[l] \in 0 .. plan'.count \cup {Unread}
        /\ status' \in Statuses
    BY <1>2, <1>4, <2>1, ToldType
  <2>3. Shape'
    BY <1>2, <1>5, <2>2 DEF Shape
  <2>4. TypeOK'
    BY <1>2, <1>3, <1>5, <1>6, <2>2 DEF TypeOK
  <2>5. AccountInv'
    <3> SUFFICES ASSUME outside' = 0 PROVE AccountInv'
      BY DEF AccountInv
    <3>1. /\ \A l \in Legs : pos[l] <= led[l] /\ led[l] <= pos0[l]
          /\ pos0[leg] - pos[leg] = 0
      BY <1>2 DEF AccountInv, Gone, Selling
    <3>2. \A l \in Legs : pos'[l] <= led'[l] /\ led'[l] <= pos0[l]
      <4> SUFFICES ASSUME NEW l \in Legs PROVE pos'[l] <= led[l] /\ led[l] <= pos0[l]
        BY <1>2
      <4>1. pos'[l] \in Int /\ pos'[l] <= pos[l] /\ pos[l] \in Int /\ led[l] \in Int
        BY <1>3, <1>4, <1>5
      <4> QED BY <3>1, <4>1
    <3>3. pos0[leg] - pos'[leg] = n
      BY <1>3, <1>4, <1>5, <3>1
    <3>4. n \in Int /\ n <= asked
      BY <1>3, <1>4
    <3>5. led' \in [Legs -> Int] /\ Selling /\ outside = 0
      BY <1>2, <1>3 DEF Selling
    <3>6. n <= pos0[leg] - pos'[leg] /\ pos0[leg] - pos'[leg] <= asked
      BY <3>3, <3>4
    <3> QED BY <1>2, <1>4, <1>5, <2>1, <3>2, <3>5, <3>6, ToldAccount
  <2> QED BY <2>3, <2>4, <2>5
<1> QED BY <1>7, <1>8

\* A sale that raises ends where it is.
LEMMA RaiseInv == SaleIInv /\ Raise => SaleIInv'
<1> SUFFICES ASSUME SaleIInv, Raise PROVE SaleIInv'
  OBVIOUS
<1> USE DEF SaleIInv
<1>1. /\ pc' = "done" /\ status' = "manual_review" /\ pc = "send"
      /\ UNCHANGED <<leg, asked, before, looks, sold, pos, led, plan, dry, disproven,
                     pos0, outside>>
      /\ Fault(TRUE)
  BY DEF Raise, End, account, fixed
<1>2. faults' \in 0 .. MaxFaults
  BY <1>1, FaultType DEF TypeOK
<1>3. Shape'
  BY <1>1 DEF Shape
<1>4. TypeOK'
  BY <1>1, <1>2 DEF TypeOK, Statuses
<1>5. AccountInv'
  BY <1>1 DEF AccountInv, Selling, Gone
<1> QED BY <1>3, <1>4, <1>5

\* A reading never shows more gone than is gone.
LEMMA AskInv == SaleIInv /\ Ask => SaleIInv'
<1> SUFFICES ASSUME SaleIInv, Ask PROVE SaleIInv'
  OBVIOUS
<1> USE Basics DEF SaleIInv
<1>1. PICK v \in Readings(leg, looks) :
          /\ Fault(v = Unread)
          /\ led' = IF v = Unread THEN led ELSE [led EXCEPT ![leg] = v]
          /\ IF LookAgain(v)
             THEN looks' = looks + 1
                  /\ UNCHANGED <<pc, leg, asked, sold, status>>
             ELSE Told(SoldBy(v))
  BY DEF Ask
<1>2. UNCHANGED <<before, pos, plan, dry, disproven, pos0, outside>> /\ pc = "ask"
  BY DEF Ask, fixed
<1>3. /\ pos \in [Legs -> Int] /\ led \in [Legs -> Int] /\ pos0 \in [Legs -> Int]
      /\ leg \in plan.legs /\ leg \in Legs /\ asked \in 0 .. plan.count
      /\ plan.count \in Nat
  BY DEF Shape, TypeOK
<1>4. v = Unread \/ v = pos[leg] \/ v = led[leg]
  BY <1>1 DEF Readings
<1>5. /\ led' \in [Legs -> Int] /\ \A l \in Legs : l # leg => led'[l] = led[l]
      /\ led'[leg] = pos[leg] \/ led'[leg] = led[leg]
  <2>1. CASE v = Unread
    BY <1>1, <1>3, <2>1
  <2>2. CASE v # Unread
    BY <1>1, <1>3, <1>4, <2>2
  <2> QED BY <2>1, <2>2
<1>6. faults' \in 0 .. MaxFaults
  BY <1>1, FaultType DEF TypeOK
<1>7. outside = 0 => /\ \A l \in Legs : pos[l] <= led[l] /\ led[l] <= pos0[l]
                     /\ \A l \in plan.legs : before[l] = pos0[l]
                     /\ pos0[leg] - pos[leg] <= asked
  BY <1>2 DEF AccountInv, Gone, Selling
<1>8. outside = 0 => \A l \in Legs : pos[l] <= led'[l] /\ led'[l] <= pos0[l]
  BY <1>3, <1>5, <1>7
<1>9. CASE LookAgain(v)
  <2>1. looks' = looks + 1 /\ UNCHANGED <<pc, leg, asked, sold, status>>
    BY <1>1, <1>9
  <2>2. looks' \in 0 .. Rechecks
    BY <1>9, <2>1 DEF LookAgain, TypeOK
  <2>3. Shape'
    BY <1>2, <1>5, <2>1 DEF Shape
  <2>4. TypeOK'
    BY <1>2, <1>5, <1>6, <2>1, <2>2 DEF TypeOK
  <2>5. AccountInv'
    BY <1>2, <1>8, <2>1 DEF AccountInv, Selling, Gone
  <2> QED BY <2>3, <2>4, <2>5
<1>10. CASE ~LookAgain(v)
  <2> DEFINE n == SoldBy(v)
  <2>1. Told(n)
    BY <1>1, <1>10
  <2>2. n \in 0 .. asked \cup {Unread}
    BY DEF SoldBy
  <2>3. /\ pc' \in {"send", "done"} /\ leg' \in plan'.legs
        /\ asked' \in 0 .. plan'.count /\ looks' = 0
        /\ sold' \in [Legs -> Int \cup {Unread}]
        /\ \A l \in Legs : sold'[l] \in 0 .. plan'.count \cup {Unread}
        /\ status' \in Statuses
    BY <1>2, <2>1, <2>2, ToldType
  <2>4. Shape'
    BY <1>2, <1>5, <2>3 DEF Shape
  <2>5. TypeOK'
    BY <1>2, <1>5, <1>6, <2>3 DEF TypeOK
  <2>6. AccountInv'
    <3> SUFFICES ASSUME outside' = 0 PROVE AccountInv'
      BY DEF AccountInv
    <3>1. n # Unread => n <= pos0[leg] - pos'[leg]
      <4> SUFFICES ASSUME n # Unread PROVE n <= pos0[leg] - pos'[leg]
        OBVIOUS
      <4>1. v # Unread /\ n = before[leg] - v
        BY DEF SoldBy
      <4>2. n = pos0[leg] - v
        BY <1>2, <1>3, <1>7, <4>1
      <4>3. v \in Int /\ pos[leg] <= v
        BY <1>2, <1>3, <1>4, <1>7, <4>1
      <4> QED BY <1>2, <1>3, <4>2, <4>3
    <3>2. outside = 0 /\ Selling
      BY <1>2 DEF Selling
    <3>3. \A l \in Legs : pos'[l] <= led'[l] /\ led'[l] <= pos0[l]
      BY <1>2, <1>8
    <3>4. pos0[leg] - pos'[leg] <= asked
      BY <1>2, <1>7
    <3>5. pos' \in [Legs -> Int] /\ \A l \in Legs : l # leg => pos'[l] = pos[l]
      BY <1>2, <1>3
    <3> HIDE DEF n
    <3> QED BY <1>2, <1>5, <2>1, <2>2, <3>1, <3>2, <3>3, <3>4, <3>5, ToldAccount
  <2> QED BY <2>4, <2>5, <2>6
<1> QED BY <1>9, <1>10

\* After someone else's trade the invariant claims types only.
LEMMA OutsideTradeInv == SaleIInv /\ OutsideTrade => SaleIInv'
<1> SUFFICES ASSUME SaleIInv, OutsideTrade PROVE SaleIInv'
  OBVIOUS
<1> USE DEF SaleIInv
<1>1. PICK l \in Legs, d \in {-1, 1} : pos' = [pos EXCEPT ![l] = @ + d]
  BY DEF OutsideTrade
<1>2. /\ outside' = outside + 1
      /\ UNCHANGED <<pc, leg, asked, before, looks, sold, status, led, plan, dry,
                     disproven, pos0, faults>>
  BY DEF OutsideTrade, fixed
<1>3. pos' \in [Legs -> Int]
  BY <1>1 DEF Shape
<1>4. Shape'
  BY <1>2, <1>3 DEF Shape
<1>5. TypeOK'
  BY <1>2, <1>3 DEF TypeOK
<1>6. AccountInv'
  BY <1>2 DEF AccountInv, Shape
<1> QED BY <1>4, <1>5, <1>6

\* Every step keeps the invariant.
LEMMA StepInv == SaleIInv /\ [Next]_vars => SaleIInv'
<1> SUFFICES ASSUME SaleIInv, [Next]_vars PROVE SaleIInv'
  OBVIOUS
<1>1. CASE UNCHANGED vars
  BY <1>1 DEF vars, SaleIInv, Shape, TypeOK, AccountInv, Selling, Gone
<1>2. CASE Finished
  BY <1>2 DEF Finished, vars, SaleIInv, Shape, TypeOK, AccountInv, Selling, Gone
<1> QED BY <1>1, <1>2, RefuseInv, ReadHoldingsInv, SendInv, RaiseInv, AskInv,
           OutsideTradeInv DEF Next

----------------------------------------------------------------------------
(* Theorems.                                                                *)

\* The invariant holds throughout a sale (trader._sell_one).
THEOREM InductiveInvariant == Spec => []SaleIInv
BY InitInv, StepInv, PTL DEF Spec

\* Every variable keeps its type; in particular no sale is taken to have sold
\* fewer than none or more than was planned (_contracts_sold), whatever the
\* account reads after someone else's trades.
THEOREM TypeCorrect == Spec => []TypeOK
<1>1. SaleIInv => TypeOK
  BY DEF SaleIInv
<1> QED BY <1>1, InductiveInvariant, PTL

\* _sell_pair never sells more of the other market than it sold of the first,
\* with any lag of the ledger, any number of lost replies and any re-reads.
THEOREM HedgeIsNeverOversold == Spec => []HedgeNeverOversold
<1>1. SaleIInv => HedgeNeverOversold
  BY DEF SaleIInv, AccountInv, HedgeNeverOversold
<1> QED BY <1>1, InductiveInvariant, PTL

\* _sell_one sells nothing when a market holds something else than planned.
THEOREM OnlyThePlannedIsSold == Spec => []SellsOnlyThePlannedHolding
<1>1. SaleIInv => SellsOnlyThePlannedHolding
  BY DEF SaleIInv, AccountInv, SellsOnlyThePlannedHolding
<1> QED BY <1>1, InductiveInvariant, PTL

----------------------------------------------------------------------------
(* What a finished sale reports.                                            *)

\* The ledger is no later than the re-reads allow for, and nobody else trades.
Undisturbed == outside = 0 /\ Lag <= Rechecks - 1

\* What is taken to be sold of the first leg has left the account, and the order
\* at work asks for what it should.
ToldInv ==
    Undisturbed =>
        /\ Selling /\ leg = "first" => asked = plan.count
        /\ Selling /\ leg = "other" =>
              /\ sold["first"] = Gone("first") /\ asked = sold["first"] /\ asked > 0
              /\ plan.legs = Legs
        /\ SaleReportMatchesAccount

\* A number told of the current leg that is what left the account gives a report
\* that matches it.
LEMMA ToldReport ==
    ASSUME Shape, TypeOK, AccountInv, ToldInv, Undisturbed, Selling,
           NEW n \in 0 .. asked \cup {Unread}, Told(n),
           plan' = plan, pos0' = pos0, outside' = outside,
           pos' \in [Legs -> Int],
           \A l \in Legs : l # leg => pos'[l] = pos[l],
           n # Unread => n = pos0[leg] - pos'[leg]
    PROVE  ToldInv'
<1> USE Basics
<1>0. /\ plan \in Plans /\ asked \in 0 .. plan.count /\ leg \in plan.legs /\ leg \in Legs
      /\ plan.count \in Nat /\ plan.count > 0
      /\ pos \in [Legs -> Int] /\ pos0 \in [Legs -> Int]
      /\ sold \in [Legs -> Int \cup {Unread}]
  BY DEF Shape, TypeOK
<1>1. sold' = [sold EXCEPT ![leg] = n]
  BY DEF Told
<1>2. /\ leg = "first" => asked = plan.count /\ pos0["other"] - pos'["other"] = 0
      /\ leg = "other" => /\ sold["first"] = pos0["first"] - pos'["first"]
                          /\ asked = sold["first"] /\ asked > 0 /\ plan.legs = Legs
  <2>1. leg = "first" => asked = plan.count /\ pos0["other"] - pos["other"] = 0
    BY DEF ToldInv, AccountInv, Undisturbed, Gone
  <2>2. leg = "other" => /\ sold["first"] = pos0["first"] - pos["first"]
                         /\ asked = sold["first"] /\ asked > 0 /\ plan.legs = Legs
    BY DEF ToldInv, Gone
  <2> QED BY <1>0, <2>1, <2>2
<1>3. CASE n = Unread
  <2>1. pc' = "done" /\ status' = "manual_review"
    BY <1>3 DEF Told, End
  <2> QED BY <2>1 DEF ToldInv, Selling, SaleReportMatchesAccount
<1>4. CASE n # Unread /\ leg = "first"
  <2>0. n \in Nat /\ n <= plan.count /\ n = pos0["first"] - pos'["first"]
    BY <1>0, <1>4
  <2>1. CASE n = 0 \/ plan.legs = {"first"}
    <3>1. pc' = "done" /\ status' = Verdict(n, n)
      BY <1>4, <2>1 DEF Told, End
    <3>2. CASE n = 0
      <4>1. status' = "not_sold"
        BY <2>0, <3>1, <3>2 DEF Verdict
      <4>2. \A l \in Legs : pos0[l] - pos'[l] = 0
        BY <1>2, <1>4, <2>0, <3>2
      <4> QED BY <3>1, <4>1, <4>2 DEF ToldInv, Selling, SaleReportMatchesAccount, Gone
    <3>3. CASE n # 0 /\ n < plan.count
      <4>1. status' = "partly_sold"
        BY <2>0, <3>1, <3>3 DEF Verdict
      <4>2. n \in 1 .. plan'.count - 1 /\ \A l \in plan'.legs : pos0[l] - pos'[l] = n
        BY <1>0, <2>0, <2>1, <3>3
      <4> QED BY <3>1, <4>1, <4>2 DEF ToldInv, Selling, SaleReportMatchesAccount, Gone
    <3>4. CASE n # 0 /\ n = plan.count
      <4>1. status' = "sold"
        BY <2>0, <3>1, <3>4 DEF Verdict
      <4>2. \A l \in plan'.legs : pos0[l] - pos'[l] = plan'.count
        BY <1>0, <2>0, <2>1, <3>4
      <4> QED BY <3>1, <4>1, <4>2 DEF ToldInv, Selling, SaleReportMatchesAccount, Gone
    <3> QED BY <1>0, <2>0, <3>2, <3>3, <3>4
  <2>2. CASE ~(n = 0 \/ plan.legs = {"first"})
    <3>1. pc' = "send" /\ leg' = "other" /\ asked' = n
      BY <1>4, <2>2 DEF Told, AskSold
    <3>2. sold'["first"] = n /\ plan'.legs = Legs /\ asked' > 0
      BY <1>0, <1>1, <1>4, <2>0, <2>2, <3>1
    <3> QED BY <2>0, <3>1, <3>2 DEF ToldInv, Selling, SaleReportMatchesAccount, Gone
  <2> QED BY <2>1, <2>2
<1>5. CASE n # Unread /\ leg = "other"
  <2> DEFINE m == sold["first"]
  <2>0. /\ n \in Nat /\ m \in Nat /\ m > 0 /\ n <= m /\ m <= plan.count
        /\ n = pos0["other"] - pos'["other"] /\ m = pos0["first"] - pos'["first"]
        /\ plan.legs = Legs
    BY <1>0, <1>2, <1>5
  <2>1. pc' = "done" /\ status' = Verdict(m, n)
    BY <1>5 DEF Told, End
  <2>2. sold'["first"] = m /\ sold'["other"] = n
    BY <1>0, <1>1, <1>5
  <2> HIDE DEF m
  <2>3. CASE n < m
    <3>1. status' = "unbalanced"
      BY <2>0, <2>1, <2>3 DEF Verdict
    <3>2. \A l \in Legs : pos0[l] - pos'[l] = sold'[l]
      BY <2>0, <2>2
    <3> QED BY <2>0, <2>1, <2>3, <3>1, <3>2
            DEF ToldInv, Selling, SaleReportMatchesAccount, Gone
  <2>4. CASE n = m /\ m < plan.count
    <3>1. status' = "partly_sold"
      BY <2>0, <2>1, <2>4 DEF Verdict
    <3>2. n \in 1 .. plan'.count - 1 /\ \A l \in plan'.legs : pos0[l] - pos'[l] = n
      BY <1>0, <2>0, <2>4
    <3> QED BY <2>1, <3>1, <3>2 DEF ToldInv, Selling, SaleReportMatchesAccount, Gone
  <2>5. CASE n = m /\ m = plan.count
    <3>1. status' = "sold"
      BY <2>0, <2>1, <2>5 DEF Verdict
    <3>2. \A l \in plan'.legs : pos0[l] - pos'[l] = plan'.count
      BY <2>0, <2>5
    <3> QED BY <2>1, <3>1, <3>2 DEF ToldInv, Selling, SaleReportMatchesAccount, Gone
  <2> QED BY <1>0, <2>0, <2>3, <2>4, <2>5
<1> QED BY <1>0, <1>3, <1>4, <1>5

\* The account before the first step.
LEMMA InitToldInv == Init => ToldInv
BY DEF Init, ToldInv, Selling, SaleReportMatchesAccount

\* Nothing sent leaves the account as it was.
LEMMA RefuseTold == SaleIInv /\ ToldInv /\ Refuse => ToldInv'
<1> SUFFICES ASSUME SaleIInv, ToldInv, Refuse, Undisturbed' PROVE ToldInv'
  BY DEF ToldInv
<1>1. /\ pc = "start" /\ pc' = "done" /\ status' \in {"simulated", "not_sold"}
      /\ UNCHANGED <<pos, pos0, outside>>
  BY DEF Refuse, End, account, fixed
<1>2. pos = pos0 /\ pos0 \in [Legs -> Int]
  BY <1>1 DEF SaleIInv, AccountInv, Shape, Undisturbed
<1>3. \A l \in Legs : pos0'[l] - pos'[l] = 0
  BY <1>1, <1>2
<1> QED BY <1>1, <1>3 DEF ToldInv, Selling, SaleReportMatchesAccount, Gone

\* A sale that is begun asks for all of the plan.
LEMMA ReadHoldingsTold == SaleIInv /\ ToldInv /\ ReadHoldings => ToldInv'
<1> SUFFICES ASSUME SaleIInv, ToldInv, ReadHoldings, Undisturbed' PROVE ToldInv'
  BY DEF ToldInv
<1>1. /\ pc = "start" /\ UNCHANGED <<leg, plan, pos, pos0, outside>>
      /\ \/ pc' = "send" /\ asked' = plan.count
         \/ pc' = "done" /\ status' = "not_sold"
  BY DEF ReadHoldings, End, account, fixed
<1>2. pos = pos0 /\ leg = "first" /\ pos0 \in [Legs -> Int]
  BY <1>1 DEF SaleIInv, AccountInv, Shape, Undisturbed
<1>3. \A l \in Legs : pos0'[l] - pos'[l] = 0
  BY <1>1, <1>2
<1> QED BY <1>1, <1>2, <1>3 DEF ToldInv, Selling, SaleReportMatchesAccount, Gone

\* An order's reply says what has left the account; a lost one says nothing.
LEMMA SendTold == SaleIInv /\ ToldInv /\ Send => ToldInv'
<1> SUFFICES ASSUME SaleIInv, ToldInv, Send, Undisturbed' PROVE ToldInv'
  BY DEF ToldInv
<1> USE Basics
<1>1. PICK n \in 0 .. Least(asked, IF pos[leg] > 0 THEN pos[leg] ELSE 0),
           lost \in BOOLEAN :
          /\ Fault(lost)
          /\ pos' = [pos EXCEPT ![leg] = @ - n]
          /\ IF lost
             THEN pc' = "ask" /\ UNCHANGED <<leg, asked, looks, sold, status>>
             ELSE Told(n)
  BY DEF Send
<1>2. UNCHANGED <<plan, pos0, outside>> /\ pc = "send" /\ Undisturbed /\ Selling
  BY DEF Send, fixed, Undisturbed, Selling
<1>3. /\ pos \in [Legs -> Int] /\ pos0 \in [Legs -> Int]
      /\ leg \in plan.legs /\ leg \in Legs /\ asked \in Nat
  BY DEF SaleIInv, Shape, TypeOK
<1>4. n \in 0 .. asked
  <2>1. (IF pos[leg] > 0 THEN pos[leg] ELSE 0) \in Int
    BY <1>3
  <2> QED BY <1>1, <1>3, <2>1 DEF Least
<1>5. /\ pos' \in [Legs -> Int] /\ pos'[leg] = pos[leg] - n
      /\ \A l \in Legs : l # leg => pos'[l] = pos[l]
  BY <1>1, <1>3, <1>4
<1>6. pos0[leg] - pos[leg] = 0
  BY <1>2 DEF SaleIInv, AccountInv, Undisturbed, Gone
<1>7. n = pos0[leg] - pos'[leg]
  BY <1>3, <1>4, <1>5, <1>6
<1>8. CASE lost
  <2>1. pc' = "ask" /\ UNCHANGED <<leg, asked, sold>>
    BY <1>1, <1>8
  <2>2. leg = "other" => pos0["first"] - pos'["first"] = pos0["first"] - pos["first"]
    BY <1>5
  <2> QED BY <1>2, <2>1, <2>2 DEF ToldInv, Selling, SaleReportMatchesAccount, Gone
<1>9. CASE ~lost
  <2>1. Told(n)
    BY <1>1, <1>9
  <2> QED BY <1>2, <1>4, <1>5, <1>7, <2>1, ToldReport DEF SaleIInv
<1> QED BY <1>8, <1>9

\* A sale that raised reports nothing.
LEMMA RaiseTold == SaleIInv /\ ToldInv /\ Raise => ToldInv'
BY DEF Raise, End, ToldInv, Selling, SaleReportMatchesAccount

\* The account is asked until it shows all of the order, or until no reading can
\* be old, so what is told at last has left the account.
LEMMA AskTold == SaleIInv /\ ToldInv /\ Ask => ToldInv'
<1> SUFFICES ASSUME SaleIInv, ToldInv, Ask, Undisturbed' PROVE ToldInv'
  BY DEF ToldInv
<1> USE Basics
<1>1. PICK v \in Readings(leg, looks) :
          /\ IF LookAgain(v)
             THEN looks' = looks + 1
                  /\ UNCHANGED <<pc, leg, asked, sold, status>>
             ELSE Told(SoldBy(v))
  BY DEF Ask
<1>2. /\ UNCHANGED <<before, pos, plan, pos0, outside>> /\ pc = "ask"
      /\ Undisturbed /\ Selling
  BY DEF Ask, fixed, Undisturbed, Selling
<1>3. /\ pos \in [Legs -> Int] /\ led \in [Legs -> Int] /\ pos0 \in [Legs -> Int]
      /\ leg \in plan.legs /\ leg \in Legs /\ asked \in Nat
      /\ looks \in 0 .. Rechecks
  BY DEF SaleIInv, Shape, TypeOK
<1>4. /\ before[leg] = pos0[leg] /\ pos[leg] <= led[leg]
      /\ pos0[leg] - pos[leg] <= asked
  BY <1>2, <1>3 DEF SaleIInv, AccountInv, Undisturbed, Gone
<1>5. CASE LookAgain(v)
  <2>1. UNCHANGED <<pc, leg, asked, sold, status>>
    BY <1>1, <1>5
  <2> QED BY <1>2, <2>1 DEF ToldInv, Selling, SaleReportMatchesAccount, Gone
<1>6. CASE ~LookAgain(v)
  <2> DEFINE n == SoldBy(v)
  <2>1. Told(n)
    BY <1>1, <1>6
  <2>2. n \in 0 .. asked \cup {Unread}
    BY DEF SoldBy
  <2>3. n # Unread => n = pos0[leg] - pos'[leg]
    <3> SUFFICES ASSUME n # Unread PROVE n = pos0[leg] - pos[leg]
      BY <1>2
    <3>1. v # Unread /\ n = pos0[leg] - v
      BY <1>4 DEF SoldBy
    <3>2. v = pos[leg] \/ (v = led[leg] /\ looks <= Lag)
      BY <1>3, <3>1, SaleAssumption DEF Readings
    <3>3. pos0[leg] - v >= asked \/ looks >= Rechecks
      BY <1>3, <1>4, <1>6, <3>1, <3>2 DEF LookAgain
    <3>4. looks >= Rechecks => ~(looks <= Lag)
      BY <1>2, <1>3, SaleAssumption DEF Undisturbed
    <3>5. v = pos[leg]
      BY <1>3, <1>4, <3>2, <3>3, <3>4
    <3> QED BY <3>1, <3>5
  <2>4. pos' \in [Legs -> Int] /\ \A l \in Legs : l # leg => pos'[l] = pos[l]
    BY <1>2, <1>3
  <2> HIDE DEF n
  <2> QED BY <1>2, <2>1, <2>2, <2>3, <2>4, ToldReport DEF SaleIInv
<1> QED BY <1>5, <1>6

\* Every step keeps both invariants.
LEMMA ToldStep == SaleIInv /\ ToldInv /\ [Next]_vars => ToldInv'
<1> SUFFICES ASSUME SaleIInv, ToldInv, [Next]_vars PROVE ToldInv'
  OBVIOUS
<1>1. CASE UNCHANGED vars
  BY <1>1 DEF vars, ToldInv, Undisturbed, Selling, SaleReportMatchesAccount, Gone
<1>2. CASE Finished
  BY <1>2 DEF Finished, vars, ToldInv, Undisturbed, Selling, SaleReportMatchesAccount, Gone
<1>3. CASE OutsideTrade
  <2>1. outside' = outside + 1 /\ outside \in Nat
    BY <1>3 DEF OutsideTrade, SaleIInv, Shape
  <2> QED BY <2>1 DEF ToldInv, Undisturbed
<1> QED BY <1>1, <1>2, <1>3, RefuseTold, ReadHoldingsTold, SendTold, RaiseTold, AskTold DEF Next

\* A finished sale reports just what happened to the account, when nobody else
\* traded and the ledger is no later than _contracts_sold's re-reads allow for,
\* whatever replies and readings were lost.
THEOREM SaleReportIsTrue == Spec => []SaleReportMatchesAccount
<1>1. Init => SaleIInv /\ ToldInv
  BY InitInv, InitToldInv
<1>2. SaleIInv /\ ToldInv /\ [Next]_vars => (SaleIInv /\ ToldInv)'
  BY StepInv, ToldStep
<1>3. ToldInv => SaleReportMatchesAccount
  BY DEF ToldInv, Undisturbed, SaleReportMatchesAccount
<1> QED BY <1>1, <1>2, <1>3, PTL DEF Spec

-----------------------------------------------------------------------------
(***************************************************************************)
(* The one-cent probe that precedes all real orders, PairSale's among them. *)
(* Probe as Funds has it, for any size of its order.                        *)
(***************************************************************************)
Kinds == {"error", "not an object", "no counts", "killed", "counts"}
Answer == [kind : Kinds, fill : 0 .. Count, left : 0 .. Count]
Where  == {"source", "to dest", "dest", "to source"}
Before == {"start", "sent", "opened", "closed", "out", "back"}

\* The side of a step's first order, and of the order that closes what it opened.
Opens  == IF step = "yes-close" THEN "bid" ELSE "ask"
Closes == IF step = "yes-close" THEN "ask" ELSE "bid"

\* The position a probe that may go on holds: short for a NO, long for a YES.
Stake == IF step = "yes-close" THEN Count ELSE -Count

ProbeShape ==
    /\ step \in Q!OrderSteps \cup {"transfer"} /\ world \in Q!Worlds
    /\ phase \in Before \cup {"done"}
    /\ position \in Int /\ opened \in Int /\ cent \in Where
    /\ phase \in Before => outcome = None
    /\ phase \in {"start", "sent", "opened", "closed"} => cent = "source"

AtStart == phase = "start" => position = 0 /\ shown = 0 /\ opened = 0

\* A kill, and a reply with counts, are true; the position shown is still flat.
AtSent ==
    phase = "sent" =>
        /\ step \in Q!OrderSteps /\ shown = 0 /\ opened = 0 /\ reply \in Answer
        /\ Q!Size(position) <= Count
        /\ reply.kind = "killed" => position = 0
        /\ reply.kind = "counts" /\ reply.fill = 0 => position = 0
        /\ reply.kind = "counts" /\ reply.fill = Count => position = world[Opens] * Count

\* Only a mapping found right is traded on, with the whole order filled.
AtOpened ==
    phase \in {"opened", "closed"} =>
        /\ step \in {"no-mapping", "yes-close"}
        /\ opened = Stake /\ shown = opened /\ opened = world[Opens] * Count

HoldsStill == phase = "opened" => position = opened

\* The closing order can only take the position to flat, unless it opens more.
AtClosed ==
    phase = "closed" =>
        /\ reply \in Answer
        /\ position = 0 => world[Closes] = -world[Opens]
        /\ Q!Size(position) <= Count \/ (~world.reduce /\ world.bid = world.ask)

AtTransfer ==
    /\ phase \in {"out", "back"} => step = "transfer" /\ position = 0
    /\ phase = "out" => cent \in {"to dest", "dest"}
    /\ phase = "back" => cent \in {"to source", "source"}

ProbeTells == Q!VerdictIsTrue /\ Q!OpenIsTold /\ Q!OneCentAtStake

ProbeInv ==
    /\ ProbeShape /\ AtStart /\ AtSent /\ AtOpened /\ HoldsStill /\ AtClosed
    /\ AtTransfer /\ ProbeTells

-----------------------------------------------------------------------------
LEMMA ProbeStarts == Q!ProbeAssumption /\ Q!Init => ProbeInv
<1> SUFFICES ASSUME Q!ProbeAssumption, Q!Init PROVE ProbeInv
  OBVIOUS
<1>1. ProbeShape
  BY DEF Q!Init, ProbeShape, Before, Where, Q!OrderSteps
<1>2. AtStart /\ AtSent /\ AtOpened /\ HoldsStill /\ AtClosed /\ AtTransfer
  BY DEF Q!Init, AtStart, AtSent, AtOpened, HoldsStill, AtClosed, AtTransfer
<1>3. Q!VerdictIsTrue /\ Q!OpenIsTold
  BY DEF Q!Init, Q!VerdictIsTrue, Q!OpenIsTold, Q!ProbeAssumption, Q!Verdicts
<1>4. Q!OneCentAtStake
  BY DEF Q!Init, Q!OneCentAtStake, Q!Size, Q!ProbeAssumption
<1> QED BY <1>1, <1>2, <1>3, <1>4 DEF ProbeInv, ProbeTells

\* A step that ends says what is true of the account as it leaves it.
LEMMA EndTells ==
    ASSUME Q!ProbeAssumption, ProbeInv, UNCHANGED Q!account,
           NEW o \in {"PASS", "NEUTRAL", "FAIL"}, NEW t \in BOOLEAN, Q!End(o, t),
           o \in {"PASS", "NEUTRAL"} => position = 0 /\ cent = "source",
           o = "PASS" => Q!VerdictIsTrue',
           position # 0 \/ cent # "source" => t \/ Q!SaysNothing,
           Q!OneCentAtStake'
    PROVE  ProbeInv'
<1>1. /\ phase' = "done" /\ outcome' = o /\ told' = t /\ step' = step
      /\ world' = world /\ position' = position /\ shown' = shown
      /\ reply' = reply /\ opened' = opened /\ cent' = cent
  BY DEF Q!End, Q!account
<1>2. ProbeShape'
  BY <1>1 DEF ProbeInv, ProbeShape, Before
<1>3. AtStart' /\ AtSent' /\ AtOpened' /\ HoldsStill' /\ AtClosed' /\ AtTransfer'
  BY <1>1 DEF AtStart, AtSent, AtOpened, HoldsStill, AtClosed, AtTransfer
<1>4. Q!VerdictIsTrue'
  BY <1>1 DEF Q!VerdictIsTrue
<1>5. Q!OpenIsTold'
  BY <1>1 DEF Q!OpenIsTold, Q!SaysNothing
<1> QED BY <1>2, <1>3, <1>4, <1>5 DEF ProbeInv, ProbeTells

\* In the states before the end the three properties ask for little.
LEMMA BeforeEnd ==
    ASSUME Q!ProbeAssumption, ProbeShape, phase \in Before PROVE Q!VerdictIsTrue /\ Q!OpenIsTold
BY DEF ProbeShape, Q!VerdictIsTrue, Q!OpenIsTold, Q!ProbeAssumption, Before, Q!Verdicts

-----------------------------------------------------------------------------
\* What readings say: flat only when it is so, once the account has shown the
\* position or an empty one is no wonder.
LEMMA FlatIsTrue ==
    ASSUME Q!ProbeAssumption, position \in Int, shown # 0 \/ position = 0,
           NEW a \in Q!AfterKill, Q!Flat(a)
    PROVE  position = 0
BY DEF Q!AfterKill, Q!AgainIf, Q!Reads, Q!Fresh, Q!NotRead, Q!Flat, Q!ProbeAssumption

LEMMA RecheckIsTrue ==
    ASSUME Q!ProbeAssumption, position \in Int, NEW a \in Q!Reads, NEW b \in Q!Recheck(a), Q!Flat(b)
    PROVE  position = 0
BY DEF Q!Recheck, Q!Unknown, Q!NotRead, Q!Fresh, Q!Flat, Q!ProbeAssumption

LEMMA ShownIsHeld ==
    ASSUME shown = 0, NEW a \in Q!AfterBuy, ~Q!Unknown(a), a # 0
    PROVE  a = position
BY DEF Q!AfterBuy, Q!AgainIf, Q!Reads, Q!Fresh, Q!Unknown, Q!NotRead

LEMMA WorldsWays ==
    ASSUME world \in Q!Worlds PROVE world["ask"] \in {-1, 1} /\ world["bid"] \in {-1, 1}
BY DEF Q!Worlds

\* What an order can do, and what its reply says of it.
LEMMA OrderDoes ==
    ASSUME Q!ProbeAssumption, NEW o, Q!Submit(o)
    PROVE  \E f \in 0 .. Count :
              /\ position' = position + world[o.side] * f
              /\ o.reduce /\ world.reduce =>
                    Q!Size(position + world[o.side] * f) = Q!Size(position) - f
              /\ reply' \in Answer
              /\ reply'.kind = "killed" => f = 0
              /\ reply'.kind = "counts" => reply'.fill = f
<1>1. PICK f \in Q!Fills(o) : \E r \in Q!Replies(o, f) :
          position' = position + world[o.side] * f /\ reply' = r
  BY DEF Q!Submit
<1>2. PICK r \in Q!Replies(o, f) : position' = position + world[o.side] * f /\ reply' = r
  BY <1>1
<1>3. /\ f \in 0 .. Count
      /\ o.reduce /\ world.reduce =>
            Q!Size(position + world[o.side] * f) = Q!Size(position) - f
  BY DEF Q!Fills
<1>4. Count \in Nat /\ 0 \in 0 .. Count /\ Count - f \in 0 .. Count
  BY <1>3 DEF Q!ProbeAssumption
<1>5. \/ \E k \in {"error", "not an object", "no counts"} : r = [kind |-> k, fill |-> 0, left |-> 0]
      \/ f = 0 /\ r = [kind |-> "killed", fill |-> 0, left |-> 0]
      \/ \E l \in 0 .. Count : r = [kind |-> "counts", fill |-> f, left |-> l]
  BY <1>4 DEF Q!Replies
<1>6. r \in Answer /\ (r.kind = "killed" => f = 0) /\ (r.kind = "counts" => r.fill = f)
  <2>1. CASE \E k \in {"error", "not an object", "no counts"} : r = [kind |-> k, fill |-> 0, left |-> 0]
    <3>1. PICK k \in {"error", "not an object", "no counts"} : r = [kind |-> k, fill |-> 0, left |-> 0]
      BY <2>1
    <3>2. k \in Kinds /\ k # "killed" /\ k # "counts"
      BY DEF Kinds
    <3> QED BY <3>1, <3>2, <1>4 DEF Answer
  <2>2. CASE f = 0 /\ r = [kind |-> "killed", fill |-> 0, left |-> 0]
    BY <2>2, <1>4 DEF Answer, Kinds
  <2>3. CASE \E l \in 0 .. Count : r = [kind |-> "counts", fill |-> f, left |-> l]
    BY <2>3, <1>3 DEF Answer, Kinds
  <2> QED BY <1>5, <2>1, <2>2, <2>3
<1> QED BY <1>2, <1>3, <1>6

\* A step's first order.
LEMMA FirstOrder ==
    ASSUME Q!ProbeAssumption, ProbeInv, phase = "start", step \in Q!OrderSteps,
           NEW o, o.side = Opens, Q!SendFirst(o)
    PROVE  ProbeInv'
<1>1. /\ step' = step /\ world' = world /\ shown' = shown /\ opened' = opened /\ cent' = cent
      /\ outcome' = outcome /\ told' = told /\ phase' = "sent" /\ Q!Submit(o)
  BY DEF Q!SendFirst
<1>2. position = 0 /\ shown = 0 /\ opened = 0 /\ cent = "source" /\ outcome = None
  BY DEF ProbeInv, ProbeShape, AtStart, Before
<1>3. PICK f \in 0 .. Count :
              /\ position' = position + world[o.side] * f
              /\ reply' \in Answer
              /\ reply'.kind = "killed" => f = 0
              /\ reply'.kind = "counts" => reply'.fill = f
  BY <1>1, OrderDoes
<1>4. world[Opens] \in {-1, 1} /\ Count \in Nat \ {0}
  BY WorldsWays DEF ProbeInv, ProbeShape, Opens, Q!ProbeAssumption
<1>5. position' \in Int /\ Q!Size(position') <= Count /\ position' = world[Opens] * f
  <2>1. CASE world[Opens] = 1
    BY <1>2, <1>3, <1>4, <2>1 DEF Q!Size
  <2>2. CASE world[Opens] = -1
    BY <1>2, <1>3, <1>4, <2>2 DEF Q!Size
  <2> QED BY <1>4, <2>1, <2>2
<1>6. f = 0 => position' = 0
  BY <1>4, <1>5
<1>7. ProbeShape'
  BY <1>1, <1>5 DEF ProbeInv, ProbeShape, Before
<1>8. AtSent'
  BY <1>1, <1>2, <1>3, <1>4, <1>5, <1>6 DEF AtSent, Opens
<1>9. AtStart' /\ AtOpened' /\ HoldsStill' /\ AtClosed' /\ AtTransfer'
  BY <1>1 DEF AtStart, AtOpened, HoldsStill, AtClosed, AtTransfer
<1>10. outcome' = None /\ cent' = "source"
  BY <1>1, <1>2
<1>11. Q!VerdictIsTrue' /\ Q!OpenIsTold' /\ Q!OneCentAtStake'
  BY <1>5, <1>10 DEF Q!VerdictIsTrue, Q!OpenIsTold, Q!OneCentAtStake, Q!ProbeAssumption, Q!Verdicts
<1> QED BY <1>7, <1>8, <1>9, <1>11 DEF ProbeInv, ProbeTells

\* Refused before anything was sent, by main, the market or the operator.
LEMMA Declined ==
    ASSUME Q!ProbeAssumption, ProbeInv, phase = "start", UNCHANGED Q!account,
           NEW o \in {"NEUTRAL", "FAIL"}, Q!End(o, FALSE)
    PROVE  ProbeInv'
<1>1. position = 0 /\ cent = "source"
  BY DEF ProbeInv, ProbeShape, AtStart
<1>2. Q!OneCentAtStake'
  BY <1>1 DEF Q!OneCentAtStake, Q!Size, Q!ProbeAssumption, Q!account
<1>3. o \in {"PASS", "NEUTRAL", "FAIL"} /\ o # "PASS"
  OBVIOUS
<1> QED BY <1>1, <1>2, <1>3, EndTells

LEMMA StartsFlatStep ==
    ASSUME Q!ProbeAssumption, ProbeInv, phase = "start", step \in Q!OrderSteps,
           NEW start, NEW first, first.side = Opens, Q!StartsFlat(start, first)
    PROVE  ProbeInv'
BY Declined, FirstOrder DEF Q!StartsFlat

LEMMA FirstSides ==
    ASSUME TRUE
    PROVE  /\ step = "no-mapping" => Q!NoBuy.side = Opens
           /\ step = "unfillable-ask" => Q!TopAsk.side = Opens
           /\ step = "yes-close" => Q!YesBuy.side = Opens
BY DEF Q!NoBuy, Q!TopAsk, Q!YesBuy, Opens

LEMMA OpenSteps ==
    ASSUME Q!ProbeAssumption, ProbeInv,
           Q!Refuse \/ Q!NoMarket \/ Q!MappingOpen \/ Q!UnfillableOpen \/ Q!YesOpen
    PROVE  ProbeInv'
<1>1. CASE Q!Refuse
  BY <1>1, Declined DEF Q!Refuse
<1>2. CASE Q!NoMarket
  BY <1>2, Declined DEF Q!NoMarket
<1>3. CASE Q!MappingOpen
  <2>1. phase = "start" /\ step = "no-mapping" /\ step \in Q!OrderSteps
    BY <1>3 DEF Q!MappingOpen, Q!OrderSteps
  <2>2. Q!Leave \/ \E start \in Q!Starts : Q!StartsFlat(start, Q!NoBuy)
    BY <1>3 DEF Q!MappingOpen
  <2> QED BY <2>1, <2>2, Declined, StartsFlatStep, FirstSides DEF Q!Leave
<1>4. CASE Q!UnfillableOpen
  <2>1. phase = "start" /\ step = "unfillable-ask" /\ step \in Q!OrderSteps
    BY <1>4 DEF Q!UnfillableOpen, Q!OrderSteps
  <2>2. Q!Leave \/ \E start \in Q!Starts : Q!StartsFlat(start, Q!TopAsk)
    BY <1>4 DEF Q!UnfillableOpen
  <2> QED BY <2>1, <2>2, Declined, StartsFlatStep, FirstSides DEF Q!Leave
<1>5. CASE Q!YesOpen
  <2>1. phase = "start" /\ step = "yes-close" /\ step \in Q!OrderSteps
    BY <1>5 DEF Q!YesOpen, Q!OrderSteps
  <2>2. Q!Leave \/ \E start \in Q!Starts : Q!StartsFlat(start, Q!YesBuy)
    BY <1>5 DEF Q!YesOpen
  <2> QED BY <2>1, <2>2, Declined, StartsFlatStep, FirstSides DEF Q!Leave
<1> QED BY <1>1, <1>2, <1>3, <1>4, <1>5

-----------------------------------------------------------------------------
\* After the first order no more than the probe's own contracts are at stake.
LEMMA SentStakes ==
    ASSUME Q!ProbeAssumption, ProbeInv, phase = "sent", UNCHANGED Q!account
    PROVE  Q!OneCentAtStake' /\ cent = "source"
BY DEF ProbeInv, ProbeShape, AtSent, Q!OneCentAtStake, Q!Size, Q!account

\* It ends FAIL, telling of the position or of one it says nothing about.
LEMMA SentFails ==
    ASSUME Q!ProbeAssumption, ProbeInv, phase = "sent", UNCHANGED Q!account,
           NEW t \in BOOLEAN, Q!End("FAIL", t), position # 0 => t \/ Q!SaysNothing
    PROVE  ProbeInv'
BY SentStakes, EndTells

\* It ends as it should, or FAIL; nothing is open.
LEMMA SentFlat ==
    ASSUME Q!ProbeAssumption, ProbeInv, phase = "sent", UNCHANGED Q!account, position = 0,
           NEW t \in BOOLEAN, NEW o \in {"PASS", "NEUTRAL", "FAIL"}, Q!End(o, t),
           o = "PASS" => step = "unfillable-ask"
    PROVE  ProbeInv'
<1>1. Q!OneCentAtStake' /\ cent = "source"
  BY SentStakes
<1>2. o = "PASS" => Q!VerdictIsTrue'
  BY <1>1 DEF Q!VerdictIsTrue, Q!End, Q!account
<1> QED BY <1>1, <1>2, EndTells

LEMMA SentRechecks ==
    ASSUME Q!ProbeAssumption, ProbeInv, phase = "sent", UNCHANGED Q!account, Q!FailAndRecheck
    PROVE  ProbeInv'
<1>1. PICK a \in Q!Reads : \E b \in Q!Recheck(a) : Q!End("FAIL", ~Q!Flat(b))
  BY DEF Q!FailAndRecheck
<1>2. PICK b \in Q!Recheck(a) : Q!End("FAIL", ~Q!Flat(b))
  BY <1>1
<1>3. position # 0 => ~Q!Flat(b)
  BY RecheckIsTrue DEF ProbeInv, ProbeShape
<1>4. (~Q!Flat(b)) \in BOOLEAN
  OBVIOUS
<1> HIDE DEF Q!Flat
<1> QED BY <1>2, <1>3, <1>4, SentFails

\* A killed order leaves nothing open, whatever is read then.
LEMMA SentKilled ==
    ASSUME Q!ProbeAssumption, ProbeInv, phase = "sent", UNCHANGED Q!account, reply.kind = "killed",
           NEW a, NEW o \in {"PASS", "NEUTRAL"}, Q!End(IF Q!Flat(a) THEN o ELSE "FAIL", ~Q!Flat(a)),
           o = "PASS" => step = "unfillable-ask"
    PROVE  ProbeInv'
<1>1. position = 0
  BY DEF ProbeInv, AtSent
<1>2. CASE Q!Flat(a)
  <2>1. Q!End(o, FALSE)
    BY <1>2 DEF Q!End
  <2> QED BY <1>1, <2>1, SentFlat
<1>3. CASE ~Q!Flat(a)
  <2>1. Q!End("FAIL", TRUE)
    BY <1>3 DEF Q!End
  <2> QED BY <1>1, <2>1, SentFlat
<1> QED BY <1>2, <1>3

\* What a readable reply to the first order says of the position.
LEMMA CountsAreTrue ==
    ASSUME ProbeInv, phase = "sent", reply.kind = "counts"
    PROVE  /\ Q!Killed => position = 0
           /\ Q!Filled => position = world[Opens] * Count
BY DEF ProbeInv, AtSent, Q!Killed, Q!Filled

LEMMA ReplySteps ==
    ASSUME Q!ProbeAssumption, ProbeInv, Q!MappingReply \/ Q!YesReply \/ Q!UnfillableEnd
    PROVE  ProbeInv'
<1>1. CASE Q!MappingReply
  <2>1. phase = "sent" /\ step = "no-mapping" /\ UNCHANGED Q!account
    BY <1>1 DEF Q!MappingReply
  <2>2. CASE reply.kind = "error" /\ \E a \in Q!Reads : Q!End("FAIL", a \notin {None, 0})
    <3>1. PICK a \in Q!Reads : Q!End("FAIL", a \notin {None, 0})
      BY <2>2
    <3>2. (a \notin {None, 0}) \in BOOLEAN /\ Q!SaysNothing
      BY <2>1, <2>2 DEF Q!SaysNothing
    <3> QED BY <2>1, <3>1, <3>2, SentFails
  <2>3. CASE reply.kind = "killed" /\ \E a \in Q!AfterKill :
                Q!End(IF Q!Flat(a) THEN "NEUTRAL" ELSE "FAIL", ~Q!Flat(a))
    BY <2>1, <2>3, SentKilled
  <2>4. CASE Q!FailAndRecheck
    BY <2>1, <2>4, SentRechecks
  <2> QED BY <1>1, <2>2, <2>3, <2>4 DEF Q!MappingReply
<1>2. CASE Q!YesReply
  <2>1. phase = "sent" /\ step = "yes-close" /\ UNCHANGED Q!account
    BY <1>2 DEF Q!YesReply
  <2>2. CASE reply.kind = "killed" /\ \E a \in Q!AfterKill :
                Q!End(IF Q!Flat(a) THEN "NEUTRAL" ELSE "FAIL", ~Q!Flat(a))
    BY <2>1, <2>2, SentKilled
  <2>3. CASE Q!FailAndRecheck
    BY <2>1, <2>3, SentRechecks
  <2> QED BY <1>2, <2>2, <2>3 DEF Q!YesReply
<1>3. CASE Q!UnfillableEnd
  <2>1. phase = "sent" /\ step = "unfillable-ask" /\ UNCHANGED Q!account
    BY <1>3 DEF Q!UnfillableEnd
  <2>2. CASE reply.kind \in {"error", "no counts"} /\ Q!End("FAIL", FALSE)
    <3>1. Q!SaysNothing
      BY <2>1, <2>2 DEF Q!SaysNothing
    <3> QED BY <2>1, <2>2, <3>1, SentFails
  <2>3. CASE reply.kind = "killed" /\ \E a \in Q!AfterKill :
                Q!End(IF Q!Flat(a) THEN "PASS" ELSE "FAIL", ~Q!Flat(a))
    BY <2>1, <2>3, SentKilled
  <2>4. CASE Q!FailAndRecheck
    BY <2>1, <2>4, SentRechecks
  <2>5. CASE /\ reply.kind = "counts"
             /\ \E a \in Q!Reads : LET good == Q!Killed /\ a = 0
                                 IN  Q!End(IF good THEN "PASS" ELSE "FAIL", ~good)
    <3>1. PICK a \in Q!Reads : LET good == Q!Killed /\ a = 0
                             IN  Q!End(IF good THEN "PASS" ELSE "FAIL", ~good)
      BY <2>5
    <3>2. CASE Q!Killed /\ a = 0
      <4>1. position = 0
        BY <2>1, <2>5, <3>2, CountsAreTrue
      <4>2. Q!End("PASS", FALSE)
        BY <3>1, <3>2 DEF Q!End
      <4> QED BY <2>1, <4>1, <4>2, SentFlat
    <3>3. CASE ~(Q!Killed /\ a = 0)
      <4>1. Q!End("FAIL", TRUE)
        BY <3>1, <3>3 DEF Q!End
      <4> QED BY <2>1, <4>1, SentFails
    <3> QED BY <3>2, <3>3
  <2> QED BY <1>3, <2>2, <2>3, <2>4, <2>5 DEF Q!UnfillableEnd
<1> QED BY <1>1, <1>2, <1>3

\* The position read after a first order that filled: the stake.
LEMMA Proceeds ==
    ASSUME Q!ProbeAssumption, ProbeInv, phase = "sent", step \in {"no-mapping", "yes-close"},
           reply.kind = "counts", Q!Filled, NEW a \in Q!AfterBuy, ~Q!Unknown(a),
           step = "no-mapping" => a < 0, step = "yes-close" => a > 0,
           phase' = "opened", opened' = a, shown' = a,
           UNCHANGED <<step, world, position, reply, cent, outcome, told>>
    PROVE  ProbeInv'
<1>1. shown = 0 /\ position \in Int /\ Count \in Nat \ {0} /\ world[Opens] \in {-1, 1} /\ 0 \notin {None, NaN}
  BY WorldsWays DEF ProbeInv, AtSent, ProbeShape, Q!ProbeAssumption, Opens
<1>2. a \in {shown, position}
  BY DEF Q!AfterBuy, Q!AgainIf, Q!Reads, Q!Fresh, Q!Unknown, Q!NotRead
<1>3. a # 0
  BY <1>1, <1>2
<1>4. a = position
  BY <1>1, <1>2, <1>3
<1>5. position = world[Opens] * Count
  BY CountsAreTrue
<1>6. position = Stake
  <2>1. CASE world[Opens] = 1
    BY <1>1, <1>4, <1>5, <2>1 DEF Stake
  <2>2. CASE world[Opens] = -1
    BY <1>1, <1>4, <1>5, <2>2 DEF Stake
  <2> QED BY <1>1, <2>1, <2>2
<1>7. ProbeShape'
  BY <1>1, <1>4 DEF ProbeInv, ProbeShape, Before
<1>8. AtOpened' /\ HoldsStill'
  BY <1>4, <1>5, <1>6 DEF AtOpened, HoldsStill, Stake, Opens
<1>9. AtStart' /\ AtSent' /\ AtClosed' /\ AtTransfer'
  BY DEF AtStart, AtSent, AtClosed, AtTransfer
<1>10. outcome' = None /\ Q!Size(position') <= Count
  BY DEF ProbeInv, ProbeShape, Before, AtSent
<1>11. Q!VerdictIsTrue' /\ Q!OpenIsTold' /\ Q!OneCentAtStake'
  BY <1>10 DEF Q!VerdictIsTrue, Q!OpenIsTold, Q!OneCentAtStake, Q!ProbeAssumption, Q!Verdicts
<1> QED BY <1>7, <1>8, <1>9, <1>11 DEF ProbeInv, ProbeTells

\* What both steps do when the first order was killed.
LEMMA NothingOpened ==
    ASSUME Q!ProbeAssumption, ProbeInv, phase = "sent", reply.kind = "counts", Q!Killed, NEW a,
           Q!End(IF a = 0 THEN "NEUTRAL" ELSE "FAIL", a # 0), UNCHANGED Q!account
    PROVE  ProbeInv'
<1>1. position = 0
  BY CountsAreTrue
<1>2. CASE a = 0
  BY <1>1, <1>2, SentFlat DEF Q!End
<1>3. CASE a # 0
  BY <1>1, <1>3, SentFlat DEF Q!End
<1> QED BY <1>2, <1>3

LEMMA VerdictSteps ==
    ASSUME Q!ProbeAssumption, ProbeInv, Q!MappingVerdict \/ Q!YesVerdict PROVE ProbeInv'
<1>1. CASE Q!MappingVerdict
  <2>1. phase = "sent" /\ step = "no-mapping" /\ reply.kind = "counts"
    BY <1>1 DEF Q!MappingVerdict
  <2>2. PICK a \in Q!AfterBuy :
        \/ ~Q!Conforming /\ Q!End("FAIL", TRUE) /\ UNCHANGED Q!account
        \/ Q!Killed /\ Q!End(IF a = 0 THEN "NEUTRAL" ELSE "FAIL", a # 0) /\ UNCHANGED Q!account
        \/ Q!Filled /\ ~Q!OpenedNo(a) /\ Q!End("FAIL", TRUE) /\ UNCHANGED Q!account
        \/ /\ Q!Filled /\ Q!OpenedNo(a)
           /\ phase' = "opened" /\ opened' = a /\ shown' = a
           /\ UNCHANGED <<step, world, position, reply, cent, outcome, told>>
    BY <1>1 DEF Q!MappingVerdict
  <2> QED BY <2>1, <2>2, SentFails, NothingOpened, Proceeds DEF Q!OpenedNo
<1>2. CASE Q!YesVerdict
  <2>1. phase = "sent" /\ step = "yes-close" /\ reply.kind = "counts"
    BY <1>2 DEF Q!YesVerdict
  <2>2. PICK a \in Q!AfterBuy :
        \/ ~Q!Conforming /\ Q!End("FAIL", TRUE) /\ UNCHANGED Q!account
        \/ Q!Killed /\ Q!End(IF a = 0 THEN "NEUTRAL" ELSE "FAIL", a # 0) /\ UNCHANGED Q!account
        \/ Q!Filled /\ ~Q!OpenedYes(a) /\ Q!End("FAIL", TRUE) /\ UNCHANGED Q!account
        \/ /\ Q!Filled /\ Q!OpenedYes(a)
           /\ phase' = "opened" /\ opened' = a /\ shown' = a
           /\ UNCHANGED <<step, world, position, reply, cent, outcome, told>>
    BY <1>2 DEF Q!YesVerdict
  <2> QED BY <2>1, <2>2, SentFails, NothingOpened, Proceeds DEF Q!OpenedYes
<1> QED BY <1>1, <1>2

-----------------------------------------------------------------------------
\* The closing order.
LEMMA StakeIs ==
    ASSUME Q!ProbeAssumption, ProbeInv, phase \in {"opened", "closed"}
    PROVE  /\ step \in {"no-mapping", "yes-close"}
           /\ opened = Stake /\ shown = opened /\ opened # 0 /\ opened \in Int
           /\ step = "no-mapping" => opened = -Count /\ world.ask = -1
           /\ step = "yes-close" => opened = Count /\ world.bid = 1
           /\ cent = "source" /\ outcome = None
<1>1. /\ step \in {"no-mapping", "yes-close"}
      /\ opened = Stake /\ shown = opened /\ opened = world[Opens] * Count
      /\ cent = "source" /\ outcome = None
  BY DEF ProbeInv, ProbeShape, AtOpened, Before
<1>2. Count \in Nat \ {0} /\ world["ask"] \in {-1, 1} /\ world["bid"] \in {-1, 1}
  BY WorldsWays DEF Q!ProbeAssumption, ProbeInv, ProbeShape
<1>3. CASE step = "no-mapping"
  <2>1. opened = -Count /\ opened = world["ask"] * Count
    BY <1>1, <1>3 DEF Stake, Opens
  <2>2. world["ask"] # 1
    BY <1>2, <2>1
  <2> QED BY <1>1, <1>2, <1>3, <2>1, <2>2
<1>4. CASE step = "yes-close"
  <2>1. opened = Count /\ opened = world["bid"] * Count
    BY <1>1, <1>4 DEF Stake, Opens
  <2>2. world["bid"] # -1
    BY <1>2, <2>1
  <2> QED BY <1>1, <1>2, <1>4, <2>1, <2>2
<1> QED BY <1>1, <1>3, <1>4

LEMMA CloseDeclined ==
    ASSUME Q!ProbeAssumption, ProbeInv, phase = "opened", Q!End("FAIL", TRUE), UNCHANGED Q!account
    PROVE  ProbeInv'
<1>1. Q!Size(position) <= Count
  BY StakeIs DEF ProbeInv, HoldsStill, Q!Size, Q!ProbeAssumption
<1>2. Q!OneCentAtStake'
  BY <1>1 DEF Q!OneCentAtStake, Q!account
<1> QED BY <1>2, EndTells

LEMMA CloseSent ==
    ASSUME Q!ProbeAssumption, ProbeInv, phase = "opened", NEW o, o.side = Closes, o.reduce = TRUE,
           Q!Submit(o), phase' = "closed", UNCHANGED <<step, world, shown, opened, cent, outcome, told>>
    PROVE  ProbeInv'
<1>1. PICK f \in 0 .. Count :
              /\ position' = position + world[o.side] * f
              /\ o.reduce /\ world.reduce =>
                    Q!Size(position + world[o.side] * f) = Q!Size(position) - f
              /\ reply' \in Answer
  BY OrderDoes
<1>2. /\ step \in {"no-mapping", "yes-close"} /\ position = opened /\ opened \in Int
      /\ step = "no-mapping" => opened = -Count /\ world.ask = -1
      /\ step = "yes-close" => opened = Count /\ world.bid = 1
      /\ cent = "source" /\ outcome = None
  BY StakeIs DEF ProbeInv, HoldsStill
<1>3. /\ Count \in Nat \ {0} /\ f \in Nat /\ f <= Count
      /\ world["ask"] \in {-1, 1} /\ world["bid"] \in {-1, 1}
  BY WorldsWays DEF Q!ProbeAssumption, ProbeInv, ProbeShape
<1>4. world[Closes] \in {-1, 1} /\ world[Opens] \in {-1, 1}
  BY <1>3 DEF Closes, Opens
<1>5. /\ position' \in Int
      /\ position' = 0 => world[Closes] = -world[Opens]
      /\ Q!Size(position') <= Count \/ (~world.reduce /\ world.bid = world.ask)
  <2>1. CASE step = "no-mapping"
    <3>1. o.side = "bid" /\ Closes = "bid" /\ Opens = "ask"
      BY <2>1 DEF Closes, Opens
    <3>2. CASE world["bid"] = 1
      <4>1. position' = f - Count
        BY <1>1, <1>2, <1>3, <2>1, <3>1, <3>2
      <4> QED BY <4>1, <1>2, <1>3, <2>1, <3>1, <3>2 DEF Q!Size
    <3>3. CASE world["bid"] = -1
      <4>1. position' = -Count - f
        BY <1>1, <1>2, <1>3, <2>1, <3>1, <3>3
      <4>2. world.reduce => Q!Size(position') = Q!Size(position) - f
        BY <1>1
      <4> QED BY <4>1, <4>2, <1>2, <1>3, <2>1, <3>3 DEF Q!Size
    <3> QED BY <1>3, <3>2, <3>3
  <2>2. CASE step = "yes-close"
    <3>1. o.side = "ask" /\ Closes = "ask" /\ Opens = "bid"
      BY <2>2 DEF Closes, Opens
    <3>2. CASE world["ask"] = -1
      <4>1. position' = Count - f
        BY <1>1, <1>2, <1>3, <2>2, <3>1, <3>2
      <4> QED BY <4>1, <1>2, <1>3, <2>2, <3>1, <3>2 DEF Q!Size
    <3>3. CASE world["ask"] = 1
      <4>1. position' = Count + f
        BY <1>1, <1>2, <1>3, <2>2, <3>1, <3>3
      <4>2. world.reduce => Q!Size(position') = Q!Size(position) - f
        BY <1>1
      <4> QED BY <4>1, <4>2, <1>2, <1>3, <2>2, <3>3 DEF Q!Size
    <3> QED BY <1>3, <3>2, <3>3
  <2> QED BY <1>2, <2>1, <2>2
<1>6. ProbeShape'
  BY <1>5 DEF ProbeInv, ProbeShape, Before
<1>7. AtOpened' /\ HoldsStill'
  BY DEF ProbeInv, AtOpened, HoldsStill, Stake, Opens
<1>8. AtClosed'
  BY <1>1, <1>5 DEF AtClosed, Closes, Opens
<1>9. AtStart' /\ AtSent' /\ AtTransfer'
  BY DEF AtStart, AtSent, AtTransfer
<1>10. Q!VerdictIsTrue' /\ Q!OpenIsTold'
  BY <1>2 DEF Q!VerdictIsTrue, Q!OpenIsTold, Q!ProbeAssumption, Q!Verdicts
<1>11. Q!OneCentAtStake'
  BY <1>2, <1>5 DEF Q!OneCentAtStake
<1> QED BY <1>6, <1>7, <1>8, <1>9, <1>10, <1>11 DEF ProbeInv, ProbeTells

LEMMA CloseSteps ==
    ASSUME Q!ProbeAssumption, ProbeInv, Q!MappingClose \/ Q!YesCloses PROVE ProbeInv'
<1>1. CASE Q!MappingClose
  <2>1. phase = "opened" /\ Q!NoClose.side = Closes /\ Q!NoClose.reduce = TRUE /\ Q!SendClose(Q!NoClose)
    BY <1>1 DEF Q!MappingClose, Q!NoClose, Closes
  <2> QED BY <2>1, CloseDeclined, CloseSent DEF Q!SendClose
<1>2. CASE Q!YesCloses
  <2>1. phase = "opened" /\ Q!YesClose.side = Closes /\ Q!YesClose.reduce = TRUE /\ Q!SendClose(Q!YesClose)
    BY <1>2 DEF Q!YesCloses, Q!YesClose, Closes
  <2> QED BY <2>1, CloseDeclined, CloseSent DEF Q!SendClose
<1> QED BY <1>1, <1>2

\* The end of a step that sent its closing order.
LEMMA ClosedStakes ==
    ASSUME Q!ProbeAssumption, ProbeInv, phase = "closed", UNCHANGED Q!account,
           NEW o, NEW t, Q!End(o, t)
    PROVE  Q!OneCentAtStake'
<1>1. Q!Size(position) <= Count \/ (~world.reduce /\ world.bid = world.ask)
  BY DEF ProbeInv, AtClosed
<1> QED BY <1>1, StakeIs DEF Q!OneCentAtStake, Q!account, Q!End

LEMMA ClosedFails ==
    ASSUME Q!ProbeAssumption, ProbeInv, phase = "closed", UNCHANGED Q!account, Q!End("FAIL", TRUE)
    PROVE  ProbeInv'
BY ClosedStakes, EndTells

LEMMA ClosedFlat ==
    ASSUME Q!ProbeAssumption, ProbeInv, phase = "closed", UNCHANGED Q!account,
           NEW a \in Q!AfterKill, Q!Flat(a), NEW o \in {"PASS", "FAIL"}, Q!End(o, FALSE),
           o = "PASS" /\ step = "yes-close" => Q!SaleReported
    PROVE  ProbeInv'
<1>1. /\ step \in {"no-mapping", "yes-close"} /\ shown # 0 /\ position \in Int /\ cent = "source"
      /\ step = "no-mapping" => opened = -Count /\ world.ask = -1
      /\ step = "yes-close" => opened = Count /\ world.bid = 1
  BY StakeIs DEF ProbeInv, ProbeShape
<1>2. position = 0
  BY <1>1, FlatIsTrue
<1>3. world[Closes] = -world[Opens]
  BY <1>2 DEF ProbeInv, AtClosed
<1>4. /\ step = "no-mapping" => world.bid = 1 /\ opened < 0
      /\ step = "yes-close" => world.ask = -1 /\ opened > 0
  BY <1>1, <1>3 DEF Closes, Opens, Q!ProbeAssumption
<1>5. o = "PASS" => Q!VerdictIsTrue'
  BY <1>1, <1>2, <1>4 DEF Q!VerdictIsTrue, Q!End, Q!account, Q!SaleReported
<1>6. Q!OneCentAtStake'
  BY ClosedStakes
<1> QED BY <1>1, <1>2, <1>5, <1>6, EndTells

LEMMA EndSteps ==
    ASSUME Q!ProbeAssumption, ProbeInv, Q!MappingEnd \/ Q!YesEnd PROVE ProbeInv'
<1>1. CASE Q!MappingEnd
  <2>1. phase = "closed" /\ step = "no-mapping" /\ UNCHANGED Q!account
    BY <1>1 DEF Q!MappingEnd
  <2>2. CASE Q!End("FAIL", TRUE)
    BY <2>1, <2>2, ClosedFails
  <2>3. CASE \E final \in Q!AfterKill : Q!End(IF Q!Flat(final) THEN "PASS" ELSE "FAIL", ~Q!Flat(final))
    <3>1. PICK final \in Q!AfterKill : Q!End(IF Q!Flat(final) THEN "PASS" ELSE "FAIL", ~Q!Flat(final))
      BY <2>3
    <3>2. CASE Q!Flat(final)
      <4>1. Q!End("PASS", FALSE)
        BY <3>1, <3>2 DEF Q!End
      <4> QED BY <2>1, <3>2, <4>1, ClosedFlat
    <3>3. CASE ~Q!Flat(final)
      <4>1. Q!End("FAIL", TRUE)
        BY <3>1, <3>3 DEF Q!End
      <4> QED BY <2>1, <4>1, ClosedFails
    <3> QED BY <3>2, <3>3
  <2> QED BY <1>1, <2>2, <2>3 DEF Q!MappingEnd
<1>2. CASE Q!YesEnd
  <2>1. phase = "closed" /\ step = "yes-close" /\ UNCHANGED Q!account
    BY <1>2 DEF Q!YesEnd
  <2>2. CASE Q!End("FAIL", TRUE)
    BY <2>1, <2>2, ClosedFails
  <2>3. CASE \E final \in Q!AfterKill :
                Q!End(IF Q!Flat(final) /\ Q!SaleReported THEN "PASS" ELSE "FAIL", ~Q!Flat(final))
    <3>1. PICK final \in Q!AfterKill :
                Q!End(IF Q!Flat(final) /\ Q!SaleReported THEN "PASS" ELSE "FAIL", ~Q!Flat(final))
      BY <2>3
    <3>2. CASE Q!Flat(final) /\ Q!SaleReported
      <4>1. Q!End("PASS", FALSE)
        BY <3>1, <3>2 DEF Q!End
      <4> QED BY <2>1, <3>2, <4>1, ClosedFlat
    <3>3. CASE Q!Flat(final) /\ ~Q!SaleReported
      <4>1. Q!End("FAIL", FALSE)
        BY <3>1, <3>3 DEF Q!End
      <4> QED BY <2>1, <3>3, <4>1, ClosedFlat
    <3>4. CASE ~Q!Flat(final)
      <4>1. Q!End("FAIL", TRUE)
        BY <3>1, <3>4 DEF Q!End
      <4> QED BY <2>1, <4>1, ClosedFails
    <3> QED BY <3>2, <3>3, <3>4
  <2> QED BY <1>2, <2>2, <2>3 DEF Q!YesEnd
<1> QED BY <1>1, <1>2

-----------------------------------------------------------------------------
\* The cent.
LEMMA TransferFails ==
    ASSUME Q!ProbeAssumption, ProbeInv, position = 0, cent' \in Where,
           phase' = "done", outcome' = "FAIL", told' = TRUE,
           UNCHANGED <<step, world, position, shown, reply, opened>>
    PROVE  ProbeInv'
<1>1. ProbeShape'
  BY DEF ProbeInv, ProbeShape, Before
<1>2. AtStart' /\ AtSent' /\ AtOpened' /\ HoldsStill' /\ AtClosed' /\ AtTransfer'
  BY DEF AtStart, AtSent, AtOpened, HoldsStill, AtClosed, AtTransfer
<1>3. Q!VerdictIsTrue' /\ Q!OpenIsTold'
  BY DEF Q!VerdictIsTrue, Q!OpenIsTold
<1>4. Q!OneCentAtStake'
  BY DEF Q!OneCentAtStake, Q!Size, Q!ProbeAssumption
<1> QED BY <1>1, <1>2, <1>3, <1>4 DEF ProbeInv, ProbeTells

LEMMA NoneAtStake ==
    ASSUME Q!ProbeAssumption PROVE 0 <= Count /\ Q!Size(0) = 0
BY DEF Q!Size, Q!ProbeAssumption

LEMMA TransferGoes ==
    ASSUME Q!ProbeAssumption, ProbeInv, position = 0, outcome = None, step = "transfer",
           \/ phase' = "out" /\ cent' \in {"to dest", "dest"}
           \/ phase' = "back" /\ cent' \in {"to source", "source"},
           UNCHANGED <<step, world, position, shown, reply, opened, outcome, told>>
    PROVE  ProbeInv'
<1>1. ProbeShape'
  BY DEF ProbeInv, ProbeShape, Before, Where
<1>2. AtStart' /\ AtSent' /\ AtOpened' /\ HoldsStill' /\ AtClosed' /\ AtTransfer'
  BY DEF AtStart, AtSent, AtOpened, HoldsStill, AtClosed, AtTransfer
<1>3. Q!VerdictIsTrue' /\ Q!OpenIsTold'
  BY DEF Q!VerdictIsTrue, Q!OpenIsTold, Q!ProbeAssumption, Q!Verdicts
<1>4. Q!Size(position') <= Count
  <2>1. position' = 0
    OBVIOUS
  <2>2. 0 <= Count /\ Q!Size(0) = 0
    BY NoneAtStake
  <2> QED BY <2>1, <2>2
<1>5. Q!OneCentAtStake'
  BY <1>4 DEF Q!OneCentAtStake
<1> QED BY <1>1, <1>2, <1>3, <1>5 DEF ProbeInv, ProbeTells

LEMMA TransferSteps ==
    ASSUME Q!ProbeAssumption, ProbeInv, Q!TransferOut \/ Q!TransferBack \/ Q!TransferEnd
    PROVE  ProbeInv'
<1>1. CASE Q!TransferOut
  <2>1. phase = "start" /\ step = "transfer" /\ position = 0 /\ outcome = None
    BY <1>1 DEF Q!TransferOut, ProbeInv, AtStart, ProbeShape, Before
  <2>2. CASE Q!End("NEUTRAL", FALSE) /\ UNCHANGED Q!account
    BY <2>1, <2>2, Declined
  <2>3. CASE /\ Q!TransferLeg("source", "to dest", "out")
             /\ UNCHANGED <<step, world, position, shown, reply, opened>>
    BY <2>1, <2>3, TransferFails, TransferGoes DEF Q!TransferLeg, Where
  <2> QED BY <1>1, <2>2, <2>3 DEF Q!TransferOut
<1>2. CASE Q!TransferBack
  <2>1. phase = "out" /\ step = "transfer" /\ position = 0 /\ outcome = None
    BY <1>2 DEF Q!TransferBack, ProbeInv, AtTransfer, ProbeShape, Before
  <2>2. CASE Q!End("FAIL", TRUE) /\ UNCHANGED Q!account
    <3>1. /\ phase' = "done" /\ outcome' = "FAIL" /\ told' = TRUE /\ cent' \in Where
          /\ UNCHANGED <<step, world, position, shown, reply, opened>>
      BY <2>2 DEF Q!End, Q!account, ProbeInv, ProbeShape
    <3> QED BY <2>1, <3>1, TransferFails
  <2>3. CASE /\ Q!TransferLeg("dest", "to source", "back")
             /\ UNCHANGED <<step, world, position, shown, reply, opened>>
    BY <2>1, <2>3, TransferFails, TransferGoes DEF Q!TransferLeg, Where
  <2> QED BY <1>2, <2>2, <2>3 DEF Q!TransferBack
<1>3. CASE Q!TransferEnd
  <2>1. phase = "back" /\ step = "transfer" /\ position = 0 /\ UNCHANGED Q!account
    BY <1>3 DEF Q!TransferEnd, ProbeInv, AtTransfer
  <2>2. CASE Q!End("FAIL", TRUE)
    <3>1. /\ phase' = "done" /\ outcome' = "FAIL" /\ told' = TRUE /\ cent' \in Where
          /\ UNCHANGED <<step, world, position, shown, reply, opened>>
      BY <2>1, <2>2 DEF Q!End, Q!account, ProbeInv, ProbeShape
    <3> QED BY <2>1, <3>1, TransferFails
  <2>3. CASE Q!SeenAt("source") /\ Q!End("PASS", FALSE)
    <3>1. cent = "source"
      BY <2>3 DEF Q!SeenAt
    <3>2. Q!VerdictIsTrue'
      BY <2>1, <2>3, <3>1 DEF Q!VerdictIsTrue, Q!End, Q!account
    <3>3. Q!OneCentAtStake'
      BY <2>1 DEF Q!OneCentAtStake, Q!Size, Q!ProbeAssumption, Q!account
    <3> QED BY <2>1, <2>3, <3>1, <3>2, <3>3, EndTells
  <2> QED BY <1>3, <2>2, <2>3 DEF Q!TransferEnd
<1> QED BY <1>1, <1>2, <1>3

\* A transfer that lands late lands on a step that told of it, or is under way.
LEMMA SettleStep ==
    ASSUME Q!ProbeAssumption, ProbeInv, Q!Settle PROVE ProbeInv'
<1>1. /\ \/ cent = "to dest" /\ cent' = "dest"
         \/ cent = "to source" /\ cent' = "source"
      /\ UNCHANGED <<step, phase, world, position, shown, reply, opened, outcome, told>>
  BY DEF Q!Settle
<1>2. ProbeShape'
  BY <1>1 DEF ProbeInv, ProbeShape, Where
<1>3. AtStart' /\ AtSent' /\ AtOpened' /\ HoldsStill' /\ AtClosed' /\ Q!OneCentAtStake'
  BY <1>1 DEF ProbeInv, ProbeTells, AtStart, AtSent, AtOpened, HoldsStill, AtClosed, Q!OneCentAtStake, Stake,
              Opens, Closes
<1>4. AtTransfer'
  BY <1>1 DEF ProbeInv, AtTransfer
<1>5. Q!VerdictIsTrue'
  BY <1>1 DEF ProbeInv, ProbeTells, Q!VerdictIsTrue
<1>6. Q!OpenIsTold'
  BY <1>1 DEF ProbeInv, ProbeTells, Q!OpenIsTold, Q!SaysNothing
<1> QED BY <1>2, <1>3, <1>4, <1>5, <1>6 DEF ProbeInv, ProbeTells

-----------------------------------------------------------------------------
LEMMA ProbeStep ==
    ASSUME Q!ProbeAssumption, ProbeInv, [Q!Next]_(Q!vars) PROVE ProbeInv'
<1>1. CASE UNCHANGED Q!vars
  BY <1>1 DEF Q!vars, ProbeInv, ProbeShape, AtStart, AtSent, AtOpened, HoldsStill, AtClosed,
              AtTransfer, ProbeTells, Q!VerdictIsTrue, Q!OpenIsTold, Q!OneCentAtStake,
              Q!SaysNothing, Stake, Opens, Closes
<1>2. CASE Q!Next
  BY <1>1, <1>2, OpenSteps, ReplySteps, VerdictSteps, CloseSteps, EndSteps, TransferSteps, SettleStep
     DEF Q!Next, Q!Finished
<1> QED BY <1>1, <1>2

\* Whatever the exchange does with the probe's orders, however late or wrong a
\* reading is: a verdict is true of the account (VerdictIsTrue), a position or a
\* cent left behind is told of (OpenIsTold), and no more than the order's own
\* contracts are at stake unless the closing order itself opens (v2_probe.py).
THEOREM ProbeIsTrue == Q!Spec => []ProbeSpeaksTrue
<1>1. Q!ProbeAssumption
  BY ProbeAssumption
<1>2. ProbeInv => ProbeSpeaksTrue
  BY DEF ProbeInv, ProbeTells, ProbeSpeaksTrue, Q!ProbeSpeaksTrue
<1> QED BY <1>1, <1>2, ProbeStarts, ProbeStep, PTL DEF Q!Spec

-----------------------------------------------------------------------------
(***************************************************************************)
(* The funding of shards.                                                   *)
(***************************************************************************)
\* The instance's finite sets are those of the library's theorems.
LEMMA SameFiniteSets ==
    ASSUME NEW s
    PROVE  (C!IsFiniteSet(s) <=> IsFiniteSet(s)) /\ C!Cardinality(s) = Cardinality(s)
BY DEF C!IsFiniteSet, IsFiniteSet, C!Cardinality, Cardinality

LEMMA ShardsAreFinite ==
    ASSUME C!CollateralAssumption PROVE Shards \in SUBSET Nat /\ IsFiniteSet(Shards)
BY SameFiniteSets DEF C!CollateralAssumption

----------------------------------------------------------------------------
(* Sums over finite sets.  Induction is by the smallest subset gone wrong.     *)

\* The element a fold takes first.
Taken(s) == CHOOSE x \in s : TRUE

\* i sums f over each subset of S, one element at a time.
Sums(i, f, S) ==
    i = [s \in SUBSET S |-> IF s = {} THEN 0
                            ELSE f[Taken(s)] + i[s \ {Taken(s)}]]

\* The community modules' fold, by this name.
LEMMA TotalIs ==
    ASSUME NEW f, NEW S
    PROVE  C!Total(f, S) = (CHOOSE i : Sums(i, f, S))[S]
BY Zenon DEF C!Total, C!MapThenSumSet, C!MapThenFoldSet, Sums, Taken

\* Of a set of subsets of a finite set, one has no other of them inside it.
LEMMA SmallestBad ==
    ASSUME NEW S, IsFiniteSet(S), NEW B \in SUBSET SUBSET S, B # {}
    PROVE  \E T \in B : \A U \in B : ~(U \subseteq T /\ U # T)
<1>1. SUBSET S = FiniteSubsetsOf(S) BY FS_FiniteSubsetsOfFinite
<1>2. IsWellFoundedOn(StrictSubsetOrdering(S), FiniteSubsetsOf(S)) BY FS_StrictSubsetOrderingWellFounded
<1>3. PICK T \in B : \A U \in B : ~ (<<U, T>> \in StrictSubsetOrdering(S))
  BY <1>1, <1>2, WFMin
<1> QED BY <1>3 DEF StrictSubsetOrdering

\* Two sums of one function agree wherever both are defined.
LEMMA SumsAgree ==
    ASSUME NEW f, NEW S, NEW T, IsFiniteSet(S), NEW i, NEW j,
           Sums(i, f, S), Sums(j, f, T),
           NEW s \in SUBSET S, s \subseteq T
    PROVE  i[s] = j[s]
<1> DEFINE B == {u \in SUBSET S : u \subseteq T /\ i[u] # j[u]}
<1>1. SUFFICES B = {}
  OBVIOUS
<1>2. SUFFICES ASSUME B # {} PROVE FALSE
  OBVIOUS
<1>3. PICK u \in B : \A v \in B : ~(v \subseteq u /\ v # u)
  <2>1. B \in SUBSET SUBSET S
    OBVIOUS
  <2> HIDE DEF B
  <2> QED BY <1>2, <2>1, SmallestBad
<1>4. CASE u = {}
  BY <1>4, <1>3, {} \in SUBSET S, {} \in SUBSET T DEF Sums
<1>5. CASE u # {}
  <2>1. Taken(u) \in u
    BY <1>5 DEF Taken
  <2> DEFINE v == u \ {Taken(u)}
  <2>2. v \subseteq u /\ v # u /\ v \in SUBSET S /\ v \subseteq T
    BY <2>1, <1>3
  <2>3. i[v] = j[v]
    BY <2>2, <1>3
  <2>4. i[u] = f[Taken(u)] + i[v]
    BY <1>5, <1>3 DEF Sums
  <2>5. j[u] = f[Taken(u)] + j[v]
    <3>1. u \in SUBSET T
      BY <1>3
    <3> QED BY <3>1, <1>5 DEF Sums
  <2> QED BY <2>3, <2>4, <2>5, <1>3
<1> QED BY <1>4, <1>5

\* Every finite set can be summed.
LEMMA SumsExist ==
    ASSUME NEW f, NEW S, IsFiniteSet(S)
    PROVE  \E i : Sums(i, f, S)
<1> DEFINE B == {u \in SUBSET S : ~ \E i : Sums(i, f, u)}
<1>1. SUFFICES ASSUME B # {} PROVE FALSE
  OBVIOUS
<1>2. PICK u \in B : \A v \in B : ~(v \subseteq u /\ v # u)
  <2>1. B \in SUBSET SUBSET S
    OBVIOUS
  <2> HIDE DEF B
  <2> QED BY <1>1, <2>1, SmallestBad
<1> DEFINE J(v) == CHOOSE i : Sums(i, f, v)
<1>3. ASSUME NEW v \in SUBSET u, v # u
      PROVE  Sums(J(v), f, v)
  BY <1>2, <1>3
<1> DEFINE i == [s \in SUBSET u |-> IF s = {} THEN 0
                    ELSE f[Taken(s)] + J(s \ {Taken(s)})[s \ {Taken(s)}]]
<1>4. ASSUME NEW s \in SUBSET u, s # u
      PROVE  i[s] = J(s)[s]
  <2>1. Sums(J(s), f, s)
    BY <1>3, <1>4
  <2>2. CASE s = {}
    BY <2>1, <2>2, s \in SUBSET s DEF Sums
  <2>3. CASE s # {}
    <3> DEFINE v == s \ {Taken(s)}
    <3>1. Taken(s) \in s
      BY <2>3 DEF Taken
    <3>2. v \in SUBSET u /\ v # u /\ v \subseteq s /\ IsFiniteSet(v)
      BY <3>1, FS_Subset, <1>2
    <3>3. Sums(J(v), f, v)
      BY <3>2, <1>3
    <3>4. J(v)[v] = J(s)[v]
      BY <3>2, <3>3, <2>1, SumsAgree, v \in SUBSET v
    <3>5. J(s)[s] = f[Taken(s)] + J(s)[v]
      BY <2>1, <2>3, s \in SUBSET s DEF Sums
    <3>6. i[s] = f[Taken(s)] + J(v)[v]
      BY <2>3
    <3> QED BY <3>4, <3>5, <3>6
  <2> QED BY <2>2, <2>3
<1>5. Sums(i, f, u)
  <2>1. ASSUME NEW s \in SUBSET u, s # {}
        PROVE  i[s] = f[Taken(s)] + i[s \ {Taken(s)}]
    <3> DEFINE v == s \ {Taken(s)}
    <3>1. Taken(s) \in s
      BY <2>1 DEF Taken
    <3>2. v \in SUBSET u /\ v # u
      BY <3>1
    <3>3. i[v] = J(v)[v]
      BY <3>2, <1>4
    <3>4. i[s] = f[Taken(s)] + J(v)[v]
      BY <2>1
    <3> QED BY <3>3, <3>4
  <2>2. i = [s \in SUBSET u |-> i[s]]
    OBVIOUS
  <2>3. i[{}] = 0
    BY {} \in SUBSET u
  <2> HIDE DEF i
  <2> QED BY <2>1, <2>2, <2>3 DEF Sums
<1> QED BY <1>5, <1>2

\* Nothing sums to 0.
LEMMA TotalOfNone ==
    ASSUME NEW f
    PROVE  C!Total(f, {}) = 0
<1> DEFINE i == CHOOSE i : Sums(i, f, {})
<1>1. Sums(i, f, {})
  BY FS_EmptySet, SumsExist
<1> HIDE DEF i
<1>2. i[{}] = 0
  BY <1>1, {} \in SUBSET {} DEF Sums
<1> QED BY <1>2, TotalIs DEF i

\* A sum is the element taken first and the sum of the others.
LEMMA TotalStep ==
    ASSUME NEW f, NEW S, IsFiniteSet(S), S # {}
    PROVE  /\ Taken(S) \in S
           /\ C!Total(f, S) = f[Taken(S)] + C!Total(f, S \ {Taken(S)})
<1> DEFINE R == S \ {Taken(S)}
           i == CHOOSE i : Sums(i, f, S)
           j == CHOOSE j : Sums(j, f, R)
<1>1. Taken(S) \in S
  BY DEF Taken
<1>2. IsFiniteSet(R) /\ R \subseteq S
  BY FS_Subset
<1>3. Sums(i, f, S)
  BY SumsExist
<1>4. Sums(j, f, R)
  BY <1>2, SumsExist
<1>5. C!Total(f, S) = i[S] /\ C!Total(f, R) = j[R]
  BY TotalIs
<1> HIDE DEF i, j
<1>6. j[R] = i[R]
  BY <1>2, <1>3, <1>4, SumsAgree, R \in SUBSET R
<1>7. i[S] = f[Taken(S)] + i[R]
  BY <1>3, S \in SUBSET S DEF Sums
<1> QED BY <1>1, <1>5, <1>6, <1>7

\* Numbers sum to a number.
LEMMA TotalType ==
    ASSUME NEW f, NEW S, IsFiniteSet(S), \A x \in S : f[x] \in Int
    PROVE  C!Total(f, S) \in Int
<1> DEFINE B == {u \in SUBSET S : C!Total(f, u) \notin Int}
<1>1. SUFFICES ASSUME B # {} PROVE FALSE
  OBVIOUS
<1>2. PICK u \in B : \A v \in B : ~(v \subseteq u /\ v # u)
  <2>1. B \in SUBSET SUBSET S
    OBVIOUS
  <2> HIDE DEF B
  <2> QED BY <1>1, <2>1, SmallestBad
<1>3. u # {}
  <2>1. C!Total(f, u) \notin Int
    BY <1>2
  <2>2. C!Total(f, {}) = 0
    BY TotalOfNone
  <2> HIDE DEF B
  <2> QED BY <2>1, <2>2
<1>4. IsFiniteSet(u)
  BY <1>2, FS_Subset
<1>5. /\ Taken(u) \in u
      /\ C!Total(f, u) = f[Taken(u)] + C!Total(f, u \ {Taken(u)})
  BY <1>3, <1>4, TotalStep
<1>6. C!Total(f, u \ {Taken(u)}) \in Int
  BY <1>5, <1>2
<1> QED BY <1>2, <1>5, <1>6

\* The sum of natural numbers is one.
LEMMA TotalIsNat ==
    ASSUME NEW f, NEW S, IsFiniteSet(S), \A x \in S : f[x] \in Nat
    PROVE  C!Total(f, S) \in Nat
<1> DEFINE B == {u \in SUBSET S : C!Total(f, u) \notin Nat}
<1>1. SUFFICES ASSUME B # {} PROVE FALSE
  OBVIOUS
<1>2. PICK u \in B : \A v \in B : ~(v \subseteq u /\ v # u)
  <2>1. B \in SUBSET SUBSET S
    OBVIOUS
  <2> HIDE DEF B
  <2> QED BY <1>1, <2>1, SmallestBad
<1>3. u # {}
  <2>1. C!Total(f, u) \notin Nat
    BY <1>2
  <2>2. C!Total(f, {}) = 0
    BY TotalOfNone
  <2> HIDE DEF B
  <2> QED BY <2>1, <2>2
<1>4. IsFiniteSet(u)
  BY <1>2, FS_Subset
<1>5. /\ Taken(u) \in u
      /\ C!Total(f, u) = f[Taken(u)] + C!Total(f, u \ {Taken(u)})
  BY <1>3, <1>4, TotalStep
<1>6. C!Total(f, u \ {Taken(u)}) \in Nat
  BY <1>5, <1>2
<1> QED BY <1>2, <1>5, <1>6

\* The elements may be taken in any order.
LEMMA TotalRemove ==
    ASSUME NEW f, NEW S, IsFiniteSet(S), \A x \in S : f[x] \in Int,
           NEW y \in S
    PROVE  C!Total(f, S) = f[y] + C!Total(f, S \ {y})
<1> DEFINE B == {u \in SUBSET S :
                    \E x \in u : C!Total(f, u) # f[x] + C!Total(f, u \ {x})}
<1>1. SUFFICES ASSUME B # {} PROVE FALSE
  OBVIOUS
<1>2. PICK u \in B : \A v \in B : ~(v \subseteq u /\ v # u)
  <2>1. B \in SUBSET SUBSET S
    OBVIOUS
  <2> HIDE DEF B
  <2> QED BY <1>1, <2>1, SmallestBad
<1>3. PICK x \in u : C!Total(f, u) # f[x] + C!Total(f, u \ {x})
  BY <1>2
<1> DEFINE t == Taken(u)
<1>4. IsFiniteSet(u)
  BY <1>2, FS_Subset
<1>5. t \in u /\ C!Total(f, u) = f[t] + C!Total(f, u \ {t})
  BY <1>3, <1>4, TotalStep
<1>6. t # x
  BY <1>3, <1>5
<1> HIDE DEF t
<1>7. u \ {t} \notin B /\ u \ {x} \notin B
  BY <1>2, <1>3, <1>5
<1>8. (u \ {t}) \ {x} = (u \ {x}) \ {t}
  OBVIOUS
<1>9. C!Total(f, u \ {t}) = f[x] + C!Total(f, (u \ {x}) \ {t})
  <2>1. C!Total(f, u \ {t}) = f[x] + C!Total(f, (u \ {t}) \ {x})
    BY <1>7, <1>6, <1>2
  <2> QED BY <2>1, <1>8
<1>10. C!Total(f, u \ {x}) = f[t] + C!Total(f, (u \ {x}) \ {t})
  BY <1>7, <1>6, <1>5, <1>2
<1>11. C!Total(f, (u \ {x}) \ {t}) \in Int
  <2>1. IsFiniteSet((u \ {x}) \ {t}) /\ (u \ {x}) \ {t} \subseteq S
    BY <1>4, FS_Subset, <1>2
  <2> QED BY <2>1, TotalType
<1>12. f[x] \in Int /\ f[t] \in Int
  BY <1>2, <1>5
<1> HIDE DEF B
<1> QED BY <1>3, <1>5, <1>9, <1>10, <1>11, <1>12

\* A sum grows with what is summed.
LEMMA TotalGrows ==
    ASSUME NEW f, NEW g, NEW S, IsFiniteSet(S),
           \A x \in S : f[x] \in Int /\ g[x] \in Int /\ f[x] <= g[x]
    PROVE  C!Total(f, S) <= C!Total(g, S)
<1> DEFINE B == {u \in SUBSET S : ~(C!Total(f, u) <= C!Total(g, u))}
<1>1. SUFFICES ASSUME B # {} PROVE FALSE
  OBVIOUS
<1>2. PICK u \in B : \A v \in B : ~(v \subseteq u /\ v # u)
  <2>1. B \in SUBSET SUBSET S
    OBVIOUS
  <2> HIDE DEF B
  <2> QED BY <1>1, <2>1, SmallestBad
<1>3. u # {}
  <2>1. ~(C!Total(f, u) <= C!Total(g, u))
    BY <1>2
  <2>2. C!Total(f, {}) = 0 /\ C!Total(g, {}) = 0
    BY TotalOfNone
  <2> HIDE DEF B
  <2> QED BY <2>1, <2>2
<1> DEFINE t == Taken(u)  R == u \ {t}
<1>4. IsFiniteSet(u) /\ IsFiniteSet(R)
  BY <1>2, FS_Subset
<1>5. /\ t \in u
      /\ C!Total(f, u) = f[t] + C!Total(f, R)
      /\ C!Total(g, u) = g[t] + C!Total(g, R)
  BY <1>3, <1>4, TotalStep
<1>6. C!Total(f, R) <= C!Total(g, R)
  BY <1>5, <1>2
<1>7. C!Total(f, R) \in Int /\ C!Total(g, R) \in Int
  BY <1>2, <1>4, TotalType
<1>8. f[t] \in Int /\ g[t] \in Int /\ f[t] <= g[t]
  BY <1>5, <1>2
<1> HIDE DEF t, R
<1> QED BY <1>2, <1>5, <1>6, <1>7, <1>8

\* Functions that agree have the same sum.
LEMMA TotalSame ==
    ASSUME NEW f, NEW g, NEW S, IsFiniteSet(S),
           \A x \in S : f[x] \in Int /\ g[x] = f[x]
    PROVE  C!Total(g, S) = C!Total(f, S)
<1>1. C!Total(f, S) <= C!Total(g, S) /\ C!Total(g, S) <= C!Total(f, S)
  BY TotalGrows
<1>2. C!Total(f, S) \in Int /\ C!Total(g, S) \in Int
  BY TotalType
<1> QED BY <1>1, <1>2

\* One element more.
LEMMA TotalAdd ==
    ASSUME NEW f, NEW S, IsFiniteSet(S), NEW y, y \notin S,
           \A x \in S \cup {y} : f[x] \in Int
    PROVE  C!Total(f, S \cup {y}) = C!Total(f, S) + f[y]
<1>1. IsFiniteSet(S \cup {y}) /\ (S \cup {y}) \ {y} = S /\ y \in S \cup {y}
  BY FS_AddElement
<1>2. C!Total(f, S \cup {y}) = f[y] + C!Total(f, S)
  <2>1. C!Total(f, S \cup {y}) = f[y] + C!Total(f, (S \cup {y}) \ {y})
    BY <1>1, TotalRemove
  <2> QED BY <1>1, <2>1
<1>3. C!Total(f, S) \in Int /\ f[y] \in Int
  BY TotalType
<1> QED BY <1>1, <1>2, <1>3

\* A part sums to no more than the whole.
LEMMA TotalOfPart ==
    ASSUME NEW f, NEW S, IsFiniteSet(S), \A x \in S : f[x] \in Nat,
           NEW P \in SUBSET S
    PROVE  C!Total(f, P) <= C!Total(f, S)
<1> DEFINE B == {u \in SUBSET S : P \subseteq u /\ ~(C!Total(f, P) <= C!Total(f, u))}
<1>1. SUFFICES ASSUME B # {} PROVE FALSE
  OBVIOUS
<1>2. PICK u \in B : \A v \in B : ~(v \subseteq u /\ v # u)
  <2>1. B \in SUBSET SUBSET S
    OBVIOUS
  <2> HIDE DEF B
  <2> QED BY <1>1, <2>1, SmallestBad
<1>3. IsFiniteSet(u) /\ IsFiniteSet(P)
  BY <1>2, FS_Subset
<1>4. C!Total(f, P) \in Nat
  BY <1>3, TotalIsNat
<1>5. u # P
  BY <1>2, <1>4
<1>6. PICK y \in u : y \notin P
  BY <1>2, <1>5
<1> DEFINE v == u \ {y}
<1>7. v \in SUBSET S /\ P \subseteq v /\ v \subseteq u /\ v # u /\ IsFiniteSet(v)
  BY <1>2, <1>3, <1>6, FS_Subset
<1>8. C!Total(f, P) <= C!Total(f, v)
  BY <1>2, <1>7
<1>9. C!Total(f, u) = f[y] + C!Total(f, v)
  <2>1. \A x \in u : f[x] \in Int
    BY <1>2
  <2> HIDE DEF B
  <2> QED BY <1>3, <2>1, TotalRemove
<1>10. C!Total(f, v) \in Nat /\ f[y] \in Nat
  <2>1. \A x \in v : f[x] \in Nat
    BY <1>2
  <2>2. f[y] \in Nat
    BY <1>2
  <2> HIDE DEF v, B
  <2> QED BY <1>7, <2>1, <2>2, TotalIsNat
<1>11. ~(C!Total(f, P) <= C!Total(f, u))
  BY <1>2
<1> HIDE DEF v, B
<1> QED BY <1>4, <1>8, <1>9, <1>10, <1>11

\* A change of one element changes the sum by as much.
LEMMA TotalChange ==
    ASSUME NEW S, IsFiniteSet(S), NEW f \in [S -> Int], NEW g \in [S -> Int],
           NEW y \in S, NEW c \in Int, g[y] = f[y] + c,
           \A x \in S : x # y => g[x] = f[x]
    PROVE  C!Total(g, S) = C!Total(f, S) + c
<1>1. C!Total(f, S) = f[y] + C!Total(f, S \ {y}) /\ C!Total(g, S) = g[y] + C!Total(g, S \ {y})
  BY TotalRemove
<1>2. IsFiniteSet(S \ {y})
  BY FS_Subset
<1>3. C!Total(g, S \ {y}) = C!Total(f, S \ {y})
  BY <1>2, TotalSame
<1>4. C!Total(f, S \ {y}) \in Int
  BY <1>2, TotalType
<1> QED BY <1>1, <1>3, <1>4

\* Four sums that balance element by element balance.
LEMMA TotalBalance ==
    ASSUME NEW S, IsFiniteSet(S), NEW a, NEW b, NEW c, NEW d,
           \A x \in S : /\ a[x] \in Int /\ b[x] \in Int /\ c[x] \in Int /\ d[x] \in Int
                        /\ a[x] + d[x] = b[x] + c[x]
    PROVE  C!Total(a, S) + C!Total(d, S) = C!Total(b, S) + C!Total(c, S)
<1> DEFINE B == {u \in SUBSET S : C!Total(a, u) + C!Total(d, u) # C!Total(b, u) + C!Total(c, u)}
<1>1. SUFFICES ASSUME B # {} PROVE FALSE
  OBVIOUS
<1>2. PICK u \in B : \A v \in B : ~(v \subseteq u /\ v # u)
  <2>1. B \in SUBSET SUBSET S
    OBVIOUS
  <2> HIDE DEF B
  <2> QED BY <1>1, <2>1, SmallestBad
<1>3. C!Total(a, u) + C!Total(d, u) # C!Total(b, u) + C!Total(c, u)
  BY <1>2
<1>4. u # {}
  <2>1. C!Total(a, {}) = 0 /\ C!Total(b, {}) = 0 /\ C!Total(c, {}) = 0 /\ C!Total(d, {}) = 0
    BY TotalOfNone
  <2> HIDE DEF B
  <2> QED BY <1>3, <2>1
<1> DEFINE t == Taken(u)  R == u \ {t}
<1>5. u \in SUBSET S /\ IsFiniteSet(u) /\ IsFiniteSet(R) /\ R \subseteq u
  BY <1>2, FS_Subset
<1>6. /\ t \in u
      /\ C!Total(a, u) = a[t] + C!Total(a, R) /\ C!Total(b, u) = b[t] + C!Total(b, R)
      /\ C!Total(c, u) = c[t] + C!Total(c, R) /\ C!Total(d, u) = d[t] + C!Total(d, R)
  BY <1>4, <1>5, TotalStep
<1>7. C!Total(a, R) + C!Total(d, R) = C!Total(b, R) + C!Total(c, R)
  BY <1>2, <1>6
<1>8. /\ a[t] \in Int /\ b[t] \in Int /\ c[t] \in Int /\ d[t] \in Int
      /\ a[t] + d[t] = b[t] + c[t]
  BY <1>5, <1>6
<1>9. /\ C!Total(a, R) \in Int /\ C!Total(b, R) \in Int
      /\ C!Total(c, R) \in Int /\ C!Total(d, R) \in Int
  <2>1. \A x \in R : a[x] \in Int /\ b[x] \in Int /\ c[x] \in Int /\ d[x] \in Int
    BY <1>5
  <2> HIDE DEF R, B
  <2> QED BY <1>5, <2>1, TotalType
<1> HIDE DEF t, R, B
<1> QED BY <1>3, <1>6, <1>7, <1>8, <1>9

\* What sums to nothing without being negative is nothing everywhere.
LEMMA TotalZero ==
    ASSUME NEW f, NEW S, IsFiniteSet(S), \A x \in S : f[x] \in Nat,
           C!Total(f, S) <= 0, NEW y \in S
    PROVE  f[y] = 0
<1>1. C!Total(f, S) = f[y] + C!Total(f, S \ {y})
  BY TotalRemove
<1>2. IsFiniteSet(S \ {y})
  BY FS_Subset
<1>3. C!Total(f, S \ {y}) \in Nat
  BY <1>2, TotalIsNat
<1> QED BY <1>1, <1>3

\* Zeros sum to 0.
LEMMA TotalOfZeros ==
    ASSUME NEW f, NEW S, IsFiniteSet(S), \A x \in S : f[x] = 0
    PROVE  C!Total(f, S) = 0
<1> DEFINE B == {u \in SUBSET S : C!Total(f, u) # 0}
<1>1. SUFFICES ASSUME B # {} PROVE FALSE
  OBVIOUS
<1>2. PICK u \in B : \A v \in B : ~(v \subseteq u /\ v # u)
  <2>1. B \in SUBSET SUBSET S
    OBVIOUS
  <2> HIDE DEF B
  <2> QED BY <1>1, <2>1, SmallestBad
<1>3. u # {}
  <2>1. C!Total(f, u) # 0
    BY <1>2
  <2>2. C!Total(f, {}) = 0
    BY TotalOfNone
  <2> HIDE DEF B
  <2> QED BY <2>1, <2>2
<1>4. IsFiniteSet(u)
  BY <1>2, FS_Subset
<1>5. /\ Taken(u) \in u
      /\ C!Total(f, u) = f[Taken(u)] + C!Total(f, u \ {Taken(u)})
  BY <1>3, <1>4, TotalStep
<1>6. C!Total(f, u \ {Taken(u)}) = 0
  BY <1>5, <1>2
<1> QED BY <1>2, <1>5, <1>6

-----------------------------------------------------------------------------
(* Counting from 0.                                                            *)

\* What holds of 0, and of each number after one it holds of, holds up to N.
LEMMA CountingUp ==
    ASSUME NEW N \in Nat, NEW G, 0 \in G, \A k \in 0 .. N - 1 : k \in G => k + 1 \in G
    PROVE  \A k \in 0 .. N : k \in G
<1> DEFINE S == 0 .. N
           B == {u \in SUBSET S : \E k \in S : u = 0 .. k /\ k \notin G}
<1>1. SUFFICES ASSUME NEW k \in S, k \notin G PROVE FALSE
  OBVIOUS
<1>2. 0 .. k \in B
  BY <1>1
<1>3. IsFiniteSet(S)
  BY FS_Interval
<1>4. PICK u \in B : \A v \in B : ~(v \subseteq u /\ v # u)
  <2>1. B \in SUBSET SUBSET S /\ B # {}
    BY <1>2
  <2> HIDE DEF B, S
  <2> QED BY <1>3, <2>1, SmallestBad
<1>5. PICK n \in S : u = 0 .. n /\ n \notin G
  BY <1>4
<1>6. n - 1 \in S /\ n - 1 \in 0 .. N - 1 /\ n - 1 + 1 = n
  BY <1>5
<1>7. n - 1 \notin G
  BY <1>5, <1>6
<1>8. 0 .. n - 1 \in B
  BY <1>6, <1>7
<1>9. 0 .. n - 1 \subseteq u /\ 0 .. n - 1 # u
  <2>1. n \in u /\ n \notin 0 .. n - 1
    BY <1>5
  <2>2. 0 .. n - 1 \subseteq u
    BY <1>5
  <2> QED BY <2>1, <2>2
<1> QED BY <1>4, <1>8, <1>9

-----------------------------------------------------------------------------
(* The plan.                                                                   *)

Transfer == [from : Shards, to : Shards, cents : Nat \ {0}]

\* s holds most of u, no other as much and lower.
Beats(f, s, u) == \A r \in u : f[s] > f[r] \/ (f[s] = f[r] /\ s <= r)

\* Of finitely many shards one holds most, the lowest such.
LEMMA Richest ==
    ASSUME NEW S, IsFiniteSet(S), S # {}, NEW f, \A x \in S : x \in Nat /\ f[x] \in Int
    PROVE  \E s \in S : Beats(f, s, S)
<1> DEFINE B == {u \in SUBSET S : u # {} /\ ~ \E s \in u : Beats(f, s, u)}
<1>1. SUFFICES ASSUME B # {} PROVE FALSE
  OBVIOUS
<1>2. PICK u \in B : \A v \in B : ~(v \subseteq u /\ v # u)
  <2>1. B \in SUBSET SUBSET S
    OBVIOUS
  <2> HIDE DEF B
  <2> QED BY <1>1, <2>1, SmallestBad
<1>3. u \in SUBSET S /\ u # {} /\ ~ \E s \in u : Beats(f, s, u)
  BY <1>2
<1>4. PICK x \in u : TRUE
  BY <1>3
<1> DEFINE v == u \ {x}
<1>5. CASE v = {}
  <2>1. \A r \in u : r = x
    BY <1>5
  <2>2. Beats(f, x, u)
    BY <2>1, <1>3, <1>4 DEF Beats
  <2> QED BY <2>2, <1>3, <1>4
<1>6. CASE v # {}
  <2>1. v \in SUBSET S /\ v \subseteq u /\ v # u
    BY <1>3, <1>4
  <2>2. PICK y \in v : Beats(f, y, v)
    BY <1>2, <1>6, <2>1
  <2>3. y \in u /\ y \in Nat /\ x \in Nat /\ f[x] \in Int /\ f[y] \in Int
    BY <1>3, <1>4, <2>1
  <2>4. \A r \in u : r \in Nat /\ f[r] \in Int /\ (r = x \/ r \in v)
    BY <1>3
  <2>5. CASE f[y] > f[x] \/ (f[y] = f[x] /\ y <= x)
    <3>1. Beats(f, y, u)
      BY <2>2, <2>3, <2>4, <2>5 DEF Beats
    <3> QED BY <3>1, <2>3, <1>3
  <2>6. CASE ~(f[y] > f[x] \/ (f[y] = f[x] /\ y <= x))
    <3>1. f[x] > f[y] \/ (f[x] = f[y] /\ x <= y)
      BY <2>3, <2>6
    <3>2. Beats(f, x, u)
      BY <2>2, <2>3, <2>4, <3>1 DEF Beats
    <3> QED BY <3>2, <1>4, <1>3
  <2> QED BY <2>5, <2>6
<1> QED BY <1>5, <1>6

\* There is a least of finitely many numbers, and Min is it.
LEMMA MinIs ==
    ASSUME NEW S, IsFiniteSet(S), S \subseteq Nat, S # {}
    PROVE  C!Min(S) \in S /\ \A r \in S : C!Min(S) <= r
<1> DEFINE f == [x \in S |-> 0]
<1>1. \A x \in S : f[x] \in Int
  OBVIOUS
<1>2. \E s \in S : Beats(f, s, S)
  <2> HIDE DEF f
  <2> QED BY <1>1, Richest
<1>3. \E s \in S : \A r \in S : s <= r
  BY <1>2 DEF Beats
<1> QED BY <1>3 DEF C!Min

LEMMA MinOfTwo ==
    ASSUME NEW a \in Int, NEW b \in Int
    PROVE  C!Min({a, b}) = IF a <= b THEN a ELSE b
BY DEF C!Min

\* A move is from a shard with a surplus to one that is short, of something, and
\* ends one or the other.
LEMMA MoveFacts ==
    ASSUME C!CollateralAssumption, NEW need \in [Shards -> Nat], NEW spare \in [Shards -> Nat],
           \E s \in Shards : need[s] # 0, \E s \in Shards : spare[s] # 0
    PROVE  LET m == C!Move(need, spare)
           IN  /\ m \in Transfer
               /\ m.cents <= need[m.to] /\ m.cents <= spare[m.from]
               /\ m.cents = need[m.to] \/ m.cents = spare[m.from]
<1> DEFINE D == {s \in Shards : need[s] > 0}
           d == C!Min(D)
           f == CHOOSE s \in Shards : Beats(spare, s, Shards)
           c == C!Min({need[d], spare[f]})
<1>1. Shards \in SUBSET Nat /\ IsFiniteSet(Shards)
  BY ShardsAreFinite
<1>2. d \in Shards /\ need[d] > 0
  <2>1. D \in SUBSET Shards /\ D # {}
    OBVIOUS
  <2>2. D \in SUBSET Nat /\ IsFiniteSet(D)
    BY <1>1, <2>1, FS_Subset
  <2>3. d \in D
    <3> HIDE DEF D
    <3> QED BY <2>1, <2>2, MinIs
  <2> QED BY <2>3
<1>3. f \in Shards /\ Beats(spare, f, Shards)
  <2>1. Shards # {} /\ \A x \in Shards : spare[x] \in Int
    OBVIOUS
  <2>2. \E s \in Shards : Beats(spare, s, Shards)
    BY <1>1, <2>1, Richest
  <2> QED BY <2>2
<1>4. spare[f] > 0
  BY <1>3 DEF Beats
<1>5. C!Move(need, spare) = [from |-> f, to |-> d, cents |-> c]
  BY DEF C!Move, Beats
<1> HIDE DEF f, d
<1>6. need[d] \in Nat /\ spare[f] \in Nat
  BY <1>2, <1>3
<1>7. c = IF need[d] <= spare[f] THEN need[d] ELSE spare[f]
  BY <1>6, MinOfTwo
<1>8. c \in Nat \ {0}
  BY <1>2, <1>4, <1>6, <1>7
<1> HIDE DEF c
<1> QED BY <1>2, <1>3, <1>5, <1>6, <1>7, <1>8 DEF Transfer

\* The recursion defines the plan after each number of moves.
LEMMA AfterIs ==
    ASSUME C!CollateralAssumption
    PROVE  C!After = [k \in 0 .. Cardinality(Shards) |->
                       IF k = 0 THEN C!Unmoved ELSE C!Moved(C!After[k - 1])]
<1> DEFINE N == Cardinality(Shards)
           Goes(g, n) == g = [k \in 0 .. n |-> IF k = 0 THEN C!Unmoved ELSE C!Moved(g[k - 1])]
           G == {n \in 0 .. N : \E g : Goes(g, n)}
<1>1. N \in Nat
  BY FS_CardinalityType, ShardsAreFinite
<1>2. 0 \in G
  <2> DEFINE h == [k \in 0 .. 0 |-> C!Unmoved]
  <2>1. Goes(h, 0)
    OBVIOUS
  <2> HIDE DEF h
  <2>2. \E g : Goes(g, 0)
    BY <2>1
  <2>3. 0 \in 0 .. N
    BY <1>1
  <2> HIDE DEF Goes, N
  <2> QED BY <2>2, <2>3
<1>3. ASSUME NEW n \in 0 .. N - 1, n \in G PROVE n + 1 \in G
  <2>1. PICK g : Goes(g, n)
    BY <1>3
  <2> DEFINE h == [k \in 0 .. n + 1 |-> IF k <= n THEN g[k] ELSE C!Moved(g[n])]
  <2>2. n \in Nat /\ n + 1 \in 0 .. N
    BY <1>1, <1>3
  <2>3. ASSUME NEW k \in 0 .. n + 1
        PROVE  h[k] = IF k = 0 THEN C!Unmoved ELSE C!Moved(h[k - 1])
    <3>1. CASE k = 0
      BY <2>1, <2>2, <3>1
    <3>2. CASE k # 0
      <4>1. k - 1 \in 0 .. n /\ h[k - 1] = g[k - 1]
        BY <2>2, <3>2
      <4>2. CASE k <= n
        <5>1. k \in 0 .. n /\ h[k] = g[k]
          BY <2>2, <4>2
        <5>2. g[k] = C!Moved(g[k - 1])
          BY <2>1, <5>1, <3>2
        <5> QED BY <4>1, <5>1, <5>2, <3>2
      <4>3. CASE k = n + 1
        <5>1. h[k] = C!Moved(g[n]) /\ k - 1 = n
          BY <2>2, <4>3
        <5> QED BY <4>1, <5>1, <3>2
      <4> QED BY <2>2, <4>2, <4>3
    <3> QED BY <3>1, <3>2
  <2>4. h = [k \in 0 .. n + 1 |-> h[k]]
    OBVIOUS
  <2> HIDE DEF h
  <2>5. Goes(h, n + 1)
    BY <2>3, <2>4
  <2> QED BY <2>2, <2>5
<1>4. N \in G
  <2>1. \A k \in 0 .. N - 1 : k \in G => k + 1 \in G
    BY <1>3
  <2>2. N \in 0 .. N
    BY <1>1
  <2> HIDE DEF G, N
  <2> QED BY <1>1, <1>2, <2>1, <2>2, CountingUp
<1>5. \E g : Goes(g, N)
  BY <1>4
<1>6. C!Cardinality(Shards) = N
  BY SameFiniteSets
<1>7. \E g : g = [k \in 0 .. C!Cardinality(Shards) |->
                  IF k = 0 THEN C!Unmoved ELSE C!Moved(g[k - 1])]
  <2> HIDE DEF N
  <2> QED BY <1>5, <1>6
<1>8. C!After = [k \in 0 .. C!Cardinality(Shards) |->
                  IF k = 0 THEN C!Unmoved ELSE C!Moved(C!After[k - 1])]
  BY <1>7 DEF C!After
<1> QED BY <1>6, <1>8

\* Over the moves m: the cents of each, and which leave s or go to s.
CentsOf(m)   == [k \in DOMAIN m |-> m[k].cents]
FromOf(m, s) == {k \in DOMAIN m : m[k].from = s}
ToOf(m, s)   == {k \in DOMAIN m : m[k].to = s}

NeedAtFirst(s) == C!Above(required[s] - opening[s])

\* The cash and the needs the plan is made from.
Known == opening \in [Shards -> Nat] /\ required \in [Shards -> Nat]

Transfers == Seq(Transfer)

\* The shards a step of the plan has still to do with.
Unsettled(st) == {s \in Shards : st.need[s] # 0 \/ st.spare[s] # 0}

\* What the moves so far have left of each surplus and each shortage.
Balanced(st) ==
    /\ st.need \in [Shards -> Nat] /\ st.spare \in [Shards -> Nat]
    /\ st.moves \in Transfers
    /\ \A k \in DOMAIN st.moves : /\ C!Spare(st.moves[k].from) # 0
                                  /\ NeedAtFirst(st.moves[k].to) # 0
    /\ \A s \in Shards :
          /\ st.spare[s] + C!Total(CentsOf(st.moves), FromOf(st.moves, s)) = C!Spare(s)
          /\ st.need[s] + C!Total(CentsOf(st.moves), ToOf(st.moves, s)) = NeedAtFirst(s)
    /\ C!Total(st.spare, Shards) - C!Total(st.need, Shards)
           = C!Total(opening, Shards) - C!Total(required, Shards)

\* The cents of finitely many moves sum to a number.
LEMMA MovesSum ==
    ASSUME NEW m \in Transfers
    PROVE  /\ IsFiniteSet(DOMAIN m)
           /\ \A k \in DOMAIN m : m[k] \in Transfer /\ CentsOf(m)[k] = m[k].cents
                                  /\ m[k].cents \in Nat \ {0}
           /\ \A P \in SUBSET DOMAIN m : IsFiniteSet(P) /\ C!Total(CentsOf(m), P) \in Nat
<1>1. DOMAIN m = 1 .. Len(m) /\ Len(m) \in Nat /\ \A k \in DOMAIN m : m[k] \in Transfer
  BY DEF Transfers
<1>2. IsFiniteSet(DOMAIN m)
  BY <1>1, FS_Interval
<1>3. \A k \in DOMAIN m : CentsOf(m)[k] = m[k].cents /\ m[k].cents \in Nat \ {0}
  BY <1>1 DEF CentsOf, Transfer
<1>4. ASSUME NEW P \in SUBSET DOMAIN m
      PROVE  IsFiniteSet(P) /\ C!Total(CentsOf(m), P) \in Nat
  <2>1. IsFiniteSet(P)
    BY <1>2, FS_Subset
  <2>2. \A k \in P : CentsOf(m)[k] \in Nat
    BY <1>3
  <2> QED BY <2>1, <2>2, TotalIsNat
<1> QED BY <1>1, <1>2, <1>3, <1>4

\* One move more adds its cents where it is counted.
LEMMA MoveAdds ==
    ASSUME NEW m \in Transfers, NEW t \in Transfer,
           NEW P \in SUBSET DOMAIN m, NEW W \in SUBSET DOMAIN Append(m, t), NEW counted \in BOOLEAN,
           W = IF counted THEN P \cup {Len(m) + 1} ELSE P
    PROVE  C!Total(CentsOf(Append(m, t)), W)
               = C!Total(CentsOf(m), P) + (IF counted THEN t.cents ELSE 0)
<1> DEFINE n == Append(m, t)  N == Len(m) + 1
<1>1. n \in Transfers /\ DOMAIN n = 1 .. N /\ DOMAIN m = 1 .. Len(m) /\ Len(m) \in Nat
  BY DEF Transfers
<1>2. \A k \in DOMAIN m : n[k] = m[k] /\ k \in DOMAIN n /\ k # N
  BY <1>1 DEF Transfers
<1>3. n[N] = t /\ N \in DOMAIN n /\ N \notin P
  BY <1>1 DEF Transfers
<1> HIDE DEF n, N
<1>4. IsFiniteSet(P) /\ \A k \in P : CentsOf(m)[k] \in Int
  BY MovesSum
<1>5. \A k \in P : CentsOf(n)[k] = CentsOf(m)[k]
  BY <1>2 DEF CentsOf
<1>6. C!Total(CentsOf(n), P) = C!Total(CentsOf(m), P)
  BY <1>4, <1>5, TotalSame
<1>7. CentsOf(n)[N] = t.cents /\ t.cents \in Int
  BY <1>3 DEF CentsOf, Transfer
<1>8. \A k \in P \cup {N} : CentsOf(n)[k] \in Int
  BY <1>4, <1>5, <1>7
<1>9. C!Total(CentsOf(n), P \cup {N}) = C!Total(CentsOf(n), P) + CentsOf(n)[N]
  BY <1>3, <1>4, <1>8, TotalAdd
<1>10. C!Total(CentsOf(m), P) \in Nat
  BY MovesSum
<1>11. CASE counted
  <2>1. W = P \cup {N}
    BY <1>11 DEF N
  <2> QED BY <1>6, <1>7, <1>9, <1>11, <2>1 DEF n
<1>12. CASE ~counted
  <2>1. W = P
    BY <1>12
  <2> QED BY <1>6, <1>10, <1>12, <2>1 DEF n
<1> QED BY <1>11, <1>12

\* Nothing moved yet: surplus and shortage are apart.
LEMMA BalancedAtFirst ==
    ASSUME C!CollateralAssumption, Known
    PROVE  /\ Balanced(C!Unmoved)
           /\ \A s \in Shards : C!Spare(s) \in Nat /\ NeedAtFirst(s) \in Nat
                                /\ (C!Spare(s) = 0 \/ NeedAtFirst(s) = 0)
<1> DEFINE sp == [s \in Shards |-> C!Spare(s)]
           ne == [s \in Shards |-> C!Above(required[s] - opening[s])]
<1>1. \A s \in Shards : /\ opening[s] \in Nat /\ required[s] \in Nat
                        /\ sp[s] = C!Spare(s)
                        /\ ne[s] = NeedAtFirst(s)
                        /\ sp[s] = IF opening[s] > required[s] THEN opening[s] - required[s] ELSE 0
                        /\ ne[s] = IF required[s] > opening[s] THEN required[s] - opening[s] ELSE 0
  BY DEF Known, C!Spare, C!Above, NeedAtFirst
<1>2. C!Unmoved = [need |-> ne, spare |-> sp, moves |-> <<>>]
  BY DEF C!Unmoved
<1>3. sp \in [Shards -> Nat] /\ ne \in [Shards -> Nat]
  <2>1. \A s \in Shards : C!Spare(s) \in Nat /\ C!Above(required[s] - opening[s]) \in Nat
    BY <1>1 DEF NeedAtFirst
  <2> QED BY <2>1
<1> HIDE DEF sp, ne
<1>4. IsFiniteSet(Shards)
  BY ShardsAreFinite
<1>5. C!Total(sp, Shards) + C!Total(required, Shards) = C!Total(ne, Shards) + C!Total(opening, Shards)
  <2>1. \A s \in Shards : /\ sp[s] \in Int /\ ne[s] \in Int /\ opening[s] \in Int /\ required[s] \in Int
                          /\ sp[s] + required[s] = ne[s] + opening[s]
    BY <1>1
  <2> QED BY <1>4, <2>1, TotalBalance
<1>6. /\ C!Total(sp, Shards) \in Int /\ C!Total(ne, Shards) \in Int
      /\ C!Total(opening, Shards) \in Int /\ C!Total(required, Shards) \in Int
  <2>1. \A s \in Shards : sp[s] \in Int /\ ne[s] \in Int /\ opening[s] \in Int /\ required[s] \in Int
    BY <1>1
  <2> QED BY <1>4, <2>1, TotalType
<1>7. C!Total(sp, Shards) - C!Total(ne, Shards) = C!Total(opening, Shards) - C!Total(required, Shards)
  BY <1>5, <1>6
<1>8. <<>> \in Transfers /\ DOMAIN <<>> = {}
  BY DEF Transfers
<1>9. ASSUME NEW s \in Shards
      PROVE  /\ C!Total(CentsOf(<<>>), FromOf(<<>>, s)) = 0
             /\ C!Total(CentsOf(<<>>), ToOf(<<>>, s)) = 0
  <2>1. FromOf(<<>>, s) = {} /\ ToOf(<<>>, s) = {}
    BY <1>8 DEF FromOf, ToOf
  <2> QED BY <2>1, TotalOfNone
<1>10. \A s \in Shards :
          /\ sp[s] + C!Total(CentsOf(<<>>), FromOf(<<>>, s)) = C!Spare(s)
          /\ ne[s] + C!Total(CentsOf(<<>>), ToOf(<<>>, s)) = NeedAtFirst(s)
  BY <1>1, <1>9
<1>11. Balanced(C!Unmoved)
  BY <1>2, <1>3, <1>7, <1>8, <1>10 DEF Balanced
<1>12. \A s \in Shards : C!Spare(s) \in Nat /\ NeedAtFirst(s) \in Nat
                                /\ (C!Spare(s) = 0 \/ NeedAtFirst(s) = 0)
  BY <1>1
<1> QED BY <1>11, <1>12

\* A move keeps the balance, and one shard has nothing more to do with the plan.
LEMMA MovedFacts ==
    ASSUME C!CollateralAssumption, Known, NEW st, Balanced(st), ~C!Over(st)
    PROVE  /\ Balanced(C!Moved(st))
           /\ \E x \in Unsettled(st) : Unsettled(C!Moved(st)) \subseteq Unsettled(st) \ {x}
<1> DEFINE m == C!Move(st.need, st.spare)
           ne == [st.need EXCEPT ![m.to] = st.need[m.to] - m.cents]
           sp == [st.spare EXCEPT ![m.from] = st.spare[m.from] - m.cents]
           mv == Append(st.moves, m)
<1>1. /\ st.need \in [Shards -> Nat] /\ st.spare \in [Shards -> Nat]
      /\ st.moves \in Transfers
  BY DEF Balanced
<1>2. (\E s \in Shards : st.need[s] # 0) /\ (\E s \in Shards : st.spare[s] # 0)
  BY DEF C!Over
<1>3. /\ m \in Transfer
      /\ m.cents <= st.need[m.to] /\ m.cents <= st.spare[m.from]
      /\ m.cents = st.need[m.to] \/ m.cents = st.spare[m.from]
  BY <1>1, <1>2, MoveFacts
<1>4. C!Moved(st) = [need |-> ne, spare |-> sp, moves |-> mv]
  BY DEF C!Moved
<1> HIDE DEF m
<1>5. m.from \in Shards /\ m.to \in Shards /\ m.cents \in Nat /\ m.cents > 0
  BY <1>3 DEF Transfer
<1>6. /\ sp \in [Shards -> Nat] /\ ne \in [Shards -> Nat]
      /\ \A s \in Shards : /\ st.need[s] \in Nat /\ st.spare[s] \in Nat
                           /\ ne[s] = IF s = m.to THEN st.need[s] - m.cents ELSE st.need[s]
                           /\ sp[s] = IF s = m.from THEN st.spare[s] - m.cents ELSE st.spare[s]
  BY <1>1, <1>3, <1>5
<1>7. mv \in Transfers
  BY <1>1, <1>3 DEF Transfers
<1> HIDE DEF ne, sp
<1>8. IsFiniteSet(Shards)
  BY ShardsAreFinite
<1>9. \A s \in Shards :
          /\ C!Spare(s) \in Nat /\ NeedAtFirst(s) \in Nat
          /\ C!Spare(s) = 0 \/ NeedAtFirst(s) = 0
          /\ C!Total(CentsOf(st.moves), FromOf(st.moves, s)) \in Nat
          /\ C!Total(CentsOf(st.moves), ToOf(st.moves, s)) \in Nat
          /\ st.spare[s] + C!Total(CentsOf(st.moves), FromOf(st.moves, s)) = C!Spare(s)
          /\ st.need[s] + C!Total(CentsOf(st.moves), ToOf(st.moves, s)) = NeedAtFirst(s)
  <2>1. ASSUME NEW s \in Shards
        PROVE  /\ C!Total(CentsOf(st.moves), FromOf(st.moves, s)) \in Nat
               /\ C!Total(CentsOf(st.moves), ToOf(st.moves, s)) \in Nat
    <3>1. FromOf(st.moves, s) \in SUBSET DOMAIN st.moves /\ ToOf(st.moves, s) \in SUBSET DOMAIN st.moves
      BY DEF FromOf, ToOf
    <3> QED BY <1>1, <3>1, MovesSum
  <2> QED BY <2>1, BalancedAtFirst DEF Balanced
<1>10. /\ DOMAIN mv = DOMAIN st.moves \cup {Len(st.moves) + 1}
       /\ mv[Len(st.moves) + 1] = m
       /\ \A k \in DOMAIN st.moves : mv[k] = st.moves[k]
  BY <1>1, <1>3 DEF Transfers
<1>11. ASSUME NEW s \in Shards
       PROVE  /\ sp[s] + C!Total(CentsOf(mv), FromOf(mv, s)) = C!Spare(s)
              /\ ne[s] + C!Total(CentsOf(mv), ToOf(mv, s)) = NeedAtFirst(s)
  <2>1. C!Total(CentsOf(mv), FromOf(mv, s))
            = C!Total(CentsOf(st.moves), FromOf(st.moves, s)) + (IF m.from = s THEN m.cents ELSE 0)
    <3>1. FromOf(mv, s) = IF m.from = s THEN FromOf(st.moves, s) \cup {Len(st.moves) + 1}
                          ELSE FromOf(st.moves, s)
      BY <1>10 DEF FromOf
    <3>2. FromOf(st.moves, s) \in SUBSET DOMAIN st.moves /\ FromOf(mv, s) \in SUBSET DOMAIN mv
      BY DEF FromOf
    <3>3. (m.from = s) \in BOOLEAN
      OBVIOUS
    <3> QED BY <1>1, <1>3, <3>1, <3>2, <3>3, MoveAdds
  <2>2. C!Total(CentsOf(mv), ToOf(mv, s))
            = C!Total(CentsOf(st.moves), ToOf(st.moves, s)) + (IF m.to = s THEN m.cents ELSE 0)
    <3>1. ToOf(mv, s) = IF m.to = s THEN ToOf(st.moves, s) \cup {Len(st.moves) + 1}
                        ELSE ToOf(st.moves, s)
      BY <1>10 DEF ToOf
    <3>2. ToOf(st.moves, s) \in SUBSET DOMAIN st.moves /\ ToOf(mv, s) \in SUBSET DOMAIN mv
      BY DEF ToOf
    <3>3. (m.to = s) \in BOOLEAN
      OBVIOUS
    <3> QED BY <1>1, <1>3, <3>1, <3>2, <3>3, MoveAdds
  <2> HIDE DEF mv
  <2> QED BY <1>5, <1>6, <1>9, <2>1, <2>2
<1>12. C!Total(sp, Shards) - C!Total(ne, Shards) = C!Total(opening, Shards) - C!Total(required, Shards)
  <2>1. C!Total(ne, Shards) = C!Total(st.need, Shards) + (0 - m.cents)
    <3>1. 0 - m.cents \in Int /\ ne[m.to] = st.need[m.to] + (0 - m.cents)
      BY <1>5, <1>6
    <3>2. st.need \in [Shards -> Int] /\ ne \in [Shards -> Int]
      BY <1>1, <1>6
    <3>3. \A x \in Shards : x # m.to => ne[x] = st.need[x]
      BY <1>6
    <3> QED BY <1>5, <1>8, <3>1, <3>2, <3>3, TotalChange
  <2>2. C!Total(sp, Shards) = C!Total(st.spare, Shards) + (0 - m.cents)
    <3>1. 0 - m.cents \in Int /\ sp[m.from] = st.spare[m.from] + (0 - m.cents)
      BY <1>5, <1>6
    <3>2. st.spare \in [Shards -> Int] /\ sp \in [Shards -> Int]
      BY <1>1, <1>6
    <3>3. \A x \in Shards : x # m.from => sp[x] = st.spare[x]
      BY <1>6
    <3> QED BY <1>5, <1>8, <3>1, <3>2, <3>3, TotalChange
  <2>3. C!Total(st.need, Shards) \in Int /\ C!Total(st.spare, Shards) \in Int
    <3>1. \A x \in Shards : st.need[x] \in Int /\ st.spare[x] \in Int
      BY <1>6
    <3> QED BY <1>8, <3>1, TotalType
  <2>4. C!Total(st.spare, Shards) - C!Total(st.need, Shards)
           = C!Total(opening, Shards) - C!Total(required, Shards)
    BY DEF Balanced
  <2> QED BY <1>5, <2>1, <2>2, <2>3, <2>4
<1>13. \A k \in DOMAIN mv : C!Spare(mv[k].from) # 0 /\ NeedAtFirst(mv[k].to) # 0
  <2>1. C!Spare(m.from) # 0 /\ NeedAtFirst(m.to) # 0
    BY <1>3, <1>5, <1>6, <1>9
  <2>2. \A k \in DOMAIN st.moves : /\ C!Spare(st.moves[k].from) # 0
                                   /\ NeedAtFirst(st.moves[k].to) # 0
    BY DEF Balanced
  <2> HIDE DEF mv
  <2> QED BY <1>10, <2>1, <2>2
<1>14. Balanced(C!Moved(st))
  <2> HIDE DEF mv
  <2> QED BY <1>4, <1>6, <1>7, <1>11, <1>12, <1>13 DEF Balanced
<1>15. \E x \in Unsettled(st) : Unsettled(C!Moved(st)) \subseteq Unsettled(st) \ {x}
  <2>1. Unsettled(C!Moved(st)) = {s \in Shards : ne[s] # 0 \/ sp[s] # 0}
    BY <1>4 DEF Unsettled
  <2>2. Unsettled(C!Moved(st)) \subseteq Unsettled(st)
    BY <2>1, <1>3, <1>5, <1>6 DEF Unsettled
  <2>3. CASE m.cents = st.need[m.to]
    <3>1. st.spare[m.to] = 0
      <4>1. st.need[m.to] > 0
        BY <1>5, <2>3
      <4>2. NeedAtFirst(m.to) # 0
        BY <1>5, <1>6, <1>9, <4>1
      <4>3. C!Spare(m.to) = 0
        BY <1>5, <1>9, <4>2
      <4> QED BY <1>5, <1>6, <1>9, <4>3
    <3>2. m.from # m.to
      BY <1>3, <1>5, <3>1, <1>6
    <3>3. ne[m.to] = 0 /\ sp[m.to] = 0
      BY <1>5, <1>6, <2>3, <3>1, <3>2
    <3>4. m.to \notin Unsettled(C!Moved(st)) /\ m.to \in Unsettled(st)
      BY <2>1, <2>3, <3>3, <1>5 DEF Unsettled
    <3> QED BY <2>2, <3>4
  <2>4. CASE m.cents = st.spare[m.from]
    <3>1. st.need[m.from] = 0
      BY <1>3, <1>5, <1>6, <1>9
    <3>2. m.from # m.to
      BY <1>3, <1>5, <3>1, <1>6
    <3>3. ne[m.from] = 0 /\ sp[m.from] = 0
      BY <1>5, <1>6, <2>4, <3>1, <3>2
    <3>4. m.from \notin Unsettled(C!Moved(st)) /\ m.from \in Unsettled(st)
      BY <2>1, <2>4, <3>3, <1>5 DEF Unsettled
    <3> QED BY <2>2, <3>4
  <2> QED BY <1>3, <2>3, <2>4
<1> QED BY <1>14, <1>15

\* After each number of moves the plan is balanced, and over or with that many
\* shards fewer to see to.
LEMMA AfterFacts ==
    ASSUME C!CollateralAssumption, Known
    PROVE  \A k \in 0 .. Cardinality(Shards) :
              /\ Balanced(C!After[k])
              /\ \/ C!Over(C!After[k])
                 \/ Cardinality(Unsettled(C!After[k])) <= Cardinality(Shards) - k
<1> DEFINE N == Cardinality(Shards)
           Fine(k) == /\ Balanced(C!After[k])
                      /\ C!Over(C!After[k]) \/ Cardinality(Unsettled(C!After[k])) <= N - k
           G == {k \in 0 .. N : Fine(k)}
<1>1. IsFiniteSet(Shards) /\ N \in Nat
  BY FS_CardinalityType, ShardsAreFinite
<1>2. \A st : Unsettled(st) \subseteq Shards
  BY DEF Unsettled
<1>3. \A st : IsFiniteSet(Unsettled(st)) /\ Cardinality(Unsettled(st)) \in Nat
                  /\ Cardinality(Unsettled(st)) <= N
  BY <1>1, <1>2, FS_Subset, FS_CardinalityType
<1>4. \A k \in 0 .. N : C!After[k] = IF k = 0 THEN C!Unmoved ELSE C!Moved(C!After[k - 1])
  <2> HIDE DEF N
  <2>1. C!After = [k \in 0 .. N |-> IF k = 0 THEN C!Unmoved ELSE C!Moved(C!After[k - 1])]
    BY AfterIs DEF N
  <2> QED BY <2>1
<1>5. 0 \in G
  <2>1. C!After[0] = C!Unmoved /\ 0 \in 0 .. N
    BY <1>1, <1>4
  <2>2. Cardinality(Unsettled(C!After[0])) <= N - 0
    BY <1>1, <1>3
  <2>3. Balanced(C!After[0])
    BY <2>1, BalancedAtFirst
  <2> QED BY <2>1, <2>2, <2>3
<1>6. ASSUME NEW k \in 0 .. N - 1, k \in G PROVE k + 1 \in G
  <2> DEFINE st == C!After[k]
  <2>1. k \in Nat /\ k + 1 \in 0 .. N /\ k + 1 # 0 /\ k + 1 - 1 = k
    BY <1>1, <1>6
  <2>2. C!After[k + 1] = C!Moved(st)
    BY <1>4, <2>1
  <2>3. Balanced(st) /\ (C!Over(st) \/ Cardinality(Unsettled(st)) <= N - k)
    BY <1>6
  <2> HIDE DEF st
  <2>4. CASE C!Over(st)
    <3>1. C!Moved(st) = st
      BY <2>4 DEF C!Moved
    <3> QED BY <2>1, <2>2, <2>3, <2>4, <3>1
  <2>5. CASE ~C!Over(st)
    <3>1. Balanced(C!Moved(st))
      BY <2>3, <2>5, MovedFacts
    <3>2. PICK x \in Unsettled(st) : Unsettled(C!Moved(st)) \subseteq Unsettled(st) \ {x}
      BY <2>3, <2>5, MovedFacts
    <3>3. IsFiniteSet(Unsettled(st) \ {x})
          /\ Cardinality(Unsettled(st) \ {x}) = Cardinality(Unsettled(st)) - 1
      BY <1>3, <3>2, FS_RemoveElement
    <3>4. Cardinality(Unsettled(C!Moved(st))) <= Cardinality(Unsettled(st)) - 1
      BY <3>2, <3>3, FS_Subset
    <3>5. Cardinality(Unsettled(C!Moved(st))) <= N - (k + 1)
      <4>1. Cardinality(Unsettled(st)) \in Nat /\ Cardinality(Unsettled(C!Moved(st))) \in Nat
        BY <1>3
      <4> HIDE DEF N
      <4> QED BY <1>1, <2>1, <2>3, <2>5, <3>4, <4>1
    <3> QED BY <2>1, <2>2, <3>1, <3>5
  <2> QED BY <2>4, <2>5
<1>7. \A k \in 0 .. N - 1 : k \in G => k + 1 \in G
  BY <1>6
<1>8. \A k \in 0 .. N : k \in G
  <2> HIDE DEF G, N
  <2> QED BY <1>1, <1>5, <1>7, CountingUp
<1> QED BY <1>8

\* The plan moves spare cash to shards that are short, no more of it than there
\* is, and enough when there is enough.
LEMMA PlanFacts ==
    ASSUME C!CollateralAssumption, Known
    PROVE  /\ C!Plan \in Transfers
           /\ \A k \in DOMAIN C!Plan : /\ C!Spare(C!Plan[k].from) # 0
                                       /\ NeedAtFirst(C!Plan[k].to) # 0
           /\ \A s \in Shards : C!Total(CentsOf(C!Plan), FromOf(C!Plan, s)) <= C!Spare(s)
           /\ C!Total(opening, Shards) >= C!Total(required, Shards)
                => \A s \in Shards :
                      required[s] <= opening[s] - C!Total(CentsOf(C!Plan), FromOf(C!Plan, s))
                                                + C!Total(CentsOf(C!Plan), ToOf(C!Plan, s))
<1> DEFINE N == Cardinality(Shards)
           st == C!After[N]
<1>1. IsFiniteSet(Shards) /\ N \in Nat /\ N \in 0 .. N
  BY FS_CardinalityType, ShardsAreFinite
<1>2. Balanced(st) /\ (C!Over(st) \/ Cardinality(Unsettled(st)) <= N - N)
  BY <1>1, AfterFacts
<1>3. C!Plan = st.moves
  BY SameFiniteSets DEF C!Plan
<1> HIDE DEF N, st
<1>4. IsFiniteSet(Unsettled(st)) /\ Cardinality(Unsettled(st)) \in Nat
  BY <1>1, FS_Subset, FS_CardinalityType, Unsettled(st) \subseteq Shards DEF Unsettled
<1>5. C!Over(st)
  <2>1. CASE Cardinality(Unsettled(st)) <= N - N
    <3>1. Cardinality(Unsettled(st)) = 0
      BY <1>1, <1>4, <2>1
    <3>2. Unsettled(st) = {}
      BY <1>4, <3>1, FS_EmptySet
    <3>3. \A s \in Shards : st.need[s] = 0
      BY <3>2 DEF Unsettled
    <3> QED BY <3>3 DEF C!Over
  <2> QED BY <1>2, <2>1
<1>6. /\ st.need \in [Shards -> Nat] /\ st.spare \in [Shards -> Nat]
      /\ st.moves \in Transfers
      /\ \A k \in DOMAIN st.moves : /\ C!Spare(st.moves[k].from) # 0
                                    /\ NeedAtFirst(st.moves[k].to) # 0
      /\ C!Total(st.spare, Shards) - C!Total(st.need, Shards)
           = C!Total(opening, Shards) - C!Total(required, Shards)
  BY <1>2 DEF Balanced
<1>7. ASSUME NEW s \in Shards
      PROVE  /\ C!Total(CentsOf(st.moves), FromOf(st.moves, s)) \in Nat
             /\ C!Total(CentsOf(st.moves), ToOf(st.moves, s)) \in Nat
             /\ st.spare[s] \in Nat /\ st.need[s] \in Nat
             /\ st.spare[s] + C!Total(CentsOf(st.moves), FromOf(st.moves, s)) = C!Spare(s)
             /\ st.need[s] + C!Total(CentsOf(st.moves), ToOf(st.moves, s)) = NeedAtFirst(s)
  <2>1. FromOf(st.moves, s) \in SUBSET DOMAIN st.moves /\ ToOf(st.moves, s) \in SUBSET DOMAIN st.moves
    BY DEF FromOf, ToOf
  <2>2. /\ C!Total(CentsOf(st.moves), FromOf(st.moves, s)) \in Nat
        /\ C!Total(CentsOf(st.moves), ToOf(st.moves, s)) \in Nat
    BY <1>6, <2>1, MovesSum
  <2> QED BY <1>2, <1>6, <2>2 DEF Balanced
<1>8. ASSUME NEW s \in Shards
      PROVE  /\ C!Spare(s) \in Nat /\ NeedAtFirst(s) \in Nat
             /\ opening[s] \in Nat /\ required[s] \in Nat
             /\ required[s] = opening[s] - C!Spare(s) + NeedAtFirst(s)
  <2>1. opening[s] \in Nat /\ required[s] \in Nat
    BY DEF Known
  <2> QED BY <2>1 DEF C!Spare, C!Above, NeedAtFirst
<1>9. \A s \in Shards : C!Total(CentsOf(C!Plan), FromOf(C!Plan, s)) <= C!Spare(s)
  BY <1>3, <1>7, <1>8
<1>10. ASSUME C!Total(opening, Shards) >= C!Total(required, Shards), NEW s \in Shards
       PROVE  required[s] <= opening[s] - C!Total(CentsOf(C!Plan), FromOf(C!Plan, s))
                                        + C!Total(CentsOf(C!Plan), ToOf(C!Plan, s))
  <2>1. st.need[s] = 0
    <3>1. CASE \A x \in Shards : st.need[x] = 0
      BY <3>1
    <3>2. CASE \A x \in Shards : st.spare[x] = 0
      <4>1. C!Total(st.spare, Shards) = 0
        BY <1>1, <3>2, TotalOfZeros
      <4>2. \A x \in Shards : st.need[x] \in Nat /\ st.need[x] \in Int /\ opening[x] \in Int /\ required[x] \in Int
        BY <1>6 DEF Known
      <4>3. C!Total(st.need, Shards) \in Int /\ C!Total(opening, Shards) \in Int /\ C!Total(required, Shards) \in Int
        BY <1>1, <4>2, TotalType
      <4>4. C!Total(st.need, Shards) <= 0
        BY <1>6, <1>10, <4>1, <4>3
      <4> QED BY <1>1, <4>2, <4>4, TotalZero
    <3> QED BY <1>5, <3>1, <3>2 DEF C!Over
  <2>2. /\ C!Total(CentsOf(C!Plan), FromOf(C!Plan, s)) = C!Total(CentsOf(st.moves), FromOf(st.moves, s))
        /\ C!Total(CentsOf(C!Plan), ToOf(C!Plan, s)) = C!Total(CentsOf(st.moves), ToOf(st.moves, s))
    BY <1>3
  <2> QED BY <1>7, <1>8, <2>1, <2>2
<1> QED BY <1>3, <1>6, <1>9, <1>10

-----------------------------------------------------------------------------
(* The inductive invariant.                                                    *)

Pair  == [a : Shards, ca : Nat, b : Shards, cb : Nat]
Fates == {"skipped", "accepted", "refused", "lost"}

\* The exchange took the request.
Took == {"accepted", "lost"}

\* Transfers take spare cash to shards that are short, no more than there is.
PlanSpares ==
    /\ transfers \in Transfers
    /\ \A k \in DOMAIN transfers : C!Spare(transfers[k].from) # 0 /\ NeedAtFirst(transfers[k].to) # 0
    /\ \A s \in Shards : C!Total(C!Cents, FromOf(transfers, s)) <= C!Spare(s)

\* They end every shortage when all shards together have what is needed.
PlanSuffices ==
    C!Total(opening, Shards) >= C!Total(required, Shards) =>
        \A s \in Shards :
            required[s] <= opening[s] - C!Total(C!Cents, FromOf(transfers, s)) + C!Total(C!Cents, ToOf(transfers, s))

Types ==
    /\ portfolio \in Seq(Pair) /\ Known /\ required = C!Required /\ dryShards \in BOOLEAN
    /\ stage \in {"start", "send", "await", "done"}
    /\ PlanSpares
    /\ fate \in Seq(Fates) /\ Len(fate) <= Len(transfers)
    /\ arrived \subseteq {k \in C!Requests : fate[k] \in Took}
    /\ bal \in [Shards -> Int] /\ reading \in [Shards -> Nat]
    /\ polls \in 0 .. Polls /\ failures \in 0 .. MaxFailures
    /\ kept \subseteq DOMAIN portfolio
    /\ inFlight \subseteq Shards /\ short \subseteq Shards

\* The transfers taken from s so far, and those that have reached it.
Debited(s)  == {k \in C!Requests : fate[k] \in Took /\ transfers[k].from = s}
Credited(s) == {k \in arrived : transfers[k].to = s}

\* Each shard has what it had, less what was taken, and what has arrived.
BalanceIs ==
    \A s \in Shards : bal[s] = opening[s] - C!Total(C!Cents, Debited(s)) + C!Total(C!Cents, Credited(s))

\* After the requests balances only grow.
ReadingPast ==
    \/ reading = opening
    \/ stage \in {"await", "done"} /\ \A s \in Shards : reading[s] <= bal[s]

NotMoved == transfers = <<>> /\ kept = DOMAIN portfolio /\ (dryShards \/ C!Unfunded(opening) = {})

Decided ==
    /\ PlanSuffices /\ Len(fate) = Len(transfers)
    /\ kept = {k \in DOMAIN portfolio : C!Payable(portfolio[k], reading)}
    /\ inFlight = C!InFlight(reading)

Stages ==
    /\ stage = "start" => transfers = <<>>
    /\ stage \in {"send", "await"} => PlanSuffices /\ ~dryShards
    /\ stage \in {"start", "send"} => reading = opening
    /\ stage = "await" => Len(fate) = Len(transfers)
    /\ stage # "done" => inFlight = {}
    /\ stage = "done" => NotMoved \/ Decided

\* Without a fault every request is taken, where transfers are active.
FaultFree == failures = 0 /\ active = Shards => \A k \in C!Requests : fate[k] = "accepted"

CollateralInv == Types /\ BalanceIs /\ ReadingPast /\ Stages /\ FaultFree

\* The moves of the plan, and the transfers that were taken or have arrived.
LEMMA PlanInUse ==
    ASSUME C!CollateralAssumption, Types
    PROVE  /\ transfers \in Transfers /\ C!Cents = CentsOf(transfers)
           /\ DOMAIN transfers = 1 .. Len(transfers) /\ C!Requests = 1 .. Len(fate)
           /\ Len(transfers) \in Nat /\ Len(fate) \in Nat /\ C!Requests \subseteq DOMAIN transfers
           /\ \A k \in DOMAIN transfers :
                 /\ transfers[k] \in Transfer /\ C!Cents[k] = transfers[k].cents
                 /\ transfers[k].cents \in Nat \ {0}
                 /\ transfers[k].from \in Shards /\ transfers[k].to \in Shards
                 /\ C!Spare(transfers[k].from) # 0 /\ NeedAtFirst(transfers[k].to) # 0
           /\ \A s \in Shards : /\ C!Total(C!Cents, FromOf(transfers, s)) <= C!Spare(s)
                                /\ C!Total(C!Cents, FromOf(transfers, s)) \in Nat
           /\ \A P \in SUBSET DOMAIN transfers : IsFiniteSet(P) /\ C!Total(C!Cents, P) \in Nat
<1>1. C!Cents = CentsOf(transfers)
  BY DEF C!Cents, CentsOf
<1>2. /\ transfers \in Transfers
      /\ \A k \in DOMAIN transfers : C!Spare(transfers[k].from) # 0 /\ NeedAtFirst(transfers[k].to) # 0
      /\ \A s \in Shards : C!Total(C!Cents, FromOf(transfers, s)) <= C!Spare(s)
  BY DEF Types, PlanSpares
<1>3. /\ DOMAIN transfers = 1 .. Len(transfers) /\ C!Requests = 1 .. Len(fate)
      /\ Len(transfers) \in Nat /\ Len(fate) \in Nat /\ C!Requests \subseteq DOMAIN transfers
  <2>1. fate \in Seq(Fates) /\ Len(fate) <= Len(transfers)
    BY DEF Types
  <2>2. DOMAIN transfers = 1 .. Len(transfers) /\ Len(transfers) \in Nat
    BY <1>2 DEF Transfers
  <2> QED BY <2>1, <2>2 DEF C!Requests
<1>4. \A k \in DOMAIN transfers :
         /\ transfers[k] \in Transfer /\ C!Cents[k] = transfers[k].cents
         /\ transfers[k].cents \in Nat \ {0}
         /\ transfers[k].from \in Shards /\ transfers[k].to \in Shards
  <2>1. \A k \in DOMAIN transfers : transfers[k] \in Transfer /\ CentsOf(transfers)[k] = transfers[k].cents
    BY <1>2, MovesSum
  <2> QED BY <1>1, <2>1 DEF Transfer
<1>5. \A P \in SUBSET DOMAIN transfers : IsFiniteSet(P) /\ C!Total(C!Cents, P) \in Nat
  BY <1>1, <1>2, MovesSum
<1>6. \A s \in Shards : C!Total(C!Cents, FromOf(transfers, s)) \in Nat
  <2>1. \A s \in Shards : FromOf(transfers, s) \subseteq DOMAIN transfers
    BY DEF FromOf
  <2> QED BY <1>5, <2>1
<1> QED BY <1>1, <1>2, <1>3, <1>4, <1>5, <1>6

\* The sums the balances are made of.
LEMMA Booked ==
    ASSUME C!CollateralAssumption, Types, NEW s \in Shards
    PROVE  /\ Debited(s) \subseteq FromOf(transfers, s) /\ Debited(s) \subseteq DOMAIN transfers
           /\ Credited(s) \subseteq DOMAIN transfers
           /\ C!Total(C!Cents, Debited(s)) \in Nat /\ C!Total(C!Cents, Credited(s)) \in Nat
           /\ C!Total(C!Cents, Debited(s)) <= C!Spare(s)
           /\ opening[s] \in Nat /\ required[s] \in Nat /\ bal[s] \in Int /\ reading[s] \in Nat
           /\ C!Spare(s) = IF opening[s] > required[s] THEN opening[s] - required[s] ELSE 0
           /\ NeedAtFirst(s) = IF required[s] > opening[s] THEN required[s] - opening[s] ELSE 0
<1>1. /\ Debited(s) \subseteq FromOf(transfers, s) /\ Debited(s) \subseteq DOMAIN transfers
      /\ Credited(s) \subseteq DOMAIN transfers /\ FromOf(transfers, s) \subseteq DOMAIN transfers
  <2>1. C!Requests \subseteq DOMAIN transfers
    BY PlanInUse
  <2>2. arrived \subseteq C!Requests
    BY DEF Types
  <2> QED BY <2>1, <2>2 DEF Debited, Credited, FromOf
<1>2. C!Total(C!Cents, Debited(s)) \in Nat /\ C!Total(C!Cents, Credited(s)) \in Nat
  BY <1>1, PlanInUse
<1>3. C!Total(C!Cents, Debited(s)) <= C!Total(C!Cents, FromOf(transfers, s))
  <2>1. IsFiniteSet(FromOf(transfers, s)) /\ \A k \in FromOf(transfers, s) : C!Cents[k] \in Nat
    BY <1>1, PlanInUse
  <2> QED BY <1>1, <2>1, TotalOfPart
<1>4. opening[s] \in Nat /\ required[s] \in Nat /\ bal[s] \in Int /\ reading[s] \in Nat
  BY DEF Types, Known
<1>5. /\ C!Spare(s) = IF opening[s] > required[s] THEN opening[s] - required[s] ELSE 0
      /\ NeedAtFirst(s) = IF required[s] > opening[s] THEN required[s] - opening[s] ELSE 0
  BY <1>4 DEF C!Spare, C!Above, NeedAtFirst
<1>6. C!Total(C!Cents, FromOf(transfers, s)) <= C!Spare(s) /\ C!Total(C!Cents, FromOf(transfers, s)) \in Nat
  BY PlanInUse
<1>7. C!Total(C!Cents, Debited(s)) <= C!Spare(s)
  BY <1>2, <1>3, <1>4, <1>5, <1>6
<1> QED BY <1>1, <1>2, <1>4, <1>5, <1>7

\* A shard always has what it needs of what it had, and one that was short has
\* what it had and what has reached it.
LEMMA BalanceLow ==
    ASSUME C!CollateralAssumption, Types, BalanceIs, NEW s \in Shards
    PROVE  /\ bal[s] \in Nat
           /\ bal[s] >= C!Min({opening[s], required[s]})
           /\ opening[s] >= required[s] => bal[s] >= required[s]
           /\ NeedAtFirst(s) # 0 => bal[s] = opening[s] + C!Total(C!Cents, Credited(s))
<1>1. bal[s] = opening[s] - C!Total(C!Cents, Debited(s)) + C!Total(C!Cents, Credited(s))
  BY DEF BalanceIs
<1>2. /\ C!Total(C!Cents, Debited(s)) \in Nat /\ C!Total(C!Cents, Credited(s)) \in Nat
      /\ C!Total(C!Cents, Debited(s)) <= C!Spare(s)
      /\ opening[s] \in Nat /\ required[s] \in Nat /\ bal[s] \in Int
      /\ C!Spare(s) = IF opening[s] > required[s] THEN opening[s] - required[s] ELSE 0
      /\ NeedAtFirst(s) = IF required[s] > opening[s] THEN required[s] - opening[s] ELSE 0
  BY Booked
<1>3. C!Min({opening[s], required[s]}) = IF opening[s] <= required[s] THEN opening[s] ELSE required[s]
  BY <1>2, MinOfTwo
<1> QED BY <1>1, <1>2, <1>3

LEMMA TypesThenTypeOK == C!CollateralAssumption /\ Types /\ BalanceIs => C!TypeOK /\ C!MovesOnlySpare
<1> SUFFICES ASSUME C!CollateralAssumption, Types, BalanceIs PROVE C!TypeOK /\ C!MovesOnlySpare
  OBVIOUS
<1>1. C!MovesOnlySpare
  BY BalanceLow DEF C!MovesOnlySpare
<1>2. bal \in [Shards -> Nat]
  BY BalanceLow DEF Types
<1>3. \A k \in C!Requests : fate[k] \in {"skipped", "accepted", "refused", "lost"}
  BY DEF Types, C!Requests, Fates
<1> QED BY <1>1, <1>2, <1>3 DEF Types, C!TypeOK

\* What some of the pairs need on a shard is a part of what all do, and nothing
\* when none of them has a leg there.
LEMMA CostFacts ==
    ASSUME C!CollateralAssumption, portfolio \in Seq(Pair), NEW s \in Shards,
           NEW ks \in SUBSET DOMAIN portfolio
    PROVE  /\ C!Cost(ks, s) \in Nat /\ C!Cost(ks, s) <= C!Required[s]
           /\ (\A k \in ks : portfolio[k].a # s /\ portfolio[k].b # s) => C!Cost(ks, s) = 0
<1> DEFINE D == DOMAIN portfolio
           f == [k \in D |-> C!PairCost(portfolio[k], s)]
<1>1. D = 1 .. Len(portfolio) /\ Len(portfolio) \in Nat /\ \A k \in D : portfolio[k] \in Pair
  OBVIOUS
<1>2. IsFiniteSet(D) /\ IsFiniteSet(ks)
  <2>1. IsFiniteSet(D)
    BY <1>1, FS_Interval
  <2> QED BY <2>1, FS_Subset
<1>3. \A k \in D : f[k] = C!PairCost(portfolio[k], s) /\ f[k] \in Nat
  BY <1>1 DEF C!PairCost, Pair
<1>4. C!Cost(ks, s) = C!Total(f, ks) /\ C!Required[s] = C!Total(f, D)
  BY DEF C!Cost, C!Required
<1> HIDE DEF f
<1>5. C!Total(f, ks) \in Nat
  BY <1>2, <1>3, TotalIsNat
<1>6. C!Total(f, ks) <= C!Total(f, D)
  <2> HIDE DEF D
  <2>1. ks \in SUBSET D
    BY DEF D
  <2> QED BY <1>2, <1>3, <2>1, TotalOfPart
<1>7. ASSUME \A k \in ks : portfolio[k].a # s /\ portfolio[k].b # s PROVE C!Total(f, ks) = 0
  <2>1. \A k \in ks : f[k] = 0
    BY <1>3, <1>7 DEF C!PairCost
  <2> QED BY <1>2, <2>1, TotalOfZeros
<1> QED BY <1>4, <1>5, <1>6, <1>7

\* What is handed on is paid for on every shard.
LEMMA InvPayable ==
    ASSUME C!CollateralAssumption, CollateralInv PROVE C!KeptIsPayable
<1> SUFFICES ASSUME stage = "done", ~dryShards, NEW s \in Shards PROVE C!Cost(kept, s) <= bal[s]
  BY DEF C!KeptIsPayable
<1>1. C!CollateralAssumption /\ Types /\ BalanceIs /\ ReadingPast /\ Stages
  BY DEF CollateralInv
<1>2. portfolio \in Seq(Pair) /\ kept \in SUBSET DOMAIN portfolio /\ required = C!Required
  BY <1>1 DEF Types
<1>3. /\ C!Cost(kept, s) \in Nat /\ C!Cost(kept, s) <= required[s]
      /\ (\A k \in kept : portfolio[k].a # s /\ portfolio[k].b # s) => C!Cost(kept, s) = 0
  BY <1>1, <1>2, CostFacts
<1>4. /\ bal[s] \in Nat /\ opening[s] \in Nat /\ required[s] \in Nat /\ reading[s] \in Nat
      /\ opening[s] >= required[s] => bal[s] >= required[s]
  BY <1>1, BalanceLow, Booked
<1>5. NotMoved \/ Decided
  BY <1>1 DEF Stages
<1>6. CASE NotMoved
  <2>1. C!Unfunded(opening) = {}
    BY <1>6 DEF NotMoved
  <2>2. opening[s] >= required[s]
    BY <1>4, <2>1 DEF C!Unfunded
  <2> QED BY <1>3, <1>4, <2>2
<1>7. CASE Decided
  <2>1. CASE reading[s] >= required[s]
    <3>1. bal[s] >= required[s]
      BY <1>1, <1>4, <2>1 DEF ReadingPast
    <3> QED BY <1>3, <1>4, <3>1
  <2>2. CASE ~(reading[s] >= required[s])
    <3>1. s \in C!Unfunded(reading)
      BY <1>4, <2>2 DEF C!Unfunded
    <3>2. \A k \in kept : portfolio[k].a # s /\ portfolio[k].b # s
      BY <1>7, <3>1 DEF Decided, C!Payable
    <3> QED BY <1>3, <1>4, <3>2
  <2> QED BY <2>1, <2>2
<1> QED BY <1>5, <1>6, <1>7

\* When everything was taken and has arrived, each shard has what it needs if
\* all of them together do.
LEMMA InvPaysOff ==
    ASSUME C!CollateralAssumption, CollateralInv PROVE C!WaitPaysOff
<1> SUFFICES ASSUME stage = "done", failures = 0, active = Shards, reading = bal, arrived = C!Requests,
                    C!Total(opening, Shards) >= C!Total(required, Shards)
             PROVE  kept = DOMAIN portfolio
  BY DEF C!WaitPaysOff
<1>1. C!CollateralAssumption /\ Types /\ BalanceIs /\ Stages /\ FaultFree
  BY DEF CollateralInv
<1>2. NotMoved \/ Decided
  BY <1>1 DEF Stages
<1>3. CASE NotMoved
  BY <1>3 DEF NotMoved
<1>4. CASE Decided
  <2>1. PlanSuffices /\ Len(fate) = Len(transfers)
    BY <1>4 DEF Decided
  <2>2. C!Requests = DOMAIN transfers
    BY <1>1, <2>1, PlanInUse
  <2>3. \A k \in C!Requests : fate[k] = "accepted"
    BY <1>1 DEF FaultFree
  <2>4. ASSUME NEW s \in Shards PROVE required[s] <= bal[s]
    <3>1. required[s] <= opening[s] - C!Total(C!Cents, FromOf(transfers, s)) + C!Total(C!Cents, ToOf(transfers, s))
      BY <2>1 DEF PlanSuffices
    <3>2. Debited(s) = FromOf(transfers, s)
      BY <2>2, <2>3 DEF Debited, FromOf, Took
    <3>3. Credited(s) = ToOf(transfers, s)
      BY <2>2 DEF Credited, ToOf
    <3>4. bal[s] = opening[s] - C!Total(C!Cents, Debited(s)) + C!Total(C!Cents, Credited(s))
      BY <1>1 DEF BalanceIs
    <3> QED BY <3>1, <3>2, <3>3, <3>4
  <2>5. \A s \in Shards : required[s] \in Nat /\ bal[s] \in Int
    BY <1>1, Booked
  <2>6. C!Unfunded(reading) = {}
    BY <2>4, <2>5 DEF C!Unfunded
  <2>7. \A k \in DOMAIN portfolio : C!Payable(portfolio[k], reading)
    BY <2>6 DEF C!Payable
  <2> QED BY <1>4, <2>7 DEF Decided
<1> QED BY <1>2, <1>3, <1>4

\* A shard short by the last read, for which an accepted transfer is under way
\* and no lost one came, is in the alert: it had not even what was accepted.
LEMMA InvReported ==
    ASSUME C!CollateralAssumption, CollateralInv PROVE C!InFlightReported
<1> SUFFICES ASSUME stage = "done", NEW k \in C!Requests,
                    fate[k] = "accepted", k \notin arrived, transfers[k].to \in C!Unfunded(reading),
                    \A j \in arrived : fate[j] = "lost" => transfers[j].to # transfers[k].to
             PROVE  transfers[k].to \in inFlight
  BY DEF C!InFlightReported
<1> DEFINE t == transfers[k].to
<1>1. C!CollateralAssumption /\ Types /\ BalanceIs /\ ReadingPast /\ Stages
  BY DEF CollateralInv
<1>2. /\ k \in DOMAIN transfers /\ t \in Shards /\ NeedAtFirst(t) # 0
      /\ C!Cents[k] = transfers[k].cents /\ transfers[k].cents \in Nat \ {0}
      /\ C!Requests \subseteq DOMAIN transfers
  BY <1>1, PlanInUse
<1> HIDE DEF t
<1>3. Decided
  <2>1. CASE NotMoved
    <3>1. Len(transfers) = 0
      BY <2>1 DEF NotMoved
    <3>2. C!Requests = {}
      BY <1>1, <1>2, <3>1, PlanInUse
    <3> QED BY <3>2
  <2> QED BY <1>1, <2>1 DEF Stages
<1>4. k \in C!AcceptedTo(t) /\ t \in C!Destinations /\ C!AcceptedTo(t) \subseteq DOMAIN transfers
  BY <1>2 DEF C!AcceptedTo, C!Destinations, t
<1>5. Credited(t) \subseteq C!AcceptedTo(t) \ {k}
  <2>1. \A j \in arrived : j \in C!Requests /\ (fate[j] = "accepted" \/ fate[j] = "lost")
    BY <1>1 DEF Types, Took
  <2> QED BY <2>1 DEF Credited, C!AcceptedTo, t
<1>6. C!Total(C!Cents, Credited(t)) + transfers[k].cents <= C!Accepted(t)
  <2>1. /\ IsFiniteSet(C!AcceptedTo(t)) /\ IsFiniteSet(C!AcceptedTo(t) \ {k})
        /\ C!Total(C!Cents, C!AcceptedTo(t) \ {k}) \in Nat
        /\ C!Total(C!Cents, Credited(t)) \in Nat
        /\ \A j \in C!AcceptedTo(t) : C!Cents[j] \in Nat
    <3>1. C!AcceptedTo(t) \ {k} \subseteq DOMAIN transfers /\ Credited(t) \subseteq DOMAIN transfers
      BY <1>4, <1>5
    <3> QED BY <1>1, <1>4, <3>1, PlanInUse
  <2>2. C!Total(C!Cents, C!AcceptedTo(t)) = C!Cents[k] + C!Total(C!Cents, C!AcceptedTo(t) \ {k})
    <3>1. \A j \in C!AcceptedTo(t) : C!Cents[j] \in Int
      BY <2>1
    <3> QED BY <1>4, <2>1, <3>1, TotalRemove
  <2>3. C!Total(C!Cents, Credited(t)) <= C!Total(C!Cents, C!AcceptedTo(t) \ {k})
    <3>1. \A j \in C!AcceptedTo(t) \ {k} : C!Cents[j] \in Nat
      BY <2>1
    <3> QED BY <1>5, <2>1, <3>1, TotalOfPart
  <2> QED BY <1>2, <2>1, <2>2, <2>3 DEF C!Accepted
<1>7. /\ opening[t] \in Nat /\ required[t] \in Nat /\ bal[t] \in Int /\ reading[t] \in Nat
      /\ C!Total(C!Cents, Credited(t)) \in Nat
      /\ bal[t] = opening[t] + C!Total(C!Cents, Credited(t))
  BY <1>1, <1>2, Booked, BalanceLow
<1>8. reading[t] <= bal[t]
  BY <1>1, <1>2, <1>7 DEF ReadingPast
<1>9. C!Accepted(t) \in Nat
  BY <1>1, <1>4, PlanInUse DEF C!Accepted
<1>10. reading[t] < opening[t] + C!Accepted(t) /\ reading[t] < required[t]
  <2>1. t \in C!Unfunded(reading)
    BY DEF t
  <2>2. reading[t] < required[t]
    BY <2>1 DEF C!Unfunded
  <2> QED BY <1>2, <1>6, <1>7, <1>8, <1>9, <2>2
<1>11. C!Awaitable[t] = C!Min({required[t], opening[t] + C!Accepted(t)})
  BY <1>4 DEF C!Awaitable
<1>12. reading[t] < C!Awaitable[t]
  BY <1>7, <1>9, <1>10, <1>11, MinOfTwo
<1>13. t \in C!InFlight(reading)
  BY <1>2, <1>4, <1>12 DEF C!InFlight, t
<1> QED BY <1>3, <1>13 DEF Decided, t

-----------------------------------------------------------------------------
(* Every step keeps the invariant.                                             *)

\* An empty plan takes nothing.
LEMMA NoPlanSpares ==
    ASSUME C!CollateralAssumption, Known, transfers = <<>> PROVE PlanSpares
<1>1. transfers \in Transfers /\ DOMAIN transfers = {}
  BY DEF Transfers
<1>2. ASSUME NEW s \in Shards PROVE C!Total(C!Cents, FromOf(transfers, s)) <= C!Spare(s)
  <2>1. FromOf(transfers, s) = {}
    BY <1>1 DEF FromOf
  <2>2. C!Total(C!Cents, FromOf(transfers, s)) = 0
    BY <2>1, TotalOfNone
  <2>3. C!Spare(s) >= 0
    BY DEF C!Spare, C!Above, Known
  <2> QED BY <2>2, <2>3
<1> QED BY <1>1, <1>2 DEF PlanSpares

LEMMA CollateralInit == C!CollateralAssumption /\ C!Init => CollateralInv
<1> SUFFICES ASSUME C!CollateralAssumption, C!Init PROVE CollateralInv
  OBVIOUS
<1>1. portfolio \in Seq(Pair) /\ opening \in [Shards -> Nat] /\ required = C!Required
  BY DEF C!CollateralAssumption, C!Init, Pair
<1>2. required \in [Shards -> Nat]
  <2>1. \A s \in Shards : C!Cost(DOMAIN portfolio, s) \in Nat
    BY <1>1, CostFacts
  <2> QED BY <1>1, <2>1 DEF C!Required
<1>3. Known
  BY <1>1, <1>2 DEF Known
<1>4. PlanSpares
  BY <1>3, NoPlanSpares DEF C!Init
<1>5. C!Requests = {} /\ fate \in Seq(Fates) /\ Len(fate) <= Len(transfers) /\ arrived = {}
  BY DEF C!Init, C!Requests
<1>6. Types
  BY <1>1, <1>3, <1>4, <1>5 DEF Types, C!Init, C!CollateralAssumption
<1>7. BalanceIs
  <2>1. ASSUME NEW s \in Shards
        PROVE  bal[s] = opening[s] - C!Total(C!Cents, Debited(s)) + C!Total(C!Cents, Credited(s))
    <3>1. Debited(s) = {} /\ Credited(s) = {}
      BY <1>5 DEF Debited, Credited
    <3>2. C!Total(C!Cents, Debited(s)) = 0 /\ C!Total(C!Cents, Credited(s)) = 0
      BY <3>1, TotalOfNone
    <3>3. bal[s] = opening[s] /\ opening[s] \in Nat
      BY <1>1 DEF C!Init
    <3> QED BY <3>2, <3>3
  <2> QED BY <2>1 DEF BalanceIs
<1>8. ReadingPast /\ Stages /\ FaultFree
  BY <1>5 DEF C!Init, ReadingPast, Stages, FaultFree
<1> QED BY <1>6, <1>7, <1>8 DEF CollateralInv

\* What depends on the call's arguments alone, and on the plan.
LEMMA ArgumentsStay ==
    ASSUME UNCHANGED C!arguments
    PROVE  /\ Known' <=> Known
           /\ C!Required' = C!Required
           /\ \A s \in Shards : C!Spare(s)' = C!Spare(s) /\ NeedAtFirst(s)' = NeedAtFirst(s)
           /\ UNCHANGED transfers => /\ C!Cents' = C!Cents
                                     /\ PlanSpares' <=> PlanSpares
                                     /\ PlanSuffices' <=> PlanSuffices
<1>1. UNCHANGED <<portfolio, opening, active, dryShards, required>>
  BY DEF C!arguments
<1>2. Known' <=> Known
  BY <1>1 DEF Known
<1>3. C!Required' = C!Required
  BY <1>1 DEF C!Required, C!Cost
<1>4. \A s \in Shards : C!Spare(s)' = C!Spare(s) /\ NeedAtFirst(s)' = NeedAtFirst(s)
  BY <1>1 DEF C!Spare, NeedAtFirst
<1>5. ASSUME UNCHANGED transfers
      PROVE  C!Cents' = C!Cents /\ (PlanSpares' <=> PlanSpares) /\ (PlanSuffices' <=> PlanSuffices)
  <2>1. C!Cents' = C!Cents
    BY <1>5 DEF C!Cents
  <2>2. PlanSpares' <=> PlanSpares
    BY <1>1, <1>5, <2>1 DEF PlanSpares, C!Spare, NeedAtFirst
  <2>3. PlanSuffices' <=> PlanSuffices
    BY <1>1, <1>5, <2>1 DEF PlanSuffices
  <2> QED BY <2>1, <2>2, <2>3
<1> QED BY <1>2, <1>3, <1>4, <1>5

\* Nothing is taken and nothing arrives: the balances are what they were.
LEMMA BooksStay ==
    ASSUME UNCHANGED <<opening, transfers, fate, arrived, bal>>, BalanceIs PROVE BalanceIs'
<1>1. C!Cents' = C!Cents
  BY DEF C!Cents
<1>2. \A s \in Shards : Debited(s)' = Debited(s) /\ Credited(s)' = Credited(s)
  BY DEF Debited, Credited, C!Requests
<1> QED BY <1>1, <1>2 DEF BalanceIs

\* No transfers: every pair is handed back.
LEMMA NoTransfersStep ==
    ASSUME C!CollateralAssumption, CollateralInv, C!NoTransfers PROVE CollateralInv'
<1>1. /\ UNCHANGED C!arguments /\ stage = "start" /\ stage' = "done" /\ kept' = DOMAIN portfolio
      /\ UNCHANGED <<transfers, fate, arrived, bal, reading, polls, inFlight, short, failures>>
      /\ UNCHANGED <<portfolio, opening, active, dryShards, required>>
  BY DEF C!NoTransfers, C!arguments
<1>2. Types /\ BalanceIs /\ ReadingPast /\ Stages /\ FaultFree
  BY DEF CollateralInv
<1>3. (Known' <=> Known) /\ C!Required' = C!Required /\ (PlanSpares' <=> PlanSpares)
  BY <1>1, ArgumentsStay
<1>4. Types'
  BY <1>1, <1>2, <1>3 DEF Types, C!Requests
<1>5. BalanceIs'
  BY <1>1, <1>2, BooksStay
<1>6. ReadingPast' /\ FaultFree'
  BY <1>1, <1>2 DEF ReadingPast, FaultFree, Stages, C!Requests
<1>7. NotMoved'
  <2>1. transfers = <<>>
    BY <1>1, <1>2 DEF Stages
  <2>2. dryShards \/ C!Unfunded(opening) = {}
    BY DEF C!NoTransfers
  <2> QED BY <1>1, <2>1, <2>2 DEF NotMoved, C!Unfunded
<1>8. Stages'
  BY <1>1, <1>7 DEF Stages
<1> QED BY <1>4, <1>5, <1>6, <1>8 DEF CollateralInv

\* The plan is made before anything is taken.
LEMMA BeginStep ==
    ASSUME C!CollateralAssumption, CollateralInv, C!Begin PROVE CollateralInv'
<1>1. /\ UNCHANGED C!arguments /\ stage = "start" /\ stage' = "send" /\ transfers' = C!Plan /\ ~dryShards
      /\ UNCHANGED <<fate, arrived, bal, reading, polls, kept, inFlight, short, failures>>
      /\ UNCHANGED <<portfolio, opening, active, dryShards, required>>
  BY DEF C!Begin, C!arguments
<1>2. Types /\ BalanceIs /\ ReadingPast /\ Stages /\ FaultFree
  BY DEF CollateralInv
<1>3. /\ Known' <=> Known
      /\ C!Required' = C!Required
      /\ \A s \in Shards : C!Spare(s)' = C!Spare(s) /\ NeedAtFirst(s)' = NeedAtFirst(s)
  BY <1>1, ArgumentsStay
<1>4. Known
  BY <1>2 DEF Types
<1>5. C!Cents' = CentsOf(C!Plan)
  BY <1>1 DEF C!Cents, CentsOf
<1>6. /\ C!Plan \in Transfers
      /\ \A k \in DOMAIN C!Plan : /\ C!Spare(C!Plan[k].from) # 0
                                  /\ NeedAtFirst(C!Plan[k].to) # 0
      /\ \A s \in Shards : C!Total(CentsOf(C!Plan), FromOf(C!Plan, s)) <= C!Spare(s)
      /\ C!Total(opening, Shards) >= C!Total(required, Shards)
           => \A s \in Shards :
                 required[s] <= opening[s] - C!Total(CentsOf(C!Plan), FromOf(C!Plan, s))
                                           + C!Total(CentsOf(C!Plan), ToOf(C!Plan, s))
  BY <1>4, PlanFacts
<1>7. PlanSpares'
  BY <1>1, <1>5, <1>6 DEF PlanSpares, C!Spare, NeedAtFirst
<1>8. PlanSuffices'
  BY <1>1, <1>5, <1>6 DEF PlanSuffices
<1>9. C!Requests = {} /\ C!Requests' = {} /\ arrived = {} /\ Len(fate) = 0
  <2>1. transfers = <<>>
    BY <1>1, <1>2 DEF Stages
  <2>2. Len(fate) \in Nat /\ Len(fate) <= 0 /\ C!Requests = 1 .. Len(fate)
    BY <1>2, <2>1 DEF Types, C!Requests
  <2> QED BY <1>1, <1>2, <2>2 DEF Types, C!Requests
<1>10. Len(fate) <= Len(transfers')
  BY <1>1, <1>6, <1>9 DEF Transfers
<1>11. Types'
  BY <1>1, <1>2, <1>3, <1>7, <1>9, <1>10 DEF Types
<1>12. BalanceIs'
  <2>1. \A s \in Shards : Debited(s) = {} /\ Credited(s) = {} /\ Debited(s)' = {} /\ Credited(s)' = {}
    BY <1>1, <1>9 DEF Debited, Credited
  <2>2. \A s \in Shards : bal[s] = opening[s] - 0 + 0
    BY <1>2, <2>1, TotalOfNone DEF BalanceIs
  <2>3. C!Total(C!Cents', {}) = 0
    BY TotalOfNone
  <2>4. \A s \in Shards : bal'[s] = opening'[s] - C!Total(C!Cents', Debited(s)') + C!Total(C!Cents', Credited(s)')
    BY <1>1, <2>1, <2>2, <2>3
  <2> QED BY <2>4 DEF BalanceIs
<1>13. ReadingPast' /\ FaultFree' /\ Stages'
  BY <1>1, <1>2, <1>8, <1>9 DEF ReadingPast, FaultFree, Stages
<1> QED BY <1>11, <1>12, <1>13 DEF CollateralInv

\* One request more is known of: what was taken from each shard by it.
LEMMA OneMoreFate ==
    ASSUME C!CollateralAssumption, Types, Len(fate) < Len(transfers), UNCHANGED transfers,
           NEW f \in Fates, fate' = Append(fate, f)
    PROVE  /\ C!Following \in Transfer /\ C!Following = transfers[Len(fate) + 1]
           /\ C!Following.from \in Shards /\ C!Following.to \in Shards
           /\ fate' \in Seq(Fates) /\ Len(fate') <= Len(transfers)
           /\ C!Requests' = C!Requests \cup {Len(fate) + 1} /\ Len(fate) + 1 \notin C!Requests
           /\ \A k \in C!Requests : fate'[k] = fate[k]
           /\ fate'[Len(fate) + 1] = f
           /\ \A s \in Shards :
                 C!Total(C!Cents', Debited(s)')
                    = C!Total(C!Cents, Debited(s))
                      + (IF f \in Took /\ C!Following.from = s THEN C!Following.cents ELSE 0)
<1> DEFINE n == Len(fate) + 1
<1>1. /\ C!Requests = 1 .. Len(fate) /\ Len(fate) \in Nat /\ Len(transfers) \in Nat
      /\ DOMAIN transfers = 1 .. Len(transfers) /\ C!Requests \subseteq DOMAIN transfers
  BY PlanInUse
<1>2. n \in DOMAIN transfers /\ n \notin C!Requests /\ C!Following = transfers[n]
  BY <1>1 DEF C!Following
<1>3. /\ fate' \in Seq(Fates) /\ Len(fate') = n /\ C!Requests' = C!Requests \cup {n}
      /\ \A k \in C!Requests : fate'[k] = fate[k]
      /\ fate'[n] = f
  BY <1>1 DEF Types, C!Requests
<1>4. /\ C!Following \in Transfer /\ C!Following.from \in Shards /\ C!Following.to \in Shards
      /\ C!Following.cents \in Nat /\ C!Cents[n] = C!Following.cents
  BY <1>2, PlanInUse
<1>5. C!Cents' = C!Cents
  BY DEF C!Cents
<1>6. ASSUME NEW s \in Shards
      PROVE  C!Total(C!Cents', Debited(s)')
                = C!Total(C!Cents, Debited(s))
                  + (IF f \in Took /\ C!Following.from = s THEN C!Following.cents ELSE 0)
  <2>1. Debited(s) \subseteq DOMAIN transfers /\ n \notin Debited(s)
    BY <1>1, <1>2 DEF Debited
  <2>2. /\ IsFiniteSet(Debited(s)) /\ C!Total(C!Cents, Debited(s)) \in Nat
        /\ \A k \in Debited(s) : C!Cents[k] \in Int
    BY <2>1, PlanInUse
  <2>3. CASE f \in Took /\ C!Following.from = s
    <3>1. Debited(s)' = Debited(s) \cup {n}
      BY <1>2, <1>3, <2>3 DEF Debited
    <3>2. \A k \in Debited(s) \cup {n} : C!Cents[k] \in Int
      BY <1>4, <2>2
    <3> HIDE DEF n
    <3>3. C!Total(C!Cents, Debited(s) \cup {n}) = C!Total(C!Cents, Debited(s)) + C!Cents[n]
      BY <2>1, <2>2, <3>2, TotalAdd
    <3> QED BY <1>4, <1>5, <2>3, <3>1, <3>3
  <2>4. CASE ~(f \in Took /\ C!Following.from = s)
    <3>1. Debited(s)' = Debited(s)
      BY <1>2, <1>3, <2>4 DEF Debited
    <3> QED BY <1>5, <2>2, <2>4, <3>1
  <2> QED BY <2>3, <2>4
<1> QED BY <1>1, <1>2, <1>3, <1>4, <1>6

\* What has arrived is what it was.
LEMMA NothingArrives ==
    ASSUME UNCHANGED <<transfers, arrived>>
    PROVE  \A s \in Shards : C!Total(C!Cents', Credited(s)') = C!Total(C!Cents, Credited(s))
<1>1. C!Cents' = C!Cents
  BY DEF C!Cents
<1>2. \A s \in Shards : Credited(s)' = Credited(s)
  BY DEF Credited
<1> QED BY <1>1, <1>2

\* A transfer that is not requested, or refused, takes nothing; one that was
\* taken is off its source's balance.
LEMMA RequestStep ==
    ASSUME C!CollateralAssumption, CollateralInv, UNCHANGED C!arguments,
           stage = "send", Len(fate) < Len(transfers),
           NEW f \in Fates, fate' = Append(fate, f),
           bal' = IF f \in Took
                  THEN [bal EXCEPT ![C!Following.from] = @ - C!Following.cents] ELSE bal,
           failures' \in 0 .. MaxFailures,
           active = Shards /\ failures' = 0 => f = "accepted" /\ failures = 0,
           UNCHANGED <<transfers, stage, arrived, reading, polls, kept, inFlight, short>>
    PROVE  CollateralInv'
<1>1. Types /\ BalanceIs /\ ReadingPast /\ Stages /\ FaultFree
  BY DEF CollateralInv
<1>2. UNCHANGED <<portfolio, opening, active, dryShards, required>>
  BY DEF C!arguments
<1>3. /\ (Known' <=> Known) /\ C!Required' = C!Required
      /\ (PlanSpares' <=> PlanSpares) /\ (PlanSuffices' <=> PlanSuffices)
  BY ArgumentsStay
<1>4. /\ C!Following \in Transfer /\ C!Following = transfers[Len(fate) + 1]
      /\ C!Following.from \in Shards /\ C!Following.to \in Shards
      /\ fate' \in Seq(Fates) /\ Len(fate') <= Len(transfers)
      /\ C!Requests' = C!Requests \cup {Len(fate) + 1} /\ Len(fate) + 1 \notin C!Requests
      /\ \A k \in C!Requests : fate'[k] = fate[k]
      /\ fate'[Len(fate) + 1] = f
      /\ \A s \in Shards :
            C!Total(C!Cents', Debited(s)')
               = C!Total(C!Cents, Debited(s))
                 + (IF f \in Took /\ C!Following.from = s THEN C!Following.cents ELSE 0)
  BY <1>1, OneMoreFate
<1>5. C!Following.cents \in Nat
  BY <1>4 DEF Transfer
<1>6. \A s \in Shards :
         /\ bal[s] \in Int /\ opening[s] \in Nat
         /\ bal'[s] = bal[s] - (IF f \in Took /\ C!Following.from = s THEN C!Following.cents ELSE 0)
  <2>1. bal \in [Shards -> Int] /\ \A s \in Shards : bal[s] \in Int /\ opening[s] \in Nat
    BY <1>1 DEF Types, Known
  <2> QED BY <1>4, <1>5, <2>1
<1>7. bal' \in [Shards -> Int]
  <2>1. bal \in [Shards -> Int]
    BY <1>1 DEF Types
  <2> QED BY <1>4, <1>5, <2>1
<1>8. arrived' \subseteq {k \in C!Requests' : fate'[k] \in Took}
  BY <1>1, <1>4 DEF Types
<1>9. Types'
  BY <1>1, <1>2, <1>3, <1>4, <1>7, <1>8 DEF Types
<1>10. BalanceIs'
  <2>1. ASSUME NEW s \in Shards
        PROVE  bal'[s] = opening'[s] - C!Total(C!Cents', Debited(s)') + C!Total(C!Cents', Credited(s)')
    <3>1. bal[s] = opening[s] - C!Total(C!Cents, Debited(s)) + C!Total(C!Cents, Credited(s))
      BY <1>1 DEF BalanceIs
    <3>2. C!Total(C!Cents', Credited(s)') = C!Total(C!Cents, Credited(s))
      BY NothingArrives
    <3>3. C!Total(C!Cents, Debited(s)) \in Nat /\ C!Total(C!Cents, Credited(s)) \in Nat
      BY <1>1, Booked
    <3> DEFINE gone == IF f \in Took /\ C!Following.from = s THEN C!Following.cents ELSE 0
    <3>4. gone \in Nat
      BY <1>5
    <3>5. C!Total(C!Cents', Debited(s)') = C!Total(C!Cents, Debited(s)) + gone
      BY <1>4
    <3>6. bal'[s] = bal[s] - gone /\ bal[s] \in Int /\ opening[s] \in Nat
      BY <1>6
    <3>7. opening'[s] = opening[s]
      BY <1>2
    <3> HIDE DEF gone
    <3> QED BY <3>1, <3>2, <3>3, <3>4, <3>5, <3>6, <3>7
  <2> QED BY <2>1 DEF BalanceIs
<1>11. reading' = opening' /\ ReadingPast' /\ Stages'
  BY <1>1, <1>2, <1>3 DEF ReadingPast, Stages
<1>12. FaultFree'
  BY <1>1, <1>2, <1>4 DEF FaultFree
<1> QED BY <1>9, <1>10, <1>11, <1>12 DEF CollateralInv

\* A transfer that arrives is on its destination's balance.
LEMMA CreditStep ==
    ASSUME C!CollateralAssumption, CollateralInv, NEW k \in C!Requests, C!Settle(k)
    PROVE  CollateralInv'
<1>1. Types /\ BalanceIs /\ ReadingPast /\ Stages /\ FaultFree
  BY DEF CollateralInv
<1>2. /\ UNCHANGED C!arguments /\ UNCHANGED <<portfolio, opening, active, dryShards, required>>
      /\ UNCHANGED <<transfers, stage, fate, reading, polls, kept, inFlight, short, failures>>
      /\ k \notin arrived /\ arrived' = arrived \cup {k}
      /\ bal' = [bal EXCEPT ![transfers[k].to] = bal[transfers[k].to] + transfers[k].cents]
      /\ fate[k] \in Took
  BY DEF C!Settle, C!arguments, Took
<1>3. /\ (Known' <=> Known) /\ C!Required' = C!Required /\ C!Cents' = C!Cents
      /\ (PlanSpares' <=> PlanSpares) /\ (PlanSuffices' <=> PlanSuffices)
  BY <1>2, ArgumentsStay
<1>4. /\ k \in DOMAIN transfers /\ transfers[k].to \in Shards /\ transfers[k].cents \in Nat
      /\ C!Cents[k] = transfers[k].cents
  BY <1>1, PlanInUse
<1>5. bal \in [Shards -> Int] /\ reading \in [Shards -> Nat]
  BY <1>1 DEF Types
<1>6. /\ bal' \in [Shards -> Int]
      /\ \A s \in Shards : /\ bal[s] \in Int /\ reading[s] \in Nat
                           /\ bal'[s] = bal[s] + (IF transfers[k].to = s THEN transfers[k].cents ELSE 0)
  BY <1>2, <1>4, <1>5
<1>7. C!Requests' = C!Requests
  BY <1>2 DEF C!Requests
<1>8. Types'
  BY <1>1, <1>2, <1>3, <1>6, <1>7 DEF Types
<1>9. BalanceIs'
  <2>1. ASSUME NEW s \in Shards
        PROVE  bal'[s] = opening'[s] - C!Total(C!Cents', Debited(s)') + C!Total(C!Cents', Credited(s)')
    <3>1. bal[s] = opening[s] - C!Total(C!Cents, Debited(s)) + C!Total(C!Cents, Credited(s))
      BY <1>1 DEF BalanceIs
    <3>2. Debited(s)' = Debited(s)
      BY <1>2, <1>7 DEF Debited
    <3>3. C!Total(C!Cents, Debited(s)) \in Nat /\ C!Total(C!Cents, Credited(s)) \in Nat
          /\ opening[s] \in Nat
      BY <1>1, Booked
    <3>4. C!Total(C!Cents, Credited(s)')
             = C!Total(C!Cents, Credited(s)) + (IF transfers[k].to = s THEN transfers[k].cents ELSE 0)
      <4>1. Credited(s) \subseteq DOMAIN transfers
        BY <1>1, Booked
      <4>2. IsFiniteSet(Credited(s)) /\ \A j \in Credited(s) : C!Cents[j] \in Int
        BY <1>1, <4>1, PlanInUse
      <4>3. CASE transfers[k].to = s
        <5>1. Credited(s)' = Credited(s) \cup {k} /\ k \notin Credited(s)
          BY <1>2, <4>3 DEF Credited
        <5>2. \A j \in Credited(s) \cup {k} : C!Cents[j] \in Int
          BY <1>4, <4>2
        <5>3. C!Total(C!Cents, Credited(s) \cup {k}) = C!Total(C!Cents, Credited(s)) + C!Cents[k]
          BY <4>2, <5>1, <5>2, TotalAdd
        <5> QED BY <1>4, <4>3, <5>1, <5>3
      <4>4. CASE transfers[k].to # s
        <5>1. Credited(s)' = Credited(s)
          BY <1>2, <4>4 DEF Credited
        <5> QED BY <3>3, <4>4, <5>1
      <4> QED BY <4>3, <4>4
    <3> QED BY <1>2, <1>3, <1>4, <1>6, <3>1, <3>2, <3>3, <3>4
  <2> QED BY <2>1 DEF BalanceIs
<1>10. ReadingPast'
  <2>1. CASE reading = opening
    BY <1>2, <2>1 DEF ReadingPast
  <2>2. CASE stage \in {"await", "done"} /\ \A s \in Shards : reading[s] <= bal[s]
    <3>1. \A s \in Shards : reading'[s] <= bal'[s]
      BY <1>2, <1>4, <1>6, <2>2
    <3> QED BY <1>2, <2>2, <3>1 DEF ReadingPast
  <2> QED BY <1>1, <2>1, <2>2 DEF ReadingPast
<1>11. FaultFree'
  BY <1>1, <1>2, <1>7 DEF FaultFree
<1>12. NotMoved => NotMoved'
  BY <1>2 DEF NotMoved, C!Unfunded
<1>13. Decided => Decided'
  BY <1>2, <1>3, <1>7 DEF Decided, C!Payable, C!Unfunded, C!InFlight, C!Awaitable, C!Destinations, C!Accepted, C!AcceptedTo
<1>14. Stages'
  BY <1>1, <1>2, <1>3, <1>12, <1>13 DEF Stages
<1> QED BY <1>8, <1>9, <1>10, <1>11, <1>14 DEF CollateralInv

\* The decision is made on the reading that is kept.
LEMMA DecideStep ==
    ASSUME C!CollateralAssumption, CollateralInv, UNCHANGED C!arguments,
           UNCHANGED <<transfers, fate, arrived, bal>>,
           stage \in {"send", "await"}, Len(fate) = Len(transfers), C!Decide(reading')
    PROVE  Decided' /\ inFlight' = C!InFlight(reading')
<1>1. UNCHANGED <<portfolio, opening, active, dryShards, required>>
  BY DEF C!arguments
<1>2. PlanSuffices' <=> PlanSuffices
  BY ArgumentsStay
<1>3. PlanSuffices
  BY DEF CollateralInv, Stages
<1>4. kept' = {k \in DOMAIN portfolio : C!Payable(portfolio[k], reading')}
  BY DEF C!Decide
<1>5. kept' = {k \in DOMAIN portfolio' : C!Payable(portfolio[k], reading)'}
  BY <1>1, <1>4 DEF C!Payable, C!Unfunded
<1>6. inFlight' = C!InFlight(reading')
  BY DEF C!Decide
<1>7. inFlight' = C!InFlight(reading)'
  BY <1>1, <1>6 DEF C!InFlight, C!Unfunded, C!Awaitable, C!Destinations, C!Accepted, C!AcceptedTo, C!Requests, C!Cents
<1> QED BY <1>2, <1>3, <1>5, <1>6, <1>7 DEF Decided

\* Once all requests are made a decision, or another look, changes no balance.
LEMMA LookStep ==
    ASSUME C!CollateralAssumption, CollateralInv, UNCHANGED C!arguments,
           UNCHANGED <<transfers, fate, arrived, bal>>,
           stage \in {"send", "await"}, Len(fate) = Len(transfers),
           reading' = opening \/ (reading' \in [Shards -> Nat] /\ \A s \in Shards : reading'[s] <= bal[s]),
           polls' \in 0 .. Polls, failures' \in failures .. MaxFailures,
           \/ C!Decide(reading')
           \/ stage' = "await" /\ UNCHANGED <<kept, inFlight, short>>
    PROVE  CollateralInv'
<1>1. Types /\ BalanceIs /\ ReadingPast /\ Stages /\ FaultFree
  BY DEF CollateralInv
<1>2. UNCHANGED <<portfolio, opening, active, dryShards, required>>
  BY DEF C!arguments
<1>3. /\ (Known' <=> Known) /\ C!Required' = C!Required
      /\ (PlanSpares' <=> PlanSpares) /\ (PlanSuffices' <=> PlanSuffices)
  BY ArgumentsStay
<1>4. C!Requests' = C!Requests
  BY DEF C!Requests
<1>5. reading' \in [Shards -> Nat] /\ failures' \in 0 .. MaxFailures
  BY <1>1 DEF Types, Known
<1>6. /\ stage' \in {"await", "done"} /\ kept' \subseteq DOMAIN portfolio
      /\ inFlight' \subseteq Shards /\ short' \subseteq Shards
  <2>1. CASE C!Decide(reading')
    BY <2>1 DEF C!Decide, C!InFlight, C!Unfunded
  <2>2. CASE stage' = "await" /\ UNCHANGED <<kept, inFlight, short>>
    BY <1>1, <2>2 DEF Types
  <2> QED BY <2>1, <2>2
<1>7. Types'
  BY <1>1, <1>2, <1>3, <1>4, <1>5, <1>6 DEF Types
<1>8. BalanceIs'
  BY <1>1, <1>2, BooksStay
<1>9. ReadingPast'
  BY <1>2, <1>6 DEF ReadingPast
<1>10. FaultFree'
  BY <1>1, <1>2, <1>4 DEF FaultFree, Types
<1>11. Stages'
  <2>1. PlanSuffices /\ ~dryShards /\ inFlight = {}
    BY <1>1 DEF Stages
  <2>2. CASE C!Decide(reading')
    <3>1. Decided'
      BY <2>2, DecideStep
    <3>2. stage' = "done"
      BY <2>2 DEF C!Decide
    <3> QED BY <3>1, <3>2 DEF Stages
  <2>3. CASE stage' = "await" /\ UNCHANGED <<kept, inFlight, short>>
    BY <1>2, <1>3, <2>1, <2>3 DEF Stages
  <2> QED BY <2>2, <2>3
<1> QED BY <1>7, <1>8, <1>9, <1>10, <1>11 DEF CollateralInv

\* What one look changes.
LEMMA PollIs ==
    ASSUME C!CollateralAssumption, CollateralInv, C!Poll
    PROVE  /\ UNCHANGED C!arguments /\ UNCHANGED <<transfers, fate, arrived, bal>>
           /\ stage = "await" /\ Len(fate) = Len(transfers)
           /\ reading' = C!Nothing \/ reading' = bal
           /\ reading' \in [Shards -> Nat] /\ \A s \in Shards : reading'[s] <= bal[s]
           /\ polls' \in 0 .. Polls /\ failures' \in failures .. MaxFailures
           /\ \/ C!Decide(reading')
              \/ stage' = "await" /\ UNCHANGED <<kept, inFlight, short>>
<1>1. Types /\ BalanceIs /\ Stages
  BY DEF CollateralInv
<1>2. /\ stage = "await" /\ UNCHANGED C!arguments /\ UNCHANGED <<transfers, fate, arrived, bal>>
      /\ polls' = C!Min({polls + 1, Polls})
  BY DEF C!Poll
<1>3. \A s \in Shards : bal[s] \in Nat
  BY <1>1, BalanceLow
<1>4. PICK failed \in BOOLEAN, late \in BOOLEAN :
          /\ failed => failures < MaxFailures
          /\ reading' = IF failed THEN C!Nothing ELSE C!BalancesRead
          /\ failures' = IF failed THEN failures + 1 ELSE failures
          /\ IF late \/ \A s \in C!Destinations : reading'[s] >= C!Awaitable[s]
             THEN C!Decide(reading')
             ELSE UNCHANGED <<stage, kept, inFlight, short>>
  BY DEF C!Poll
<1>5. failures \in 0 .. MaxFailures /\ polls \in 0 .. Polls /\ MaxFailures \in Nat /\ Polls \in Nat
  BY <1>1 DEF Types, C!CollateralAssumption
<1>6. reading' = C!Nothing \/ reading' = bal
  BY <1>4 DEF C!BalancesRead
<1>7. reading' \in [Shards -> Nat] /\ \A s \in Shards : reading'[s] <= bal[s]
  <2>1. bal \in [Shards -> Nat]
    BY <1>1, <1>3 DEF Types
  <2> QED BY <1>3, <1>6, <2>1 DEF C!Nothing
<1>8. failures' \in failures .. MaxFailures
  BY <1>4, <1>5
<1>9. polls' \in 0 .. Polls
  BY <1>2, <1>5, MinOfTwo
<1>10. C!Decide(reading') \/ (stage' = "await" /\ UNCHANGED <<kept, inFlight, short>>)
  BY <1>2, <1>4
<1>11. Len(fate) = Len(transfers)
  BY <1>1, <1>2 DEF Stages
<1> QED BY <1>2, <1>6, <1>7, <1>8, <1>9, <1>10, <1>11

\* Every step keeps the invariant.
LEMMA CollateralStep ==
    C!CollateralAssumption /\ CollateralInv /\ [C!Next]_(C!vars) => CollateralInv'
<1> SUFFICES ASSUME C!CollateralAssumption, CollateralInv, [C!Next]_(C!vars) PROVE CollateralInv'
  OBVIOUS
<1>1. Types /\ BalanceIs /\ ReadingPast /\ Stages /\ FaultFree
  BY DEF CollateralInv
<1>2. failures \in 0 .. MaxFailures /\ MaxFailures \in Nat /\ polls \in 0 .. Polls
  BY <1>1 DEF Types, C!CollateralAssumption
<1>3. CASE C!NoTransfers
  BY <1>3, NoTransfersStep
<1>4. CASE C!Begin
  BY <1>4, BeginStep
<1>5. CASE C!Skip
  <2>1. /\ UNCHANGED C!arguments /\ stage = "send" /\ Len(fate) < Len(transfers)
        /\ fate' = Append(fate, "skipped") /\ bal' = bal /\ failures' = failures
        /\ UNCHANGED <<transfers, stage, arrived, reading, polls, kept, inFlight, short>>
    BY <1>5 DEF C!Skip
  <2>2. active # Shards
    <3>1. C!Following.from \in Shards /\ C!Following.to \in Shards
      <4>1. Len(fate) + 1 \in DOMAIN transfers
        BY <1>1, <2>1, PlanInUse
      <4> QED BY <1>1, <4>1, PlanInUse DEF C!Following
    <3> QED BY <1>5, <3>1 DEF C!Skip
  <2>3. "skipped" \in Fates /\ "skipped" \notin Took
    BY DEF Fates, Took
  <2>4. bal' = IF "skipped" \in Took
               THEN [bal EXCEPT ![C!Following.from] = @ - C!Following.cents] ELSE bal
    BY <2>1, <2>3
  <2> QED BY <1>2, <2>1, <2>2, <2>3, <2>4, RequestStep
<1>6. ASSUME NEW heard \in C!Replies, C!Request(heard) PROVE CollateralInv'
  <2> DEFINE f == C!ExecuteTransfer(heard)
  <2>1. /\ UNCHANGED C!arguments /\ stage = "send" /\ Len(fate) < Len(transfers)
        /\ fate' = Append(fate, f)
        /\ bal' = IF f = "refused" THEN bal
                  ELSE [bal EXCEPT ![C!Following.from] = @ - C!Following.cents]
        /\ heard # "transfer id" => failures < MaxFailures
        /\ failures' = IF heard = "transfer id" THEN failures ELSE failures + 1
        /\ UNCHANGED <<transfers, stage, arrived, reading, polls, kept, inFlight, short>>
    BY <1>6 DEF C!Request
  <2>2. /\ f \in Fates /\ (f \in Took <=> f # "refused")
        /\ heard = "transfer id" => f = "accepted"
    BY DEF C!ExecuteTransfer, C!Replies, Fates, Took
  <2> HIDE DEF f
  <2>3. bal' = IF f \in Took
               THEN [bal EXCEPT ![C!Following.from] = @ - C!Following.cents] ELSE bal
    BY <2>1, <2>2
  <2>4. failures' \in 0 .. MaxFailures /\ (active = Shards /\ failures' = 0 => f = "accepted" /\ failures = 0)
    <3>1. CASE heard = "transfer id"
      BY <1>2, <2>1, <2>2, <3>1
    <3>2. CASE heard # "transfer id"
      <4>1. failures' = failures + 1 /\ failures < MaxFailures
        BY <2>1, <3>2
      <4> QED BY <1>2, <4>1
    <3> QED BY <3>1, <3>2
  <2> QED BY <2>1, <2>2, <2>3, <2>4, RequestStep
<1>7. ASSUME NEW k \in C!Requests, C!Settle(k) PROVE CollateralInv'
  BY <1>7, CreditStep
<1>8. CASE C!Sent
  <2>1. /\ UNCHANGED C!arguments /\ stage = "send" /\ Len(fate) = Len(transfers)
        /\ UNCHANGED <<transfers, fate, arrived, bal, reading, polls, failures>>
    BY <1>8 DEF C!Sent
  <2>2. reading' = opening
    BY <1>1, <2>1 DEF Stages
  <2>3. C!Decide(reading') \/ (stage' = "await" /\ UNCHANGED <<kept, inFlight, short>>)
    BY <1>8, <2>2 DEF C!Sent
  <2>4. polls' \in 0 .. Polls /\ failures' \in failures .. MaxFailures
    BY <1>2, <2>1
  <2> QED BY <2>1, <2>2, <2>3, <2>4, LookStep
<1>9. CASE C!Poll
  BY <1>9, PollIs, LookStep
<1>10. CASE UNCHANGED C!vars
  <2>1. /\ UNCHANGED <<portfolio, opening, active, dryShards, required>>
        /\ UNCHANGED <<transfers, stage, fate, arrived, bal, reading, polls, kept, inFlight, short, failures>>
        /\ UNCHANGED C!arguments
    BY <1>10 DEF C!vars, C!arguments
  <2>2. /\ (Known' <=> Known) /\ C!Required' = C!Required
        /\ (PlanSpares' <=> PlanSpares) /\ (PlanSuffices' <=> PlanSuffices)
    BY <2>1, ArgumentsStay
  <2>3. Types'
    BY <1>1, <2>1, <2>2 DEF Types, C!Requests
  <2>4. BalanceIs'
    BY <1>1, <2>1, BooksStay
  <2>5. NotMoved => NotMoved'
    BY <2>1 DEF NotMoved, C!Unfunded
  <2>6. Decided => Decided'
    BY <2>1, <2>2 DEF Decided, C!Payable, C!Unfunded, C!InFlight, C!Awaitable, C!Destinations, C!Accepted,
                      C!AcceptedTo, C!Requests, C!Cents
  <2>7. ReadingPast' /\ FaultFree' /\ Stages'
    BY <1>1, <2>1, <2>2, <2>5, <2>6 DEF ReadingPast, FaultFree, Stages, C!Requests
  <2> QED BY <2>3, <2>4, <2>7 DEF CollateralInv
<1> QED BY <1>3, <1>4, <1>5, <1>6, <1>7, <1>8, <1>9, <1>10 DEF C!Next, C!Step, C!Finished

\* A look at the balances that shows all of what was accepted for a shard puts
\* that shard in no alert.
LEMMA StepNamesNothing ==
    C!CollateralAssumption /\ CollateralInv /\ [C!Next]_(C!vars) => C!NamesNothingArrived
<1> SUFFICES ASSUME C!CollateralAssumption, CollateralInv, [C!Next]_(C!vars), NEW s \in Shards,
                    stage = "await", reading' = bal,
                    \A k \in C!Requests : fate[k] = "accepted" /\ transfers[k].to = s => k \in arrived,
                    s \in inFlight'
             PROVE  FALSE
  BY DEF C!NamesNothingArrived
<1>1. Types /\ BalanceIs /\ Stages
  BY DEF CollateralInv
<1>2. inFlight = {}
  BY <1>1 DEF Stages
<1>3. C!Poll
  BY <1>2 DEF C!Next, C!Step, C!NoTransfers, C!Begin, C!Skip, C!Request, C!Sent, C!Settle, C!Finished, C!vars
<1>4. /\ UNCHANGED C!arguments /\ UNCHANGED <<transfers, fate, arrived, bal>>
      /\ Len(fate) = Len(transfers)
      /\ \/ C!Decide(reading')
         \/ stage' = "await" /\ UNCHANGED <<kept, inFlight, short>>
  BY <1>3, PollIs
<1>5. inFlight' = C!InFlight(reading')
  BY <1>2, <1>4, DecideStep
<1>6. s \in C!Destinations /\ bal[s] < C!Awaitable[s]
  BY <1>5 DEF C!InFlight
<1>7. PICK k \in C!Requests : k \in C!AcceptedTo(s)
  BY <1>6 DEF C!Destinations, C!AcceptedTo
<1>8. NeedAtFirst(s) # 0
  BY <1>1, <1>7, PlanInUse DEF C!AcceptedTo
<1>9. /\ opening[s] \in Nat /\ required[s] \in Nat /\ C!Total(C!Cents, Credited(s)) \in Nat
      /\ bal[s] = opening[s] + C!Total(C!Cents, Credited(s))
  BY <1>1, <1>8, Booked, BalanceLow
<1>10. C!AcceptedTo(s) \subseteq Credited(s)
  BY DEF C!AcceptedTo, Credited
<1>11. C!Accepted(s) <= C!Total(C!Cents, Credited(s))
  <2>1. Credited(s) \subseteq DOMAIN transfers
    BY <1>1, Booked
  <2>2. IsFiniteSet(Credited(s)) /\ \A j \in Credited(s) : C!Cents[j] \in Nat
    BY <1>1, <2>1, PlanInUse
  <2> QED BY <1>10, <2>2, TotalOfPart DEF C!Accepted
<1>12. C!Accepted(s) \in Nat
  <2>1. C!AcceptedTo(s) \subseteq DOMAIN transfers
    BY <1>1, PlanInUse DEF C!AcceptedTo
  <2> QED BY <1>1, <2>1, PlanInUse DEF C!Accepted
<1>13. C!Awaitable[s] = C!Min({required[s], opening[s] + C!Accepted(s)})
  BY <1>6 DEF C!Awaitable
<1>14. C!Awaitable[s] <= opening[s] + C!Accepted(s) /\ C!Awaitable[s] \in Nat
  BY <1>9, <1>12, <1>13, MinOfTwo
<1> QED BY <1>6, <1>9, <1>11, <1>12, <1>14

-----------------------------------------------------------------------------
(* What holds of every call.                                                   *)

LEMMA CollateralAlways == C!CollateralAssumption => (C!Spec => []CollateralInv)
<1> SUFFICES ASSUME C!CollateralAssumption PROVE C!Spec => []CollateralInv
  OBVIOUS
<1>1. C!Init => CollateralInv
  BY CollateralInit
<1>2. CollateralInv /\ [C!Next]_(C!vars) => CollateralInv'
  BY CollateralStep
<1> QED BY <1>1, <1>2, PTL DEF C!Spec

\* Every state of a call has the declared types: no shard's cash goes below
\* nothing, whatever was requested, lost or late.
THEOREM FundingTypeCorrect == C!Spec => []C!TypeOK
<1>1. C!CollateralAssumption
  BY CollateralAssumption
<1>2. CollateralInv => C!TypeOK
  BY <1>1, TypesThenTypeOK DEF CollateralInv
<1>3. C!Spec => []CollateralInv
  BY <1>1, CollateralAlways
<1> QED BY <1>2, <1>3, PTL

\* What is handed on can be paid from cash that is there, all that the account
\* can pay for is handed on, and no transfer takes what its source needs itself.
THEOREM PaidFromWhatIsThere == C!Spec => []KeepsWhatCanBePaid
<1>1. C!CollateralAssumption
  BY CollateralAssumption
<1>2. CollateralInv => C!KeepsWhatCanBePaid /\ C!MovesOnlySpare
  BY <1>1, InvPayable, InvPaysOff, TypesThenTypeOK DEF CollateralInv, C!KeepsWhatCanBePaid
<1>3. CollateralInv => KeepsWhatCanBePaid
  BY <1>2 DEF KeepsWhatCanBePaid
<1>4. C!Spec => []CollateralInv
  BY <1>1, CollateralAlways
<1> QED BY <1>3, <1>4, PTL

\* The alert names every shard that waits for an accepted transfer, unless a
\* request thought to have failed brought money there, and no shard to which
\* everything accepted had come.
THEOREM AlertIsTrue == C!Spec => AlertIsRight
<1>1. C!CollateralAssumption
  BY CollateralAssumption
<1>2. CollateralInv => C!InFlightReported
  BY <1>1, InvReported
<1>3. CollateralInv /\ [C!Next]_(C!vars) => [C!NamesNothingArrived]_(C!vars)
  BY <1>1, StepNamesNothing
<1>4. C!Spec => []CollateralInv
  BY <1>1, CollateralAlways
<1>5. C!Spec => []C!InFlightReported
  BY <1>2, <1>4, PTL
<1>6. C!Spec => [][C!InFlightReported' /\ C!NamesNothingArrived]_(C!vars)
  BY <1>3, <1>4, <1>5, PTL DEF C!Spec
<1> QED BY <1>6 DEF AlertIsRight, C!AlertIsRight

-----------------------------------------------------------------------------
(* The search of the open markets.                                           *)

\* A set of numbers has a least one, and a bounded one a greatest.
LEMMA LeastOf ==
    ASSUME NEW N \in SUBSET Nat, N # {}
    PROVE  \E m \in N : \A y \in N : m <= y
<1> DEFINE Below == {0 .. x : x \in N}
<1>1. Below \subseteq FiniteSubsetsOf(Nat) /\ Below # {}
  <2>1. \A x \in N : 0 .. x \subseteq Nat /\ IsFiniteSet(0 .. x)
    BY FS_Interval
  <2> QED BY <2>1 DEF FiniteSubsetsOf
<1>2. \E A \in Below : \A B \in Below : <<B, A>> \notin StrictSubsetOrdering(Nat)
  <2> HIDE DEF Below
  <2> QED BY <1>1, FS_StrictSubsetOrderingWellFounded, WFMin
<1>3. PICK m \in N : \A y \in N : <<0 .. y, 0 .. m>> \notin StrictSubsetOrdering(Nat)
  BY <1>2
<1>4. ASSUME NEW y \in N, y < m PROVE FALSE
  <2>1. m \in 0 .. m /\ m \notin 0 .. y /\ 0 .. y \subseteq 0 .. m
    BY <1>4
  <2>2. 0 .. y \in SUBSET Nat /\ 0 .. m \in SUBSET Nat
    OBVIOUS
  <2> QED BY <1>3, <2>1, <2>2 DEF StrictSubsetOrdering
<1> QED BY <1>4

LEMMA GreatestOf ==
    ASSUME NEW n \in Nat, NEW N \in SUBSET (0 .. n), N # {}
    PROVE  \E m \in N : \A y \in N : y <= m
<1> DEFINE T == {n - x : x \in N}
<1>0. \A x \in N : x \in Nat /\ x <= n /\ n - x \in Nat
  <2> SUFFICES ASSUME NEW x \in N PROVE x \in Nat /\ x <= n /\ n - x \in Nat
    OBVIOUS
  <2>1. x \in 0 .. n
    OBVIOUS
  <2> QED BY <2>1
<1>1. T \in SUBSET Nat /\ T # {}
  BY <1>0
<1>2. PICK t \in T : \A y \in T : t <= y
  <2> HIDE DEF T
  <2> QED BY <1>1, LeastOf
<1>3. PICK m \in N : t = n - m
  OBVIOUS
<1>4. \A y \in N : y <= m
  <2> SUFFICES ASSUME NEW y \in N PROVE y <= m
    OBVIOUS
  <2>1. n - m <= n - y
    BY <1>2, <1>3
  <2> QED BY <1>0, <2>1
<1> QED BY <1>4

\* The greatest place of some in a list is one of them, and none comes after it.
LEMMA MaxIs ==
    ASSUME NEW n \in Nat, NEW N \in SUBSET (1 .. n), N # {}
    PROVE  L!Max(N) \in N /\ \A y \in N : y <= L!Max(N)
<1>1. N \in SUBSET (0 .. n) /\ \A x \in N : x \in Nat
  OBVIOUS
<1>2. PICK m \in N : \A y \in N : y <= m
  BY <1>1, GreatestOf
<1>3. \A y \in N : m >= y
  BY <1>1, <1>2
<1>4. L!Max(N) \in N /\ \A y \in N : L!Max(N) >= y
  BY <1>3 DEF L!Max
<1> QED BY <1>1, <1>4

LEMMA InList == ASSUME NEW S, NEW s \in Seq(S), NEW k \in DOMAIN s PROVE s[k] \in S
OBVIOUS

\* What the assumption says of one run.
LEMMA OfRun ==
    ASSUME NEW run \in Runs
    PROVE  /\ run.status = None
              \/ /\ run.status \in Seq([index : Int \cup {None}, active : L!Flags])
                 /\ None \notin [L!Indexes(run.status) -> BOOLEAN \cup {None}]
           /\ \A p \in run.pages.open \cup run.pages.mve : p.markets \in Seq(L!Listable(run))
           /\ \A m \in L!Listable(run) :
                 m # None /\ m.close \in Int \cup {None} /\ m.states \in Int \cup {None}
           /\ \A m, n \in L!Listable(run) \cup L!Looked(run) :
                 m.ticker = n.ticker => m.event = n.event /\ m.about = n.about /\ m.text = n.text
           /\ \A t \in run.account.held : run.account.looked[t] = None \/ run.account.looked[t].ticker = t
           /\ \A sides \in run.account.addOns : DOMAIN sides \subseteq run.account.held
BY ScanAssumption DEF L!ScanAssumption

-----------------------------------------------------------------------------
(* The shards.                                                               *)

LEMMA FlagIs ==
    ASSUME NEW a \in L!Flags
    PROVE  /\ L!StatusFlag(a) = FALSE <=> a \in L!Offs
           /\ L!StatusFlag(a) \in BOOLEAN \cup {None}
<1>1. None # FALSE /\ None # TRUE
  BY ScanAssumption DEF L!ScanAssumption
<1>2. CASE a \in L!Offs
  <2>1. a \notin {"true", "1", "on"} /\ a \notin {"null", "maybe"}
    BY <1>2 DEF L!Offs
  <2>2. L!StatusFlag(a) = FALSE
    BY <1>2, <2>1 DEF L!StatusFlag
  <2> QED BY <1>2, <2>2
<1>3. CASE a \in {"true", "1", "on"}
  <2>1. a \notin L!Offs /\ a \notin {"null", "maybe"}
    BY <1>3 DEF L!Offs
  <2>2. L!StatusFlag(a) = TRUE
    BY <1>3, <2>1 DEF L!StatusFlag
  <2> QED BY <2>1, <2>2
<1>4. CASE a \in {"null", "maybe"}
  <2>1. a \notin L!Offs /\ a \notin {"true", "1", "on"}
    BY <1>4 DEF L!Offs
  <2>2. L!StatusFlag(a) = None
    BY <1>4, <2>1 DEF L!StatusFlag
  <2> QED BY <1>1, <2>1, <2>2
<1> QED BY <1>2, <1>3, <1>4 DEF L!Flags

\* What an answer is read as: a function on the indexes it names.
LEMMA StatusesAre ==
    ASSUME NEW run \in Runs, run.status # None
    PROVE  LET st == run.status
               read == L!FetchShardStatuses(st)
           IN  /\ L!Indexes(st) = {} <=> read = None
               /\ read # None =>
                    /\ DOMAIN read = L!Indexes(st)
                    /\ \A i \in L!Indexes(st) :
                         read[i] = FALSE <=>
                            \E k \in DOMAIN st :
                               /\ st[k].index = i /\ st[k].active \in L!Offs
                               /\ \A l \in k + 1 .. Len(st) : st[l].index # i
<1> DEFINE st == run.status
           entries == {k \in DOMAIN st : st[k].index # None}
           OfIndex(i) == {k \in entries : st[k].index = i}
           Read(i) == L!StatusFlag(st[L!Max(OfIndex(i))].active)
           read == [i \in {st[k].index : k \in entries} |-> Read(i)]
<1>1. /\ st \in Seq([index : Int \cup {None}, active : L!Flags])
      /\ None \notin [L!Indexes(st) -> BOOLEAN \cup {None}]
  BY OfRun
<1>2. DOMAIN st = 1 .. Len(st) /\ Len(st) \in Nat
  BY <1>1
<1>3. {st[k].index : k \in entries} = L!Indexes(st)
  BY DEF L!Indexes
<1>4. L!Indexes(st) = {} <=> entries = {}
  BY <1>3
<1>5. L!FetchShardStatuses(st) = IF entries = {} THEN None ELSE read
  BY DEF L!FetchShardStatuses
<1>6. ASSUME NEW i \in L!Indexes(st)
      PROVE  /\ L!Max(OfIndex(i)) \in OfIndex(i)
             /\ \A k \in OfIndex(i) : k <= L!Max(OfIndex(i))
  <2>1. PICK k \in entries : st[k].index = i
    BY <1>3
  <2>2. OfIndex(i) \in SUBSET (1 .. Len(st)) /\ OfIndex(i) # {}
    BY <1>2, <2>1
  <2> HIDE DEF OfIndex
  <2> QED BY <1>2, <2>2, MaxIs
<1>7. ASSUME NEW i \in L!Indexes(st)
      PROVE  /\ Read(i) \in BOOLEAN \cup {None}
             /\ Read(i) = FALSE <=> st[L!Max(OfIndex(i))].active \in L!Offs
  <2> DEFINE k == L!Max(OfIndex(i))
  <2>1. k \in DOMAIN st
    BY <1>6
  <2>2. st[k].active \in L!Flags
    <3>1. st[k] \in [index : Int \cup {None}, active : L!Flags]
      <4> HIDE DEF st, k
      <4> QED BY <1>1, <2>1, InList
    <3> HIDE DEF st, k
    <3> QED BY <3>1
  <2> HIDE DEF k
  <2>3. L!StatusFlag(st[k].active) = FALSE <=> st[k].active \in L!Offs
    BY <2>2, FlagIs
  <2>4. L!StatusFlag(st[k].active) \in BOOLEAN \cup {None}
    BY <2>2, FlagIs
  <2> QED BY <2>3, <2>4 DEF k
<1>8. read # None
  <2>1. read \in [L!Indexes(st) -> BOOLEAN \cup {None}]
    <3> HIDE DEF Read
    <3> QED BY <1>3, <1>7
  <2> QED BY <1>1, <2>1
<1>9. ASSUME NEW i \in L!Indexes(st)
      PROVE  st[L!Max(OfIndex(i))].active \in L!Offs <=>
                \E k \in DOMAIN st :
                   /\ st[k].index = i /\ st[k].active \in L!Offs
                   /\ \A l \in k + 1 .. Len(st) : st[l].index # i
  <2> DEFINE g == L!Max(OfIndex(i))
  <2>0. i # None
    BY DEF L!Indexes
  <2>1. /\ g \in DOMAIN st /\ st[g].index = i
        /\ \A k \in DOMAIN st : st[k].index = i => k <= g
    BY <1>6, <2>0
  <2> HIDE DEF g
  <2>2. g \in Nat /\ \A l \in g + 1 .. Len(st) : l \in DOMAIN st /\ ~(l <= g)
    BY <1>2, <2>1
  <2>3. \A l \in g + 1 .. Len(st) : st[l].index # i
    BY <2>1, <2>2
  <2>4. ASSUME NEW k \in DOMAIN st, st[k].index = i,
               \A l \in k + 1 .. Len(st) : st[l].index # i
        PROVE  k = g
    <3>1. k <= g /\ k \in Nat /\ g <= Len(st)
      BY <1>2, <2>1, <2>4
    <3>2. k < g => g \in k + 1 .. Len(st)
      BY <1>2, <2>2, <3>1
    <3> QED BY <2>1, <2>2, <2>4, <3>1, <3>2
  <2>5. st[g].active \in L!Offs <=>
          \E k \in DOMAIN st :
             /\ st[k].index = i /\ st[k].active \in L!Offs
             /\ \A l \in k + 1 .. Len(st) : st[l].index # i
    BY <2>1, <2>3, <2>4
  <2> QED BY <2>5 DEF g
<1>10. ASSUME entries # {} PROVE
         /\ DOMAIN read = L!Indexes(st)
         /\ \A i \in L!Indexes(st) : read[i] = Read(i)
  <2> HIDE DEF Read
  <2> QED BY <1>3
<1> HIDE DEF Read
<1> QED
  <2>1. CASE entries = {}
    BY <1>4, <1>5, <2>1
  <2>2. CASE entries # {}
    <3>1. L!FetchShardStatuses(st) = read
      BY <1>5, <2>2
    <3> HIDE DEF read, OfIndex
    <3> QED BY <1>4, <1>7, <1>8, <1>9, <1>10, <2>2, <3>1
  <2> QED BY <2>1, <2>2

\* Advertised shards are the named ones, inactive ones the halted among them.
LEMMA ShardsAre ==
    ASSUME found \in Runs
    PROVE  /\ L!Advertised = L!Named
           /\ L!Statuses = None <=> L!Named = {}
           /\ \A i : i \in L!InactiveShardIndexes <=> i \in L!Named /\ L!Halted(i)
           /\ \A i : L!Halted(i) /\ i # None => i \in L!Named
<1>1. CASE found.status = None
  <2>1. L!Statuses = None
    BY <1>1 DEF L!Statuses, L!FetchShardStatuses
  <2>2. L!Advertised = {} /\ L!Named = {}
    BY <1>1, <2>1 DEF L!Advertised, L!Named
  <2>3. \A i : ~L!Halted(i)
    BY <1>1 DEF L!Halted
  <2> QED BY <2>1, <2>2, <2>3 DEF L!InactiveShardIndexes
<1>2. CASE found.status # None
  <2>1. L!Named = L!Indexes(found.status)
    BY <1>2 DEF L!Named
  <2>2. /\ L!Indexes(found.status) = {} <=> L!Statuses = None
        /\ L!Statuses # None =>
             /\ DOMAIN L!Statuses = L!Indexes(found.status)
             /\ \A i \in L!Indexes(found.status) : L!Statuses[i] = FALSE <=> L!Halted(i)
    BY <1>2, StatusesAre DEF L!Statuses, L!Halted
  <2>3. L!Advertised = L!Named
    BY <2>1, <2>2 DEF L!Advertised
  <2>4. \A i : L!Halted(i) /\ i # None => i \in L!Named
    BY <1>2, <2>1 DEF L!Halted, L!Indexes
  <2>5. \A i : i \in L!InactiveShardIndexes <=> i \in L!Named /\ L!Halted(i)
    BY <2>1, <2>2, <2>3 DEF L!InactiveShardIndexes
  <2> QED BY <2>1, <2>2, <2>3, <2>4, <2>5
<1> QED BY <1>1, <1>2

-----------------------------------------------------------------------------
(* What is held.                                                             *)

\* The markets read are ones the run may come across, those listed among them.
Seen == found \in Runs /\ served \in Seq(L!Listable(found)) /\ listed \subseteq DOMAIN served

\* Every version of a market held is on the ladders it was resolved to.
LEMMA HeldIs ==
    ASSUME Seen, NEW t \in found.account.held, L!HeldMarket(t) # None
    PROVE  /\ L!HeldMarket(t) \in L!Version(t)
           /\ \A m \in L!Version(t) : L!LadderKeys(m) = L!LadderKeys(L!HeldMarket(t))
<1> DEFINE here == {i \in listed : served[i].ticker = t}
<1>1. L!HeldMarket(t) \in L!Version(t)
  <2>1. CASE here = {}
    BY <2>1 DEF L!HeldMarket, L!Version
  <2>2. CASE here # {}
    <3>1. here \in SUBSET (1 .. Len(served)) /\ Len(served) \in Nat
      BY DEF Seen
    <3>2. L!Max(here) \in here
      <4> HIDE DEF here
      <4> QED BY <2>2, <3>1, MaxIs
    <3>3. L!HeldMarket(t) = served[L!Max(here)]
      BY <2>2 DEF L!HeldMarket
    <3> HIDE DEF here
    <3>4. \E i \in listed : served[i].ticker = t /\ L!HeldMarket(t) = served[i]
      BY <3>2, <3>3 DEF here
    <3> QED BY <3>4 DEF L!Version
  <2> QED BY <2>1, <2>2
<1>2. ASSUME NEW m \in L!Version(t) PROVE m \in L!Listable(found) \cup L!Looked(found) /\ m.ticker = t
  <2>1. CASE m \in {served[i] : i \in listed} /\ m.ticker = t
    <3>1. PICK i \in listed : m = served[i]
      BY <2>1
    <3>2. served[i] \in L!Listable(found)
      BY InList DEF Seen
    <3> QED BY <2>1, <3>1, <3>2
  <2>2. CASE m \in {found.account.looked[t]} \ {None}
    <3>1. m = found.account.looked[t] /\ m # None
      BY <2>2
    <3>2. found.account.looked[t] = None \/ found.account.looked[t].ticker = t
      BY OfRun DEF Seen
    <3> QED BY <3>1, <3>2 DEF L!Looked
  <2> QED BY <2>1, <2>2 DEF L!Version
<1>3. ASSUME NEW m \in L!Version(t) PROVE L!LadderKeys(m) = L!LadderKeys(L!HeldMarket(t))
  <2>1. m.event = L!HeldMarket(t).event /\ m.about = L!HeldMarket(t).about
    BY <1>1, <1>2, OfRun DEF Seen
  <2> QED BY <2>1 DEF L!LadderKeys
<1> QED BY <1>1, <1>3

LEMMA KeysAre ==
    ASSUME Seen, NEW T \in SUBSET found.account.held, \A t \in T : L!HeldMarket(t) # None
    PROVE  L!KeysOf(T) = UNION {L!LadderKeys(L!HeldMarket(t)) : t \in T}
<1>1. ASSUME NEW t \in T
      PROVE  UNION {L!LadderKeys(m) : m \in L!Version(t)} = L!LadderKeys(L!HeldMarket(t))
  <2>1. /\ L!HeldMarket(t) \in L!Version(t)
        /\ \A m \in L!Version(t) : L!LadderKeys(m) = L!LadderKeys(L!HeldMarket(t))
    BY HeldIs
  <2> QED BY <2>1
<1> QED BY <1>1 DEF L!KeysOf

LEMMA LaddersAre ==
    ASSUME Seen, ladders = L!ResolveHeldLadders, ladders # None
    PROVE  /\ \A t \in found.account.held : L!HeldMarket(t) # None /\ L!Version(t) # {}
           /\ ladders = L!KeysOf(found.account.held)
<1>1. /\ \A t \in found.account.held : L!HeldMarket(t) # None
      /\ ladders = UNION {L!LadderKeys(L!HeldMarket(t)) : t \in found.account.held}
  BY DEF L!ResolveHeldLadders
<1>2. \A t \in found.account.held : L!Version(t) # {}
  BY <1>1, HeldIs
<1>3. L!KeysOf(found.account.held) = UNION {L!LadderKeys(L!HeldMarket(t)) : t \in found.account.held}
  BY <1>1, KeysAre
<1> QED BY <1>1, <1>2, <1>3

LEMMA AddOnsAre ==
    ASSUME Seen, NEW h \in L!AddOnPairs
    PROVE  /\ ladders # None
           /\ h = L!AddOn(h.sides) /\ DOMAIN h.sides \subseteq found.account.held
           /\ DOMAIN h.sides \subseteq L!AddOnTickers
<1>1. /\ ladders # None
      /\ \E sides \in found.account.addOns : h = L!AddOn(sides)
  BY DEF L!AddOnPairs
<1>2. PICK sides \in found.account.addOns : h = L!AddOn(sides)
  BY <1>1
<1>3. h.sides = sides
  BY <1>2 DEF L!AddOn
<1>4. DOMAIN sides \subseteq found.account.held
  BY OfRun DEF Seen
<1>5. DOMAIN h.sides \subseteq L!AddOnTickers
  BY DEF L!AddOnTickers
<1> QED BY <1>1, <1>2, <1>3, <1>4, <1>5

\* A pair adds to all it buys, or to one of them, the other being in no add-on.
AddsToAll(h, m, n) == ~L!Lone(h) /\ DOMAIN h.sides = {m.ticker, n.ticker}
AddsToOne(h, m, n) == L!Lone(h) /\ DOMAIN h.sides = {m.ticker} /\ n.ticker \notin L!AddOnTickers

LEMMA SameCount == \A s : L!Cardinality(s) = Cardinality(s)
BY DEF L!Cardinality, Cardinality

LEMMA OneIsLone ==
    ASSUME NEW h, NEW t, DOMAIN h.sides = {t} PROVE L!Lone(h)
BY FS_Singleton, SameCount DEF L!Lone

LEMMA AddOnForIs ==
    ASSUME NEW m, NEW n, L!AddOnFor(m, n) # None
    PROVE  /\ L!AddOnFor(m, n) \in L!AddOnPairs
           /\ AddsToAll(L!AddOnFor(m, n), m, n) \/ AddsToOne(L!AddOnFor(m, n), m, n)
              \/ AddsToOne(L!AddOnFor(m, n), n, m)
<1> DEFINE whole == {h \in L!AddOnPairs : ~L!Lone(h) /\ DOMAIN h.sides = {m.ticker, n.ticker}}
           HeldAlone(x) == {h \in L!AddOnPairs : DOMAIN h.sides = {x.ticker}}
           h == L!AddOnFor(m, n)
<1>1. CASE whole # {}
  <2>1. h = CHOOSE k \in whole : TRUE
    BY <1>1 DEF L!AddOnFor
  <2>2. h \in whole
    BY <1>1, <2>1
  <2> QED BY <2>2 DEF AddsToAll
<1>2. CASE whole = {} /\ HeldAlone(m) # {} /\ n.ticker \notin L!AddOnTickers
  <2>1. h = CHOOSE k \in HeldAlone(m) : TRUE
    <3>1. HeldAlone(n) = {}
      BY <1>2 DEF L!AddOnTickers
    <3> QED BY <1>2, <3>1 DEF L!AddOnFor
  <2>2. h \in HeldAlone(m)
    BY <1>2, <2>1
  <2> HIDE DEF h
  <2> QED BY <1>2, <2>2, OneIsLone DEF AddsToOne, h
<1>3. CASE whole = {} /\ HeldAlone(n) # {} /\ m.ticker \notin L!AddOnTickers
  <2>1. h = CHOOSE k \in HeldAlone(n) : TRUE
    <3>1. HeldAlone(m) = {}
      BY <1>3 DEF L!AddOnTickers
    <3> QED BY <1>3, <3>1 DEF L!AddOnFor
  <2>2. h \in HeldAlone(n)
    BY <1>3, <2>1
  <2> HIDE DEF h
  <2> QED BY <1>3, <2>2, OneIsLone DEF AddsToOne, h
<1>4. CASE /\ whole = {} /\ ~(HeldAlone(m) # {} /\ n.ticker \notin L!AddOnTickers)
           /\ ~(HeldAlone(n) # {} /\ m.ticker \notin L!AddOnTickers)
  BY <1>4 DEF L!AddOnFor
<1> QED BY <1>1, <1>2, <1>3, <1>4

-----------------------------------------------------------------------------
(* The candidates.                                                           *)

\* A fee is lowered only by a multiplier that is sure.
LEMMA FeesAre == \A m : L!FeeMultiplier(m) = L!SureMultiplier(m)
<1> SUFFICES ASSUME NEW m PROVE L!FeeMultiplier(m) = L!SureMultiplier(m)
  OBVIOUS
<1> DEFINE series == IF m.series \in DOMAIN found.series THEN found.series[m.series] ELSE L!Full
           value == L!Valid(IF L!EventFeeOverride(m) = None THEN series ELSE L!EventFeeOverride(m))
<1>0. /\ None \notin Int /\ L!Full = 2 /\ L!Unknown = -1 /\ L!Full \in 0 .. L!Full
      /\ \A x \in Confirmed : x \in 0 .. L!Full
  BY ScanAssumption DEF L!ScanAssumption, L!Full, L!Unknown
<1>1. \A x : L!Valid(x) = IF x \in 0 .. L!Full THEN x ELSE None
  BY DEF L!Valid
<1>2. L!ListedMultiplier(m) = IF value = None THEN L!Full ELSE value
  BY DEF L!ListedMultiplier, L!ListedFeeMultiplier
<1>3. \A x : x \in 0 .. L!Full => x # None
  BY <1>0
<1>4. CASE ~m.quadratic
  <2>1. L!EventFeeOverride(m) = L!Unknown
    BY <1>4 DEF L!EventFeeOverride
  <2>2. L!Unknown # None /\ L!Unknown \notin 0 .. L!Full
    BY <1>0
  <2>3. value = None
    BY <1>1, <2>1, <2>2
  <2> QED BY <1>2, <1>4, <2>3 DEF L!FeeMultiplier, L!SureMultiplier
<1>5. CASE m.quadratic /\ m.override = None
  <2>1. L!EventFeeOverride(m) = None
    BY <1>5 DEF L!EventFeeOverride
  <2>2. value = IF series \in 0 .. L!Full THEN series ELSE None
    BY <1>1, <2>1
  <2>3. L!ListedMultiplier(m) = IF series \in 0 .. L!Full THEN series ELSE L!Full
    <3> HIDE DEF series, value
    <3> QED BY <1>2, <1>3, <2>2
  <2>4. L!SureMultiplier(m) = IF series \in Confirmed THEN series ELSE L!Full
    BY <1>5 DEF L!SureMultiplier
  <2> HIDE DEF series
  <2> QED BY <1>0, <2>3, <2>4 DEF L!FeeMultiplier
<1>6. CASE m.quadratic /\ m.override # None
  <2>1. L!EventFeeOverride(m) = IF L!Valid(m.override) = None THEN L!Unknown ELSE m.override
    BY <1>6 DEF L!EventFeeOverride
  <2>2. L!SureMultiplier(m) = IF m.override \in Confirmed THEN m.override ELSE L!Full
    BY <1>6 DEF L!SureMultiplier
  <2>3. CASE m.override \in 0 .. L!Full
    <3>1. L!EventFeeOverride(m) = m.override
      BY <1>1, <1>6, <2>1, <2>3
    <3>2. value = m.override
      BY <1>1, <1>6, <2>3, <3>1
    <3> QED BY <1>2, <1>6, <2>2, <3>2 DEF L!FeeMultiplier
  <2>4. CASE m.override \notin 0 .. L!Full
    <3>1. L!EventFeeOverride(m) = L!Unknown
      BY <1>1, <2>1, <2>4
    <3>2. L!Unknown # None /\ L!Unknown \notin 0 .. L!Full
      BY <1>0
    <3>3. value = None
      BY <1>1, <3>1, <3>2
    <3>4. m.override \notin Confirmed
      BY <1>0, <2>4
    <3> QED BY <1>2, <2>2, <3>3, <3>4 DEF L!FeeMultiplier
  <2> QED BY <2>3, <2>4
<1> QED BY <1>4, <1>5, <1>6

\* What a market that may be bought is.
LEMMA MarketIs ==
    ASSUME Seen, NEW i \in L!Markets
    PROVE  /\ i \in listed /\ i \in DOMAIN served /\ i \in Int
           /\ served[i] \in L!Listable(found)
           /\ served[i].ticker \notin found.account.sold
           /\ served[i].ticker \in found.account.held => served[i].ticker \in L!AddOnTickers
           /\ served[i].yes \in Int /\ served[i].close \in Int
           /\ served[i].states \in Int \cup {None}
<1>1. /\ i \in listed /\ served[i].ticker \notin L!BlockedTickers
      /\ served[i].close # None /\ served[i].yes \in 1 .. 99
  BY DEF L!Markets, L!Active, L!WithinHorizon
<1>2. i \in DOMAIN served /\ i \in Int
  BY <1>1 DEF Seen
<1>3. served[i] \in L!Listable(found)
  BY <1>2, InList DEF Seen
<1>4. served[i].close \in Int \cup {None} /\ served[i].states \in Int \cup {None}
  BY <1>3, OfRun DEF Seen
<1> QED BY <1>1, <1>2, <1>3, <1>4 DEF L!BlockedTickers, L!HeldOtherwise

LEMMA TwoMarkets ==
    ASSUME Seen, NEW i \in L!Markets, NEW j \in L!Markets,
           served[i].event # served[j].event \/ served[i].text # served[j].text
    PROVE  served[i].ticker # served[j].ticker
<1>1. served[i] \in L!Listable(found) /\ served[j] \in L!Listable(found)
  BY MarketIs
<1> QED BY <1>1, OfRun DEF Seen

\* What any candidate keeps of what is held, time-series or same-title.
Sound(p) ==
    /\ {p.a, p.b} \subseteq {served[i] : i \in listed}
    /\ L!Tickers(p) \cap found.account.sold = {}
    /\ L!Tickers(p) \cap found.account.held = L!AddsTo(p)
    /\ \A t \in L!AddsTo(p) : p.held.sides[t] = L!Bought(p)[t]
    /\ p.tradeable = L!Earns(p)

LEMMA PairIs ==
    ASSUME Seen, NEW i \in L!Markets, NEW j \in L!Markets, NEW kind, NEW a, NEW b,
           {a, b} = {served[i], served[j]}, NEW x, NEW y, NEW held,
           held = None => {served[i].ticker, served[j].ticker} \cap L!AddOnTickers = {},
           held # None => held = L!AddOnFor(served[i], served[j]) /\ L!Matches(held, kind, a, b)
    PROVE  Sound(L!Pair(kind, a, b, x, y, held))
<1> DEFINE m == served[i]
           n == served[j]
           p == L!Pair(kind, a, b, x, y, held)
<1>1. /\ p.kind = kind /\ p.a = a /\ p.b = b /\ p.pays = <<x, y>> /\ p.held = held
      /\ p.tradeable = L!BeatsFee(a, x, b, y)
  BY DEF L!Pair
<1>2. {a, b} \subseteq {served[k] : k \in listed}
  BY MarketIs
<1>3. L!Tickers(p) = {m.ticker, n.ticker}
  BY <1>1 DEF L!Tickers
<1> HIDE DEF p
<1>4. L!Tickers(p) \cap found.account.sold = {}
  BY <1>3, MarketIs
<1>5. /\ L!Tickers(p) \cap found.account.held = L!AddsTo(p)
      /\ \A t \in L!AddsTo(p) : p.held.sides[t] = L!Bought(p)[t]
  <2>1. CASE held = None
    <3>1. L!AddsTo(p) = {}
      BY <1>1, <2>1 DEF L!AddsTo
    <3> QED BY <1>3, <2>1, <3>1, MarketIs
  <2>2. CASE held # None
    <3>1. held = L!AddOnFor(m, n) /\ L!Matches(held, kind, a, b)
      BY <2>2
    <3>2. /\ held \in L!AddOnPairs
          /\ AddsToAll(held, m, n) \/ AddsToOne(held, m, n) \/ AddsToOne(held, n, m)
      BY <2>2, <3>1, AddOnForIs
    <3>3. L!AddsTo(p) = DOMAIN held.sides /\ p.held.sides = held.sides
      BY <1>1, <2>2 DEF L!AddsTo
    <3>4. DOMAIN held.sides \subseteq found.account.held
      BY <3>2, AddOnsAre
    <3>5. L!Tickers(p) \cap found.account.held = DOMAIN held.sides
      BY <1>3, <3>2, <3>4, MarketIs DEF AddsToAll, AddsToOne
    <3>6. L!Bought(p) = [t \in {a.ticker, b.ticker} |->
                         IF (t = a.ticker) = (kind = "time_series") THEN "yes" ELSE "no"]
      BY <1>1 DEF L!Bought, L!Tickers
    <3>7. \A t \in DOMAIN held.sides : held.sides[t] = L!Bought(p)[t]
      BY <3>1, <3>6 DEF L!Matches
    <3> QED BY <3>3, <3>5, <3>7
  <2> QED BY <2>1, <2>2
<1>6. p.tradeable = L!Earns(p)
  BY <1>1, FeesAre DEF L!BeatsFee, L!Earns
<1> QED BY <1>1, <1>2, <1>4, <1>5, <1>6 DEF Sound, p

\* Which way round a time-series pair is bought.
LEMMA OrderIs ==
    ASSUME Seen, NEW i \in L!Markets, NEW j \in L!Markets, L!ByClose(i, j),
           L!IsLadder(served[i], served[j]) \/ L!IsTwoEvents(served[i], served[j])
    PROVE  LET a == L!Ordered(served[i], served[j])[1]
               b == L!Ordered(served[i], served[j])[2]
           IN  /\ {a, b} = {served[i], served[j]}
               /\ a.ticker # b.ticker
               /\ IF a.event = b.event THEN a.states < b.states ELSE a.close <= b.close
<1> DEFINE m == served[i]
           n == served[j]
<1>1. m.ticker # n.ticker
  BY TwoMarkets DEF L!IsLadder, L!IsTwoEvents
<1>2. /\ m.close \in Int /\ n.close \in Int
      /\ m.states \in Int \cup {None} /\ n.states \in Int \cup {None}
  BY MarketIs
<1>3. m.close <= n.close
  <2> HIDE DEF m, n
  <2>1. m.close < n.close \/ m.close = n.close
    BY DEF L!ByClose, m, n
  <2> QED BY <1>2, <2>1
<1>4. CASE L!IsLadder(m, n)
  <2>1. m.event = n.event /\ m.states # None /\ n.states # None /\ m.states # n.states
    BY <1>4 DEF L!IsLadder
  <2>2. m.states \in Int /\ n.states \in Int
    BY <1>2, <2>1
  <2>3. CASE n.states < m.states
    BY <1>1, <2>1, <2>3 DEF L!Ordered
  <2>4. CASE ~(n.states < m.states)
    <3>1. m.states < n.states
      <4> HIDE DEF m, n
      <4> QED BY <2>1, <2>2, <2>4
    <3> QED BY <1>1, <2>1, <2>4, <3>1 DEF L!Ordered
  <2> QED BY <2>3, <2>4
<1>5. CASE L!IsTwoEvents(m, n)
  <2>1. m.event # n.event
    BY <1>5 DEF L!IsTwoEvents
  <2> QED BY <1>1, <1>3, <2>1 DEF L!Ordered
<1> QED BY <1>4, <1>5

\* A time-series candidate is due: no new market of it is on a ladder of another
\* holding.
LEMMA SeriesDue ==
    ASSUME Seen, ladders = L!ResolveHeldLadders, ladders # None,
           NEW i \in L!Markets, NEW j \in L!Markets, L!ByClose(i, j),
           L!SeriesCandidate(served[i], served[j]) # None
    PROVE  L!IsDue(L!SeriesCandidate(served[i], served[j]))
<1> DEFINE m == served[i]
           n == served[j]
           a == L!Ordered(m, n)[1]
           b == L!Ordered(m, n)[2]
           held == L!SeriesAddOn(m, n)
           p == L!SeriesCandidate(m, n)
<1>1. /\ held # None \/ (~L!OnHeldLadder(m) /\ ~L!OnHeldLadder(n))
      /\ L!IsLadder(m, n) \/ L!IsTwoEvents(m, n)
      /\ held = None \/ L!Matches(held, "time_series", a, b)
      /\ p = L!Pair("time_series", a, b, a.yes, b.no, held)
  BY DEF L!SeriesCandidate
<1>2. /\ {a, b} = {m, n} /\ a.ticker # b.ticker
      /\ IF a.event = b.event THEN a.states < b.states ELSE a.close <= b.close
  BY <1>1, OrderIs
<1>3. held # None => /\ held = L!AddOnFor(m, n)
                     /\ LET new == IF m.ticker \in DOMAIN held.sides THEN n ELSE m
                        IN  L!Lone(held) => L!LadderKeys(new) \cap (ladders \ held.labels) = {}
  BY DEF L!SeriesAddOn
<1>4. held = None => {m.ticker, n.ticker} \cap L!AddOnTickers = {}
  BY <1>1 DEF L!OnHeldLadder
<1>5. p.kind = "time_series" /\ p.a = a /\ p.b = b /\ p.held = held
  BY <1>1 DEF L!Pair
<1>6. /\ \A t \in found.account.held : L!HeldMarket(t) # None /\ L!Version(t) # {}
      /\ ladders = L!KeysOf(found.account.held)
  BY LaddersAre
<1> HIDE DEF a, b, held, p
<1>7. Sound(p)
  <2>1. held # None => held = L!AddOnFor(m, n) /\ L!Matches(held, "time_series", a, b)
    BY <1>1, <1>3
  <2> QED BY <1>1, <1>2, <1>4, <2>1, PairIs
<1>8. ASSUME NEW x \in L!NewMarkets(p)
      PROVE  L!LadderKeys(x) \cap (L!KeysOf(found.account.held) \ L!KeysOf(L!AddsTo(p))) = {}
  <2>1. x \in {m, n} /\ x.ticker \notin L!AddsTo(p)
    BY <1>2, <1>5 DEF L!NewMarkets
  <2>2. CASE held = None
    BY <1>1, <1>6, <2>1, <2>2 DEF L!OnHeldLadder
  <2>3. CASE held # None
    <3>1. L!AddsTo(p) = DOMAIN held.sides
      BY <1>5, <2>3 DEF L!AddsTo
    <3>2. /\ held \in L!AddOnPairs
          /\ AddsToAll(held, m, n) \/ AddsToOne(held, m, n) \/ AddsToOne(held, n, m)
      BY <1>3, <2>3, AddOnForIs
    <3>3. /\ held = L!AddOn(held.sides) /\ DOMAIN held.sides \subseteq found.account.held
          /\ DOMAIN held.sides \subseteq L!AddOnTickers
      BY <3>2, AddOnsAre
    <3>4. held.labels = UNION {L!LadderKeys(L!HeldMarket(t)) : t \in DOMAIN held.sides}
      BY <3>3 DEF L!AddOn
    <3>5. held.labels = L!KeysOf(L!AddsTo(p))
      BY <1>6, <3>1, <3>3, <3>4, KeysAre
    <3>6. ~AddsToAll(held, m, n)
      BY <2>1, <3>1 DEF AddsToAll
    <3>7. L!Lone(held) /\ x = IF m.ticker \in DOMAIN held.sides THEN n ELSE m
      BY <2>1, <3>1, <3>2, <3>3, <3>6 DEF AddsToOne
    <3> QED BY <1>3, <1>6, <2>3, <3>5, <3>7
  <2> QED BY <2>2, <2>3
<1>9. L!IsDue(p)
  BY <1>2, <1>5, <1>6, <1>7, <1>8 DEF L!IsDue, Sound
<1> QED BY <1>9 DEF p

LEMMA TwinDue ==
    ASSUME Seen, NEW i \in L!Markets, NEW j \in L!Markets,
           L!TwinCandidate(served[i], served[j]) # None
    PROVE  L!IsDue(L!TwinCandidate(served[i], served[j]))
<1> DEFINE m == served[i]
           n == served[j]
           a == IF m.yes >= n.yes THEN m ELSE n
           b == IF m.yes >= n.yes THEN n ELSE m
           held == L!AddOnFor(m, n)
           p == L!TwinCandidate(m, n)
<1>1. /\ held # None \/ {m.ticker, n.ticker} \cap L!AddOnTickers = {}
      /\ m.event # n.event
      /\ held = None \/ L!Matches(held, "same_title", a, b)
      /\ p = L!Pair("same_title", a, b, a.no, b.yes, held)
  BY DEF L!TwinCandidate
<1>2. {a, b} = {m, n} /\ a.ticker # b.ticker
  BY <1>1, TwoMarkets
<1>3. p.kind = "same_title" /\ p.a = a /\ p.b = b
  BY <1>1 DEF L!Pair
<1>4. Sound(p)
  <2>1. held # None => held = L!AddOnFor(m, n) /\ L!Matches(held, "same_title", a, b)
    BY <1>1
  <2> HIDE DEF a, b, held, p
  <2> QED BY <1>1, <1>2, <2>1, PairIs
<1> HIDE DEF a, b, p
<1>5. L!IsDue(p)
  BY <1>2, <1>3, <1>4 DEF L!IsDue, Sound
<1> QED BY <1>5 DEF p

\* Each candidate of a group is due.
LEMMA CandidatesDue ==
    ASSUME Seen, ladders = L!ResolveHeldLadders, NEW kind \in {"time_series", "same_title"},
           kind = "time_series" => ladders # None,
           NEW group \in SUBSET L!Markets, NEW c \in L!Candidates(kind, group)
    PROVE  /\ L!IsDue(L!Candidate(kind, c))
           /\ L!Candidate(kind, c).kind = kind
           /\ \E i \in group : L!Candidate(kind, c).a = served[i]
           /\ L!Candidate(kind, c).tradeable \in BOOLEAN /\ L!Candidate(kind, c).spread \in Int
<1> DEFINE i == c[1]
           j == c[2]
           p == L!Candidate(kind, c)
<1>1. i \in group /\ j \in group /\ L!Before(kind, i, j) /\ p # None
  BY DEF L!Candidates
<1>2. served[i].yes \in Int /\ served[j].yes \in Int
  BY <1>1, MarketIs
<1>3. \A s, t \in Int : L!Distance(s, t) \in Int
  BY DEF L!Distance
<1>4. \A k, a, b, x, y, h :
         /\ L!Pair(k, a, b, x, y, h).kind = k /\ L!Pair(k, a, b, x, y, h).a = a
         /\ L!Pair(k, a, b, x, y, h).spread = L!Distance(a.yes, b.yes)
         /\ L!Pair(k, a, b, x, y, h).tradeable \in BOOLEAN
  BY DEF L!Pair, L!BeatsFee
<1>5. CASE kind = "time_series"
  <2> DEFINE a == L!Ordered(served[i], served[j])[1]
             b == L!Ordered(served[i], served[j])[2]
             held == L!SeriesAddOn(served[i], served[j])
  <2>1. p = L!SeriesCandidate(served[i], served[j]) /\ L!ByClose(i, j)
    BY <1>1, <1>5 DEF L!Candidate, L!Before
  <2>2. L!IsDue(p)
    <3> HIDE DEF i, j, p
    <3> QED BY <1>1, <1>5, <2>1, SeriesDue
  <2>3. /\ p = L!Pair("time_series", a, b, a.yes, b.no, held)
        /\ L!IsLadder(served[i], served[j]) \/ L!IsTwoEvents(served[i], served[j])
    BY <1>1, <2>1 DEF L!SeriesCandidate
  <2>4. {a, b} = {served[i], served[j]}
    <3> HIDE DEF i, j
    <3> QED BY <1>1, <2>1, <2>3, OrderIs
  <2> HIDE DEF i, j, p, a, b, held
  <2>5. a.yes \in Int /\ b.yes \in Int
    BY <1>2, <2>4
  <2>6. p.kind = kind /\ p.a = a /\ p.spread = L!Distance(a.yes, b.yes)
    BY <1>4, <1>5, <2>3
  <2>7. p.tradeable \in BOOLEAN
    BY <1>4, <2>3
  <2>8. p.spread \in Int
    BY <1>3, <2>5, <2>6
  <2>9. \E k \in group : p.a = served[k]
    BY <1>1, <2>4, <2>6
  <2> QED BY <2>2, <2>6, <2>7, <2>8, <2>9 DEF p
<1>6. CASE kind = "same_title"
  <2> DEFINE m == served[i]
             n == served[j]
             a == IF m.yes >= n.yes THEN m ELSE n
             b == IF m.yes >= n.yes THEN n ELSE m
  <2>1. p = L!TwinCandidate(m, n)
    BY <1>6 DEF L!Candidate
  <2>2. L!IsDue(p)
    <3> HIDE DEF i, j, p
    <3> QED BY <1>1, <2>1, TwinDue
  <2>3. p = L!Pair("same_title", a, b, a.no, b.yes, L!AddOnFor(m, n))
    BY <1>1, <2>1 DEF L!TwinCandidate
  <2>4. {a, b} = {m, n}
    OBVIOUS
  <2> HIDE DEF i, j, p, a, b
  <2>5. a.yes \in Int /\ b.yes \in Int
    BY <1>2, <2>4
  <2>6. p.kind = kind /\ p.a = a /\ p.spread = L!Distance(a.yes, b.yes)
    BY <1>4, <1>6, <2>3
  <2>7. p.tradeable \in BOOLEAN
    BY <1>4, <2>3
  <2>8. p.spread \in Int
    BY <1>3, <2>5, <2>6
  <2>9. \E k \in group : p.a = served[k]
    BY <1>1, <2>4, <2>6
  <2> QED BY <2>2, <2>6, <2>7, <2>8, <2>9 DEF p
<1> QED BY <1>5, <1>6

\* What a group offers is due, and no other candidate of the group beats it.
LEMMA BestIs ==
    ASSUME Seen, ladders = L!ResolveHeldLadders, NEW kind \in {"time_series", "same_title"},
           kind = "time_series" => ladders # None,
           NEW p \in L!BestPairs(kind)
    PROVE  L!IsDue(p) /\ L!IsBest(p)
<1>1. PICK key \in L!GroupKeys(kind) : p \in L!BestOf(kind, L!Group(kind, key))
  BY DEF L!BestPairs
<1> DEFINE group == L!Group(kind, key)
<1>2. PICK c \in L!Candidates(kind, group) :
         /\ p = L!Candidate(kind, c)
         /\ \A d \in L!Candidates(kind, group) : ~L!Better(L!Candidate(kind, d), L!Candidate(kind, c))
  BY <1>1 DEF L!BestOf
<1>3. group \in SUBSET L!Markets /\ \A i \in group : L!GroupKey(kind, served[i]) = key
  BY DEF L!Group
<1> HIDE DEF group
<1>4. L!IsDue(p) /\ p.kind = kind /\ p.tradeable \in BOOLEAN /\ p.spread \in Int
  BY <1>2, <1>3, CandidatesDue
<1>5. \E i \in group : p.a = served[i]
  BY <1>2, <1>3, CandidatesDue
<1>6. L!GroupKey(kind, p.a) = key
  BY <1>3, <1>5
<1>7. ASSUME NEW q \in L!Rivals(p)
      PROVE  /\ q.tradeable => p.tradeable
             /\ q.tradeable = p.tradeable => q.spread <= p.spread
  <2>1. PICK d \in L!Candidates(kind, group) : q = L!Candidate(kind, d)
    BY <1>4, <1>6 DEF L!Rivals, group
  <2>2. ~L!Better(q, p)
    BY <1>2, <2>1
  <2>3. q.tradeable \in BOOLEAN /\ q.spread \in Int
    BY <1>3, <2>1, CandidatesDue
  <2>4. ~(q.spread > p.spread) => q.spread <= p.spread
    BY <1>4, <2>3
  <2> QED BY <1>4, <2>2, <2>3, <2>4 DEF L!Better
<1> QED BY <1>4, <1>7 DEF L!IsBest

\* All that is offered is.
LEMMA OffersAre ==
    ASSUME Seen, ladders = L!ResolveHeldLadders,
           offers = L!DedupPairs(L!FindSameTitlePairs, L!FindTimeSeriesPairs)
    PROVE  L!OffersAreDue
<1> SUFFICES ASSUME NEW p \in offers PROVE L!IsDue(p) /\ L!IsBest(p)
  BY DEF L!OffersAreDue
<1>1. p \in L!FindSameTitlePairs \/ p \in L!FindTimeSeriesPairs
  BY DEF L!DedupPairs
<1>2. CASE p \in L!FindSameTitlePairs
  <2>1. p \in L!BestPairs("same_title")
    BY <1>2 DEF L!FindSameTitlePairs
  <2> QED BY <2>1, BestIs
<1>3. CASE p \in L!FindTimeSeriesPairs
  <2>1. p \in L!BestPairs("time_series") /\ ladders # None
    BY <1>3 DEF L!FindTimeSeriesPairs
  <2> QED BY <2>1, BestIs
<1> QED BY <1>1, <1>2, <1>3

-----------------------------------------------------------------------------
(* The search.                                                               *)

\* Every open market read is listed, except on the shards said to be halted; once
\* all is read the coverage is told, then the ladders, then the offers.
Listing == {i \in DOMAIN served : served[i].active /\ L!Shard(served[i]) \notin L!InactiveShardIndexes}
ShardsListed == {L!Shard(served[i]) : i \in listed}
NothingToScan == (L!Statuses # None /\ L!InactiveShardIndexes = L!Advertised) \/ listed = {}
Offered == L!DedupPairs(L!FindSameTitlePairs, L!FindTimeSeriesPairs)

ScanIInv ==
    /\ found \in Runs /\ served \in Seq(L!Listable(found)) /\ listed = Listing
    /\ searched # "listing" => claims = L!LogShardCoverage(ShardsListed)
    /\ searched # "listing" => (searched = "blind" <=> NothingToScan)
    /\ searched \in {"resolved", "scanned"} => ladders = L!ResolveHeldLadders
    /\ IF searched = "scanned" THEN offers = Offered ELSE offers = {}

\* What is said of the listing follows from how it was read.
LEMMA HonestIs ==
    ASSUME ScanIInv PROVE L!ListingIsHonest
<1> SUFFICES ASSUME searched # "listing"
             PROVE  /\ listed = {i \in DOMAIN served : served[i].active /\ ~L!Halted(L!Shard(served[i]))}
                    /\ claims.full => /\ \A i \in L!Named : ~L!Halted(i) => L!Gave(i)
                                      /\ \E i \in L!Named : ~L!Halted(i)
                                      /\ found.funds \subseteq L!Named
                    /\ \A i \in L!Named \cap found.funds :
                          ~L!Halted(i) /\ ~L!Gave(i) => i \in claims.critical
                    /\ searched = "blind" <=>
                          \/ L!Named # {} /\ \A i \in L!Named : L!Halted(i)
                          \/ \A i \in DOMAIN served : served[i].active => L!Halted(L!Shard(served[i]))
  BY DEF L!ListingIsHonest
<1>1. /\ L!Advertised = L!Named /\ (L!Statuses = None <=> L!Named = {})
      /\ \A i : i \in L!InactiveShardIndexes <=> i \in L!Named /\ L!Halted(i)
      /\ \A i : L!Halted(i) /\ i # None => i \in L!Named
  BY ShardsAre DEF ScanIInv
<1>2. \A m : L!Shard(m) # None
  BY ScanAssumption DEF L!ScanAssumption, L!Shard
<1>3. \A i \in DOMAIN served : L!Shard(served[i]) \in L!InactiveShardIndexes <=> L!Halted(L!Shard(served[i]))
  BY <1>1, <1>2
<1>4. /\ listed = {i \in DOMAIN served : served[i].active /\ L!Shard(served[i]) \notin L!InactiveShardIndexes}
      /\ claims = L!LogShardCoverage(ShardsListed) /\ (searched = "blind" <=> NothingToScan)
  BY DEF ScanIInv, Listing
<1>5. listed = {i \in DOMAIN served : served[i].active /\ ~L!Halted(L!Shard(served[i]))}
  BY <1>3, <1>4
<1>6. \A s \in ShardsListed : L!Gave(s)
  BY <1>4 DEF ShardsListed, L!Gave
<1> DEFINE said == L!CheckShardCoverage(ShardsListed)
<1>7. /\ claims.critical = said.critical
      /\ claims.full <=> /\ L!Statuses # None /\ L!Advertised # L!InactiveShardIndexes
                         /\ said.critical \cup said.warned = {}
  BY <1>4 DEF L!LogShardCoverage
<1>8. ASSUME L!Statuses # None
      PROVE  /\ said.critical = (((L!Advertised \ L!InactiveShardIndexes) \ ShardsListed) \cap found.funds)
                                  \cup (ShardsListed \ L!Advertised)
             /\ said.warned = (((L!Advertised \ L!InactiveShardIndexes) \ ShardsListed) \ found.funds)
                                \cup (found.funds \ L!Advertised)
  BY <1>8 DEF L!CheckShardCoverage
<1> HIDE DEF said
<1>9. claims.full => /\ \A i \in L!Named : ~L!Halted(i) => L!Gave(i)
                     /\ \E i \in L!Named : ~L!Halted(i)
                     /\ found.funds \subseteq L!Named
  <2> SUFFICES ASSUME claims.full
               PROVE  /\ \A i \in L!Named : ~L!Halted(i) => L!Gave(i)
                      /\ \E i \in L!Named : ~L!Halted(i)
                      /\ found.funds \subseteq L!Named
    OBVIOUS
  <2>1. /\ ((L!Advertised \ L!InactiveShardIndexes) \ ShardsListed) \cap found.funds = {}
        /\ ((L!Advertised \ L!InactiveShardIndexes) \ ShardsListed) \ found.funds = {}
        /\ found.funds \ L!Advertised = {}
    BY <1>7, <1>8
  <2>2. \A i \in L!Named : ~L!Halted(i) => i \in ShardsListed
    BY <1>1, <2>1
  <2>3. \E i \in L!Named : ~L!Halted(i)
    BY <1>1, <1>7
  <2> QED BY <1>1, <1>6, <2>1, <2>2, <2>3
<1>10. ASSUME NEW i \in L!Named \cap found.funds, ~L!Halted(i), ~L!Gave(i)
       PROVE  i \in claims.critical
  <2>1. L!Statuses # None /\ i \in (L!Advertised \ L!InactiveShardIndexes) /\ i \notin ShardsListed
    BY <1>1, <1>6, <1>10
  <2> QED BY <1>7, <1>8, <2>1
<1>11. searched = "blind" <=>
          \/ L!Named # {} /\ \A i \in L!Named : L!Halted(i)
          \/ \A i \in DOMAIN served : served[i].active => L!Halted(L!Shard(served[i]))
  <2>1. (L!Statuses # None /\ L!InactiveShardIndexes = L!Advertised)
            <=> (L!Named # {} /\ \A i \in L!Named : L!Halted(i))
    BY <1>1
  <2>2. listed = {} <=> \A i \in DOMAIN served : served[i].active => L!Halted(L!Shard(served[i]))
    BY <1>5
  <2> QED BY <1>4, <2>1, <2>2 DEF NothingToScan
<1> QED BY <1>5, <1>9, <1>10, <1>11

LEMMA ScanTrueIs ==
    ASSUME ScanIInv PROVE L!ScanIsTrue
<1>1. L!ListingIsHonest
  BY HonestIs
<1>2. CASE searched = "scanned"
  <2>1. Seen /\ ladders = L!ResolveHeldLadders /\ offers = L!DedupPairs(L!FindSameTitlePairs, L!FindTimeSeriesPairs)
    BY <1>2 DEF ScanIInv, Seen, Listing, Offered
  <2> QED BY <1>1, <2>1, OffersAre DEF L!ScanIsTrue
<1>3. CASE searched # "scanned"
  BY <1>1, <1>3 DEF ScanIInv, L!ScanIsTrue, L!OffersAreDue
<1> QED BY <1>2, <1>3

\* What is made of the same listing stays the same.
LEMMA SameShards ==
    ASSUME found' = found
    PROVE  /\ L!Statuses' = L!Statuses /\ L!Advertised' = L!Advertised
           /\ L!InactiveShardIndexes' = L!InactiveShardIndexes
           /\ \A s : L!LogShardCoverage(s)' = L!LogShardCoverage(s)
<1>1. L!Statuses' = L!Statuses
  BY DEF L!Statuses
<1>2. L!Advertised' = L!Advertised
  BY <1>1 DEF L!Advertised
<1>3. L!InactiveShardIndexes' = L!InactiveShardIndexes
  BY <1>1, <1>2 DEF L!InactiveShardIndexes
<1> QED BY <1>1, <1>2, <1>3 DEF L!LogShardCoverage, L!CheckShardCoverage

LEMMA SameListing ==
    ASSUME UNCHANGED <<found, served, listed>>
    PROVE  /\ Listing' = Listing /\ ShardsListed' = ShardsListed
           /\ (NothingToScan' <=> NothingToScan)
           /\ L!LogShardCoverage(ShardsListed)' = L!LogShardCoverage(ShardsListed)
           /\ L!ResolveHeldLadders' = L!ResolveHeldLadders
           /\ \A t : L!HeldMarket(t)' = L!HeldMarket(t)
<1>1. Listing' = Listing
  BY SameShards DEF Listing
<1>2. ShardsListed' = ShardsListed
  BY DEF ShardsListed
<1>3. NothingToScan' <=> NothingToScan
  BY SameShards DEF NothingToScan
<1>4. L!LogShardCoverage(ShardsListed)' = L!LogShardCoverage(ShardsListed)
  BY <1>2, SameShards
<1>5. \A t : L!HeldMarket(t)' = L!HeldMarket(t)
  BY DEF L!HeldMarket
<1>6. L!ResolveHeldLadders' = L!ResolveHeldLadders
  BY <1>5 DEF L!ResolveHeldLadders
<1> QED BY <1>1, <1>2, <1>3, <1>4, <1>5, <1>6

LEMMA SameOffers ==
    ASSUME UNCHANGED <<found, served, listed, ladders>>
    PROVE  Offered' = Offered
<1>1. \A s : L!AddOn(s)' = L!AddOn(s)
  BY SameListing DEF L!AddOn
<1>2. L!AddOnPairs' = L!AddOnPairs
  BY <1>1 DEF L!AddOnPairs
<1>3. L!AddOnTickers' = L!AddOnTickers
  BY <1>2 DEF L!AddOnTickers
<1>4. \A m, n : L!AddOnFor(m, n)' = L!AddOnFor(m, n)
  BY <1>2, <1>3 DEF L!AddOnFor
<1>5. L!BlockedTickers' = L!BlockedTickers
  BY <1>3 DEF L!BlockedTickers, L!HeldOtherwise
<1>6. L!Markets' = L!Markets
  BY <1>5 DEF L!Markets, L!Active, L!WithinHorizon
<1>7. \A m : L!FeeMultiplier(m)' = L!FeeMultiplier(m)
  BY DEF L!FeeMultiplier, L!ListedMultiplier
<1>8. \A k, a, b, p, q, h : L!Pair(k, a, b, p, q, h)' = L!Pair(k, a, b, p, q, h)
  BY <1>7 DEF L!Pair, L!BeatsFee
<1>9. \A m, n : L!SpreadTaken(m, n)' = L!SpreadTaken(m, n)
  BY DEF L!SpreadTaken
<1>10. \A m : L!OnHeldLadder(m)' = L!OnHeldLadder(m)
  BY <1>3 DEF L!OnHeldLadder
<1>11. \A m, n : L!SeriesAddOn(m, n)' = L!SeriesAddOn(m, n)
  BY <1>4 DEF L!SeriesAddOn
<1>12. \A m, n : L!SeriesCandidate(m, n)' = L!SeriesCandidate(m, n)
  BY <1>8, <1>9, <1>10, <1>11 DEF L!SeriesCandidate
<1>13. \A m, n : L!TwinCandidate(m, n)' = L!TwinCandidate(m, n)
  BY <1>3, <1>4, <1>8 DEF L!TwinCandidate
<1>14. \A k, c : L!Candidate(k, c)' = L!Candidate(k, c)
  BY <1>12, <1>13 DEF L!Candidate
<1>15. \A k, i, j : L!Before(k, i, j)' = L!Before(k, i, j)
  BY DEF L!Before, L!ByClose
<1>16. \A k, g : L!Candidates(k, g)' = L!Candidates(k, g)
  BY <1>14, <1>15 DEF L!Candidates
<1>17. \A k, g : L!BestOf(k, g)' = L!BestOf(k, g)
  BY <1>14, <1>15, <1>16 DEF L!BestOf, L!Sooner
<1>18. \A k : L!GroupKeys(k)' = L!GroupKeys(k)
  BY <1>6 DEF L!GroupKeys
<1>19. \A k, x : L!Group(k, x)' = L!Group(k, x)
  BY <1>6 DEF L!Group
<1>20. \A k : L!BestPairs(k)' = L!BestPairs(k)
  BY <1>17, <1>18, <1>19 DEF L!BestPairs
<1>21. L!FindTimeSeriesPairs' = L!FindTimeSeriesPairs /\ L!FindSameTitlePairs' = L!FindSameTitlePairs
  BY <1>20 DEF L!FindTimeSeriesPairs, L!FindSameTitlePairs
<1> QED BY <1>21 DEF Offered

LEMMA ScanInit == L!Init => ScanIInv
<1> SUFFICES ASSUME L!Init PROVE ScanIInv
  OBVIOUS
<1>1. /\ found \in Runs /\ served = <<>> /\ listed = {} /\ offers = {} /\ searched = "listing"
  BY DEF L!Init
<1>2. served \in Seq(L!Listable(found)) /\ DOMAIN served = {}
  BY <1>1
<1>3. Listing = {}
  BY <1>2 DEF Listing
<1> QED BY <1>1, <1>2, <1>3 DEF ScanIInv

\* A page adds its open markets, and those on no halted shard are listed.
LEMMA PageKeeps ==
    ASSUME ScanIInv, NEW page \in found.pages.open \cup found.pages.mve, L!FetchPage(page)
    PROVE  ScanIInv'
<1> DEFINE n == Len(served)
           more == page.markets
<1>1. /\ searched = "listing" /\ searched' = searched /\ found' = found /\ offers' = offers
      /\ served' = served \o more
      /\ listed' = listed \cup {n + k : k \in L!Usable(more)}
  BY DEF L!FetchPage
<1>2. /\ found \in Runs /\ served \in Seq(L!Listable(found)) /\ listed = Listing /\ offers = {}
  BY <1>1 DEF ScanIInv
<1>3. more \in Seq(L!Listable(found))
  BY <1>2, OfRun
<1>4. served' \in Seq(L!Listable(found)')
  <2>1. L!Listable(found)' = L!Listable(found)
    BY <1>1
  <2> QED BY <1>1, <1>2, <1>3, <2>1
<1>5. /\ n \in Nat /\ Len(more) \in Nat /\ DOMAIN served = 1 .. n /\ DOMAIN more = 1 .. Len(more)
      /\ DOMAIN served' = 1 .. n + Len(more)
      /\ \A i \in 1 .. n : served'[i] = served[i]
      /\ \A k \in 1 .. Len(more) : served'[n + k] = more[k]
  BY <1>1, <1>2, <1>3
<1>6. L!InactiveShardIndexes' = L!InactiveShardIndexes
  BY <1>1, SameShards
<1>7. Listing' = {i \in DOMAIN served' : served'[i].active /\ L!Shard(served'[i]) \notin L!InactiveShardIndexes}
  BY <1>6 DEF Listing
<1> HIDE DEF n, more
<1>8. ASSUME NEW i PROVE i \in listed' <=> i \in Listing'
  <2>1. CASE i \in 1 .. n
    <3>1. i \in Listing' <=> i \in Listing
      BY <1>5, <1>7, <2>1 DEF Listing
    <3>2. i \notin {n + k : k \in L!Usable(more)}
      BY <1>5, <2>1 DEF L!Usable
    <3> QED BY <1>1, <1>2, <3>1, <3>2
  <2>2. CASE i \in n + 1 .. n + Len(more)
    <3>1. i - n \in 1 .. Len(more) /\ i = n + (i - n) /\ i \notin 1 .. n /\ i \in 1 .. n + Len(more)
      BY <1>5, <2>2
    <3>2. i \in Listing' <=> more[i - n].active /\ L!Shard(more[i - n]) \notin L!InactiveShardIndexes
      BY <1>5, <1>7, <3>1
    <3>3. i - n \in L!Usable(more) <=> more[i - n].active /\ L!Shard(more[i - n]) \notin L!InactiveShardIndexes
      BY <1>5, <3>1 DEF L!Usable
    <3>4. i \in {n + k : k \in L!Usable(more)} <=> i - n \in L!Usable(more)
      <4>1. \A k \in L!Usable(more) : k \in Int
        BY <1>5 DEF L!Usable
      <4>2. \A k \in L!Usable(more) : i = n + k => k = i - n
        BY <1>5, <2>2, <4>1
      <4> QED BY <3>1, <4>2
    <3>5. i \notin listed
      BY <1>2, <1>5, <3>1 DEF Listing
    <3> QED BY <1>1, <3>2, <3>3, <3>4, <3>5
  <2>3. CASE i \notin 1 .. n /\ i \notin n + 1 .. n + Len(more)
    <3>1. i \notin 1 .. n + Len(more)
      BY <1>5, <2>3
    <3>2. i \notin Listing' /\ i \notin Listing
      BY <1>5, <1>7, <2>3, <3>1 DEF Listing
    <3>3. \A k \in L!Usable(more) : n + k \in 1 .. n + Len(more)
      BY <1>5 DEF L!Usable
    <3> QED BY <1>1, <1>2, <3>1, <3>2, <3>3
  <2> QED BY <2>1, <2>2, <2>3
<1>9. listed' = Listing'
  <2>1. \A i : i \in listed' <=> i \in Listing'
    BY <1>8
  <2>2. Listing' \subseteq DOMAIN served'
    BY <1>7
  <2> QED BY <2>1
<1> QED BY <1>1, <1>2, <1>4, <1>9 DEF ScanIInv

LEMMA CoverKeeps ==
    ASSUME ScanIInv, L!Cover PROVE ScanIInv'
<1>1. /\ searched = "listing" /\ UNCHANGED <<found, served, listed, offers>>
      /\ claims' = L!LogShardCoverage(ShardsListed)
      /\ searched' = IF NothingToScan THEN "blind" ELSE "covered"
  BY DEF L!Cover, ShardsListed, NothingToScan
<1>2. /\ Listing' = Listing /\ (NothingToScan' <=> NothingToScan)
      /\ L!LogShardCoverage(ShardsListed)' = L!LogShardCoverage(ShardsListed)
  BY <1>1, SameListing
<1>3. found' \in Runs /\ served' \in Seq(L!Listable(found)') /\ listed' = Listing' /\ offers' = {}
  BY <1>1, <1>2 DEF ScanIInv
<1> QED BY <1>1, <1>2, <1>3 DEF ScanIInv

LEMMA ResolveKeeps ==
    ASSUME ScanIInv, L!Resolve PROVE ScanIInv'
<1>1. /\ searched = "covered" /\ searched' = "resolved"
      /\ UNCHANGED <<found, served, listed, offers, claims>>
      /\ ladders' = L!ResolveHeldLadders
  BY DEF L!Resolve
<1>2. /\ Listing' = Listing /\ (NothingToScan' <=> NothingToScan)
      /\ L!LogShardCoverage(ShardsListed)' = L!LogShardCoverage(ShardsListed)
      /\ L!ResolveHeldLadders' = L!ResolveHeldLadders
  BY <1>1, SameListing
<1>3. found' \in Runs /\ served' \in Seq(L!Listable(found)') /\ listed' = Listing' /\ offers' = {}
  BY <1>1, <1>2 DEF ScanIInv
<1> QED BY <1>1, <1>2, <1>3 DEF ScanIInv

LEMMA SearchKeeps ==
    ASSUME ScanIInv, L!Search PROVE ScanIInv'
<1>1. /\ searched = "resolved" /\ searched' = "scanned"
      /\ UNCHANGED <<found, served, listed, ladders, claims>>
      /\ offers' = Offered
  BY DEF L!Search, Offered
<1>2. /\ Listing' = Listing /\ (NothingToScan' <=> NothingToScan)
      /\ L!LogShardCoverage(ShardsListed)' = L!LogShardCoverage(ShardsListed)
      /\ L!ResolveHeldLadders' = L!ResolveHeldLadders /\ Offered' = Offered
  BY <1>1, SameListing, SameOffers
<1>3. found' \in Runs /\ served' \in Seq(L!Listable(found)') /\ listed' = Listing'
  BY <1>1, <1>2 DEF ScanIInv
<1> QED BY <1>1, <1>2, <1>3 DEF ScanIInv

LEMMA ScanStutters ==
    ASSUME ScanIInv, UNCHANGED L!vars PROVE ScanIInv'
<1>1. UNCHANGED <<found, served, listed, ladders, claims, offers, searched>>
  BY DEF L!vars
<1>2. /\ Listing' = Listing /\ (NothingToScan' <=> NothingToScan)
      /\ L!LogShardCoverage(ShardsListed)' = L!LogShardCoverage(ShardsListed)
      /\ L!ResolveHeldLadders' = L!ResolveHeldLadders /\ Offered' = Offered
  BY <1>1, SameListing, SameOffers
<1> QED BY <1>1, <1>2 DEF ScanIInv

LEMMA ScanStep == ScanIInv /\ [L!Next]_(L!vars) => ScanIInv'
<1> SUFFICES ASSUME ScanIInv, [L!Next]_(L!vars) PROVE ScanIInv'
  OBVIOUS
<1>1. ASSUME NEW page \in found.pages.open \cup found.pages.mve, L!FetchPage(page) PROVE ScanIInv'
  BY <1>1, PageKeeps
<1>2. CASE L!Cover
  BY <1>2, CoverKeeps
<1>3. CASE L!Resolve
  BY <1>3, ResolveKeeps
<1>4. CASE L!Search
  BY <1>4, SearchKeeps
<1>5. CASE UNCHANGED L!vars
  BY <1>5, ScanStutters
<1> QED BY <1>1, <1>2, <1>3, <1>4, <1>5 DEF L!Next, L!Finished

\* What a run says of the shards it scanned is so, and whatever it hands on to be
\* priced is of open markets, held in nothing but what the pair adds to, on no
\* ladder of another holding, as good as its fee is sure, and the best of its
\* group (_log_shard_coverage, _blind_run_reason, find_time_series_pairs,
\* find_same_title_pairs).
THEOREM ScanSpeaksTrue == L!Spec => []ScanIsTrue
<1>1. ScanIInv => ScanIsTrue
  BY ScanTrueIs DEF ScanIsTrue
<1> QED BY <1>1, ScanInit, ScanStep, PTL DEF L!Spec

-----------------------------------------------------------------------------
(* What is done with the positions held.                                     *)

\* The account, market by market.
Books == [bought : [HeldMarkets -> Nat], sold : [HeldMarkets -> Nat],
          last : [HeldMarkets -> 0 .. LastDay \cup {None}], days : SUBSET (0 .. LastDay),
          mate : [HeldMarkets -> HeldMarkets \cup {None}], asPaid : [HeldMarkets -> BOOLEAN], trades : Nat]

\* The shape of the account and of what was settled.
Kept ==
    /\ day \in 0 .. LastDay
    /\ acct \in Books /\ acct.days \subseteq 0 .. day
    /\ \A m \in HeldMarkets : acct.sold[m] <= acct.bought[m]
    /\ DOMAIN ruled = HeldMarkets
    /\ \A m \in HeldMarkets : ruled[m] # None => ruled[m].at \in 0 .. LastDay + 1

\* What is held was bought with a market of its question: that market is still
\* held, as many contracts; or it has paid out, as many as are held since, and
\* none of the question later.
MateHeld(m) ==
    ruled[acct.mate[m]] = None =>
        /\ acct.mate[m] \in H!Held /\ acct.mate[acct.mate[m]] = m
        /\ H!SettledCount(acct.mate[m]) = H!SettledCount(m)
MatePaid(m) ==
    ruled[acct.mate[m]] # None =>
        /\ acct.asPaid[m] => H!SettledCount(acct.mate[m]) = H!SettledCount(m)
        /\ \A s \in H!PaidOut : HeldQuestion[s] = HeldQuestion[m] => ruled[s].at <= ruled[acct.mate[m]].at
Mated(m) ==
    /\ acct.mate[m] \in HeldMarkets /\ acct.mate[m] # m
    /\ HeldQuestion[acct.mate[m]] = HeldQuestion[m] /\ HeldSide[acct.mate[m]] # HeldSide[m]
    /\ H!HeldOn(HeldQuestion[m]) \subseteq {m, acct.mate[m]}
    /\ acct.last[m] \in acct.days
    /\ MateHeld(m) /\ MatePaid(m)

HoldInv == Kept /\ \A m \in H!Held : Mated(m)

\* A position is a market alone whose mate has paid out, or the two that were
\* bought together, as many of each.
IsStake(ms, m) ==
    /\ m \in H!Held /\ ms = H!HeldOn(HeldQuestion[m])
    /\ \A x \in ms : H!CountOf(ms) = H!SettledCount(x)
    /\ \/ ms = {m} /\ H!Lone(ms) /\ ruled[acct.mate[m]] # None
       \/ /\ ms = {m, acct.mate[m]} /\ ~H!Lone(ms) /\ acct.mate[m] \in H!Held
          /\ acct.mate[acct.mate[m]] = m

LEMMA SetsOfHoldings ==
    ASSUME NEW s PROVE (H!IsFiniteSet(s) <=> IsFiniteSet(s)) /\ H!Cardinality(s) = Cardinality(s)
BY DEF H!IsFiniteSet, IsFiniteSet, H!Cardinality, Cardinality

LEMMA HeldStake ==
    ASSUME HoldInv, NEW ms \in H!HeldPairs
    PROVE  \E m \in ms : IsStake(ms, m)
<1>1. PICK m \in H!Held : ms = H!HeldOn(HeldQuestion[m])
  BY DEF H!HeldPairs
<1> DEFINE t == acct.mate[m]
<1>2. m \in ms /\ ms \subseteq {m, t} /\ Mated(m) /\ m \in HeldMarkets
  BY <1>1 DEF HoldInv, Mated, H!HeldOn, H!Held
<1>3. H!TheOf(ms) \in ms
  BY <1>2 DEF H!TheOf
<1>4. \A x \in ms : x \in HeldMarkets /\ ruled[x] = None
  BY <1>1 DEF H!HeldOn, H!Held
<1>5. \A x \in ms : H!SettledCount(x) = H!SettledCount(m)
  BY <1>2, <1>4 DEF Mated, MateHeld
<1>6. \A x \in ms : H!CountOf(ms) = H!SettledCount(x)
  BY <1>3, <1>5 DEF H!CountOf
<1>7. CASE t \in ms
  <2>1. ms = {m, t} /\ t # m
    BY <1>2, <1>7 DEF Mated
  <2>2. Cardinality({m}) = 1 /\ IsFiniteSet({m})
    BY FS_Singleton
  <2>3. Cardinality({m} \cup {t}) = Cardinality({m}) + 1
    <3>1. t \notin {m}
      BY <2>1
    <3> QED BY <2>2, <3>1, FS_AddElement
  <2>4. ms = {m} \cup {t}
    BY <2>1
  <2>5. ~H!Lone(ms)
    BY <2>2, <2>3, <2>4, SetsOfHoldings DEF H!Lone
  <2>6. t \in H!Held /\ acct.mate[t] = m
    BY <1>2, <1>4, <1>7 DEF Mated, MateHeld
  <2> QED BY <1>1, <1>2, <1>6, <2>1, <2>5, <2>6 DEF IsStake
<1>8. CASE t \notin ms
  <2>1. ms = {m}
    BY <1>2, <1>8
  <2>2. H!Lone(ms)
    BY <2>1, FS_Singleton, SetsOfHoldings DEF H!Lone
  <2>3. t \notin H!Held
    BY <1>1, <1>2, <1>8 DEF Mated, H!HeldOn
  <2>4. ruled[t] # None
    BY <1>2, <2>3 DEF Mated, MateHeld
  <2> QED BY <1>1, <1>2, <1>6, <2>1, <2>2, <2>4 DEF IsStake
<1> QED BY <1>7, <1>8

\* The account after a trade, field by field.
LEMMA TradedFields ==
    ASSUME acct \in Books, NEW ms \in SUBSET HeldMarkets, day \in 0 .. LastDay
    PROVE  /\ H!Traded(acct, ms) =
                 [acct EXCEPT
                     !.last = [m \in HeldMarkets |-> IF m \in ms THEN day ELSE acct.last[m]],
                     !.days = acct.days \cup {day},
                     !.asPaid = [m \in HeldMarkets |-> IF ms = {m} THEN FALSE ELSE acct.asPaid[m]]]
           /\ H!Traded(acct, ms) \in Books /\ H!Traded(acct, ms).trades = acct.trades
<1>1. \A m \in HeldMarkets : acct.last[m] \in 0 .. LastDay \cup {None} /\ acct.asPaid[m] \in BOOLEAN
  BY DEF Books
<1>2. /\ [m \in HeldMarkets |-> IF m \in ms THEN day ELSE acct.last[m]] \in [HeldMarkets -> 0 .. LastDay \cup {None}]
      /\ [m \in HeldMarkets |-> IF ms = {m} THEN FALSE ELSE acct.asPaid[m]] \in [HeldMarkets -> BOOLEAN]
      /\ acct.days \cup {day} \in SUBSET (0 .. LastDay)
  BY <1>1 DEF Books
<1> QED BY <1>2 DEF H!Traded, Books

\* Selling of a position or adding to it keeps the rest as it was, and of the
\* position what is left: a pair stays even, a market alone is marked.
OfStake(ms, k) ==
    /\ acct' \in Books /\ acct'.mate = acct.mate /\ acct'.days = acct.days \cup {day}
    /\ acct'.last = [m \in HeldMarkets |-> IF m \in ms THEN day ELSE acct.last[m]]
    /\ acct'.asPaid = [m \in HeldMarkets |-> IF ms = {m} THEN FALSE ELSE acct.asPaid[m]]
    /\ \A m \in HeldMarkets : H!SettledCount(m)' = IF m \in ms THEN H!SettledCount(m) + k ELSE H!SettledCount(m)

LEMMA TradeKeeps ==
    ASSUME HoldInv, NEW ms \in H!HeldPairs, NEW k \in Int, OfStake(ms, k), H!CountOf(ms) + k >= 0,
           UNCHANGED <<day, ruled>>
    PROVE  HoldInv'
<1>1. PICK m \in ms : IsStake(ms, m)
  BY HeldStake
<1> DEFINE t == acct.mate[m]
<1>2. /\ m \in H!Held /\ m \in HeldMarkets /\ ruled[m] = None /\ t \in HeldMarkets /\ t # m
      /\ HeldQuestion[t] = HeldQuestion[m] /\ HeldSide[t] # HeldSide[m] /\ Mated(m)
  BY <1>1 DEF IsStake, HoldInv, H!Held, Mated
<1>3. \A x \in ms : x \in H!Held /\ x \in HeldMarkets /\ HeldQuestion[x] = HeldQuestion[m] /\ ruled[x] = None
  BY <1>1 DEF IsStake, H!HeldOn, H!Held
<1>4. \A x \in H!Held : HeldQuestion[x] = HeldQuestion[m] => x \in ms
  BY <1>1 DEF IsStake, H!HeldOn
<1>5. \A x \in HeldMarkets : H!SettledCount(x) \in Int
  BY DEF HoldInv, Kept, Books, H!SettledCount
<1>6. \A x \in HeldMarkets : H!SettledCount(x) >= 0
  BY DEF HoldInv, Kept, Books, H!SettledCount
<1>7. \A x \in ms : H!SettledCount(x) = H!CountOf(ms) /\ H!SettledCount(x) > 0
  BY <1>1, <1>3 DEF IsStake, H!Held
<1>8. \A x \in HeldMarkets : H!SettledCount(x)' \in Int /\ H!SettledCount(x)' >= 0
  BY <1>5, <1>6, <1>7 DEF OfStake
<1>9. Kept'
  <2>1. \A x \in HeldMarkets : acct'.sold[x] <= acct'.bought[x]
    BY <1>8 DEF H!SettledCount, OfStake, Books
  <2> QED BY <2>1 DEF Kept, HoldInv, OfStake
<1>10. H!Held' \subseteq H!Held
  <2> SUFFICES ASSUME NEW x \in H!Held' PROVE x \in H!Held
    OBVIOUS
  <2>1. x \in HeldMarkets /\ ruled[x] = None /\ H!SettledCount(x)' > 0
    BY DEF H!Held, H!SettledCount
  <2> QED BY <1>3, <2>1 DEF OfStake, H!Held
<1>11. H!PaidOut' = H!PaidOut
  <2>1. \A x \in HeldMarkets : ruled[x] # None => H!SettledCount(x)' = H!SettledCount(x)
    BY <1>3 DEF OfStake
  <2> QED BY <2>1 DEF H!PaidOut, H!SettledCount
<1>12. ASSUME NEW x \in H!Held' PROVE Mated(x)'
  <2>0. x \in H!Held /\ x \in HeldMarkets /\ ruled[x] = None
    BY <1>10 DEF H!Held
  <2>1. Mated(x)
    BY <2>0 DEF HoldInv
  <2>2. acct'.mate[x] = acct.mate[x] /\ acct.mate[x] \in HeldMarkets
    BY <2>1 DEF OfStake, Mated
  <2>3. H!HeldOn(HeldQuestion[x])' \subseteq {x, acct.mate[x]}
    BY <1>10, <2>1 DEF H!HeldOn, Mated
  <2>4. acct'.last[x] \in acct'.days
    BY <2>0, <2>1 DEF OfStake, Mated
  <2>5. MateHeld(x)'
    <3> SUFFICES ASSUME ruled[acct.mate[x]] = None
                 PROVE  /\ acct.mate[x] \in H!Held' /\ acct.mate[acct.mate[x]] = x
                        /\ H!SettledCount(acct.mate[x])' = H!SettledCount(x)'
      BY <2>2 DEF MateHeld, OfStake, H!SettledCount
    <3>1. /\ acct.mate[x] \in H!Held /\ acct.mate[acct.mate[x]] = x
          /\ H!SettledCount(acct.mate[x]) = H!SettledCount(x)
      BY <2>1 DEF Mated, MateHeld
    <3>2. x \in ms <=> acct.mate[x] \in ms
      BY <1>3, <1>4, <2>0, <2>1, <3>1 DEF Mated
    <3>3. H!SettledCount(acct.mate[x])' = H!SettledCount(x)'
      BY <2>0, <2>2, <3>1, <3>2 DEF OfStake
    <3>4. H!SettledCount(x)' > 0
      BY DEF H!Held, H!SettledCount
    <3>5. acct.mate[x] \in H!Held'
      BY <2>2, <3>3, <3>4 DEF H!Held, H!SettledCount
    <3> QED BY <3>1, <3>3, <3>5
  <2>6. MatePaid(x)'
    <3> SUFFICES ASSUME ruled[acct.mate[x]] # None
                 PROVE  /\ acct'.asPaid[x] => H!SettledCount(acct.mate[x])' = H!SettledCount(x)'
                        /\ \A s \in H!PaidOut : HeldQuestion[s] = HeldQuestion[x] =>
                                ruled[s].at <= ruled[acct.mate[x]].at
      BY <1>11, <2>2 DEF MatePaid, H!SettledCount
    <3>1. /\ acct.asPaid[x] => H!SettledCount(acct.mate[x]) = H!SettledCount(x)
          /\ \A s \in H!PaidOut : HeldQuestion[s] = HeldQuestion[x] => ruled[s].at <= ruled[acct.mate[x]].at
      BY <2>1 DEF Mated, MatePaid
    <3>2. acct.mate[x] \notin ms
      BY <1>3
    <3>3. CASE x \in ms
      <4>1. acct.mate[m] = acct.mate[x] \/ acct.mate[x] = m
        BY <1>1, <3>3 DEF IsStake
      <4>2. ms = {x}
        BY <1>1, <3>2, <3>3 DEF IsStake
      <4> QED BY <2>0, <3>1, <4>2 DEF OfStake
    <3>4. CASE x \notin ms
      <4>1. acct'.asPaid[x] = acct.asPaid[x]
        BY <2>0, <3>4 DEF OfStake
      <4> QED BY <2>0, <2>2, <3>1, <3>2, <3>4, <4>1 DEF OfStake
    <3> QED BY <3>3, <3>4
  <2> QED BY <2>1, <2>2, <2>3, <2>4, <2>5, <2>6 DEF Mated
<1> QED BY <1>9, <1>12 DEF HoldInv

LEMMA InitHold == H!Init => HoldInv
<1> SUFFICES ASSUME H!Init PROVE HoldInv
  OBVIOUS
<1>1. PICK past \in [HeldMarkets -> UNION {HeldBefore[m] : m \in HeldMarkets}] :
         /\ \A m \in HeldMarkets : past[m] \in HeldBefore[m]
         /\ ruled = [m \in HeldMarkets |-> IF past[m] = 0 THEN None ELSE [result |-> "no", at |-> 0]]
         /\ acct = [bought |-> past, sold |-> [m \in HeldMarkets |-> 0],
                    last |-> [m \in HeldMarkets |-> None], days |-> {},
                    mate |-> [m \in HeldMarkets |-> None], asPaid |-> [m \in HeldMarkets |-> TRUE],
                    trades |-> 0]
  BY DEF H!Init
<1>2. \A m \in HeldMarkets : past[m] \in Nat
  BY <1>1, HoldingsAssumption DEF H!HoldingsAssumption
<1>3. past \in [HeldMarkets -> Nat]
  BY <1>2
<1>4. acct \in Books
  <2>1. None \in HeldMarkets \cup {None} /\ None \in 0 .. LastDay \cup {None}
    OBVIOUS
  <2> QED BY <1>1, <1>3, <2>1 DEF Books
<1>5. day = 0 /\ 0 \in 0 .. LastDay /\ 0 \in 0 .. LastDay + 1
  BY HoldingsAssumption DEF H!Init, H!HoldingsAssumption
<1>6. \A m \in HeldMarkets : ruled[m] # None => ruled[m].at \in 0 .. LastDay + 1
  BY <1>1, <1>5
<1>7. Kept
  BY <1>1, <1>2, <1>4, <1>5, <1>6 DEF Kept
<1>8. H!Held = {}
  <2> SUFFICES ASSUME NEW m \in H!Held PROVE FALSE
    OBVIOUS
  <2>1. m \in HeldMarkets /\ ruled[m] = None /\ H!SettledCount(m) > 0
    BY DEF H!Held
  <2>2. past[m] # 0
    BY <1>1, <2>1 DEF H!SettledCount
  <2>3. [result |-> "no", at |-> 0] # None
    BY <1>5, HoldingsAssumption DEF H!HoldingsAssumption
  <2> QED BY <1>1, <2>1, <2>2, <2>3
<1> QED BY <1>7, <1>8 DEF HoldInv

\* The account and the settlements alone bear on it, and the day only rises.
LEMMA SameKeeps ==
    ASSUME HoldInv, UNCHANGED <<acct, ruled>>, day' \in day .. LastDay
    PROVE  HoldInv'
<1>1. Kept'
  BY DEF HoldInv, Kept
<1>2. H!Held' = H!Held /\ H!PaidOut' = H!PaidOut
  BY DEF H!Held, H!PaidOut, H!SettledCount
<1>3. \A m \in H!Held : Mated(m)'
  BY <1>2 DEF HoldInv, Mated, MateHeld, MatePaid, H!HeldOn, H!SettledCount
<1> QED BY <1>1, <1>2, <1>3 DEF HoldInv

LEMMA NextDayHold == HoldInv /\ H!NextDay => HoldInv'
<1> SUFFICES ASSUME HoldInv, H!NextDay PROVE HoldInv'
  OBVIOUS
<1>1. day' \in day .. LastDay
  BY HoldingsAssumption DEF HoldInv, Kept, H!NextDay, H!HoldingsAssumption
<1> QED BY <1>1, SameKeeps DEF H!NextDay

LEMMA MoreIs ==
    ASSUME NEW b \in [HeldMarkets -> Nat], NEW ms, NEW n \in Nat
    PROVE  /\ H!More(b, ms, n) \in [HeldMarkets -> Nat]
           /\ \A x \in HeldMarkets : H!More(b, ms, n)[x] = IF x \in ms THEN b[x] + n ELSE b[x]
<1>1. \A x \in HeldMarkets : b[x] \in Nat /\ b[x] + n \in Nat
  OBVIOUS
<1> QED BY <1>1 DEF H!More

LEMMA SoldIs ==
    ASSUME HoldInv, NEW ms \in SUBSET HeldMarkets, NEW n \in Nat, NEW k \in Nat,
           acct' = [H!Traded(acct, ms) EXCEPT !.sold = H!More(@, ms, n), !.trades = k]
    PROVE  OfStake(ms, -n)
<1>0. acct \in Books /\ day \in 0 .. LastDay
  BY DEF HoldInv, Kept
<1>1. /\ H!Traded(acct, ms) =
           [acct EXCEPT
               !.last = [x \in HeldMarkets |-> IF x \in ms THEN day ELSE acct.last[x]],
               !.days = acct.days \cup {day},
               !.asPaid = [x \in HeldMarkets |-> IF ms = {x} THEN FALSE ELSE acct.asPaid[x]]]
      /\ H!Traded(acct, ms) \in Books
  BY <1>0, TradedFields
<1>2. /\ H!More(acct.sold, ms, n) \in [HeldMarkets -> Nat]
      /\ \A x \in HeldMarkets : H!More(acct.sold, ms, n)[x] = IF x \in ms THEN acct.sold[x] + n ELSE acct.sold[x]
  BY <1>0, MoreIs DEF Books
<1>3. acct' \in Books /\ acct'.bought = acct.bought /\ acct'.sold = H!More(acct.sold, ms, n)
  BY <1>0, <1>1, <1>2 DEF Books
<1>4. \A x \in HeldMarkets : acct.bought[x] \in Nat /\ acct.sold[x] \in Nat
  BY <1>0 DEF Books
<1>5. \A x \in HeldMarkets : H!SettledCount(x)' = IF x \in ms THEN H!SettledCount(x) + (-n) ELSE H!SettledCount(x)
  BY <1>2, <1>3, <1>4 DEF H!SettledCount
<1> QED BY <1>0, <1>1, <1>3, <1>5 DEF OfStake, Books

LEMMA BoughtIs ==
    ASSUME HoldInv, NEW ms \in SUBSET HeldMarkets, NEW n \in Nat, NEW k \in Nat,
           acct' = [H!Traded(acct, ms) EXCEPT !.bought = H!More(@, ms, n), !.trades = k]
    PROVE  OfStake(ms, n)
<1>0. acct \in Books /\ day \in 0 .. LastDay
  BY DEF HoldInv, Kept
<1>1. /\ H!Traded(acct, ms) =
           [acct EXCEPT
               !.last = [x \in HeldMarkets |-> IF x \in ms THEN day ELSE acct.last[x]],
               !.days = acct.days \cup {day},
               !.asPaid = [x \in HeldMarkets |-> IF ms = {x} THEN FALSE ELSE acct.asPaid[x]]]
      /\ H!Traded(acct, ms) \in Books
  BY <1>0, TradedFields
<1>2. /\ H!More(acct.bought, ms, n) \in [HeldMarkets -> Nat]
      /\ \A x \in HeldMarkets : H!More(acct.bought, ms, n)[x] = IF x \in ms THEN acct.bought[x] + n ELSE acct.bought[x]
  BY <1>0, MoreIs DEF Books
<1>3. acct' \in Books /\ acct'.sold = acct.sold /\ acct'.bought = H!More(acct.bought, ms, n)
  BY <1>0, <1>1, <1>2 DEF Books
<1>4. \A x \in HeldMarkets : acct.bought[x] \in Nat /\ acct.sold[x] \in Nat
  BY <1>0 DEF Books
<1>5. \A x \in HeldMarkets : H!SettledCount(x)' = IF x \in ms THEN H!SettledCount(x) + n ELSE H!SettledCount(x)
  BY <1>2, <1>3, <1>4 DEF H!SettledCount
<1> QED BY <1>0, <1>1, <1>3, <1>5 DEF OfStake, Books

\* The position a trade is of.
LEMMA StakeCount ==
    ASSUME HoldInv, NEW ms \in H!HeldPairs
    PROVE  /\ ms \subseteq HeldMarkets /\ H!CountOf(ms) \in Nat /\ acct.trades \in Nat
           /\ H!Traded(acct, ms) \in Books /\ H!Traded(acct, ms).trades = acct.trades
<1>1. PICK m \in ms : IsStake(ms, m)
  BY HeldStake
<1>2. ms \subseteq HeldMarkets /\ H!CountOf(ms) = H!SettledCount(m) /\ m \in HeldMarkets /\ H!SettledCount(m) > 0
  BY <1>1 DEF IsStake, H!HeldOn, H!Held
<1>3. acct \in Books /\ day \in 0 .. LastDay
  BY DEF HoldInv, Kept
<1>4. H!Traded(acct, ms) \in Books /\ H!Traded(acct, ms).trades = acct.trades
  BY <1>2, <1>3, TradedFields
<1>5. H!CountOf(ms) \in Nat
  BY <1>2, <1>3 DEF Books, H!SettledCount
<1> QED BY <1>2, <1>3, <1>4, <1>5 DEF Books

LEMMA SellHold ==
    ASSUME HoldInv, NEW ms \in H!HeldPairs, NEW blind, H!Sell(ms, blind)
    PROVE  HoldInv'
<1>1. /\ ms \subseteq HeldMarkets /\ H!CountOf(ms) \in Nat /\ acct.trades \in Nat
      /\ H!Traded(acct, ms) \in Books /\ H!Traded(acct, ms).trades = acct.trades
  BY StakeCount
<1>2. /\ acct' = [H!Traded(acct, ms) EXCEPT !.sold = H!More(@, ms, H!CountOf(ms))]
      /\ UNCHANGED <<day, ruled>>
  BY DEF H!Sell
<1>4. acct' = [H!Traded(acct, ms) EXCEPT !.sold = H!More(@, ms, H!CountOf(ms)), !.trades = acct.trades]
  BY <1>1, <1>2 DEF Books
<1>5. OfStake(ms, -H!CountOf(ms))
  BY <1>1, <1>4, SoldIs
<1>6. -H!CountOf(ms) \in Int /\ H!CountOf(ms) + (-H!CountOf(ms)) >= 0
  BY <1>1
<1> QED BY <1>2, <1>5, <1>6, TradeKeeps

LEMMA TrimHold ==
    ASSUME HoldInv, NEW ms \in H!HeldPairs, NEW n \in Counts, NEW blind, NEW first, H!Trim(ms, n, blind, first)
    PROVE  HoldInv'
<1>1. /\ ms \subseteq HeldMarkets /\ H!CountOf(ms) \in Nat /\ acct.trades \in Nat
      /\ H!Traded(acct, ms) \in Books /\ H!Traded(acct, ms).trades = acct.trades
  BY StakeCount
<1>2. /\ acct' = [H!Traded(acct, ms) EXCEPT !.sold = H!More(@, ms, n), !.trades = @ + 1]
      /\ n <= H!CountOf(ms) /\ UNCHANGED <<day, ruled>>
  BY DEF H!Trim
<1>4. acct' = [H!Traded(acct, ms) EXCEPT !.sold = H!More(@, ms, n), !.trades = acct.trades + 1]
  BY <1>1, <1>2
<1>5. n \in Nat /\ acct.trades + 1 \in Nat
  BY <1>1, HoldingsAssumption DEF H!HoldingsAssumption
<1>6. OfStake(ms, -n)
  BY <1>1, <1>4, <1>5, SoldIs
<1>7. -n \in Int /\ H!CountOf(ms) + (-n) >= 0
  BY <1>1, <1>2, <1>5
<1> QED BY <1>2, <1>6, <1>7, TradeKeeps

LEMMA AddOnHold ==
    ASSUME HoldInv, NEW ms \in H!HeldPairs, NEW n \in Counts, NEW first, H!AddOn(ms, n, first)
    PROVE  HoldInv'
<1>1. /\ ms \subseteq HeldMarkets /\ H!CountOf(ms) \in Nat /\ acct.trades \in Nat
      /\ H!Traded(acct, ms) \in Books /\ H!Traded(acct, ms).trades = acct.trades
  BY StakeCount
<1>2. /\ acct' = [H!Traded(acct, ms) EXCEPT !.bought = H!More(@, ms, n), !.trades = @ + 1]
      /\ UNCHANGED <<day, ruled>>
  BY DEF H!AddOn
<1>4. acct' = [H!Traded(acct, ms) EXCEPT !.bought = H!More(@, ms, n), !.trades = acct.trades + 1]
  BY <1>1, <1>2
<1>5. n \in Nat /\ acct.trades + 1 \in Nat
  BY <1>1, HoldingsAssumption DEF H!HoldingsAssumption
<1>6. OfStake(ms, n)
  BY <1>1, <1>4, <1>5, BoughtIs
<1>7. n \in Int /\ H!CountOf(ms) + n >= 0
  BY <1>1, <1>5
<1> QED BY <1>2, <1>6, <1>7, TradeKeeps

LEMMA OpenHold ==
    ASSUME HoldInv, NEW e \in HeldMarkets, NEW l \in HeldMarkets, NEW n \in Counts, H!Open(e, l, n)
    PROVE  HoldInv'
<1>1. /\ HeldQuestion[e] = HeldQuestion[l] /\ HeldSide[e] # HeldSide[l] /\ e # l
      /\ ruled[e] = None /\ ruled[l] = None /\ H!HeldOn(HeldQuestion[e]) = {}
      /\ UNCHANGED <<day, ruled>>
  BY DEF H!Open
<1>2. acct \in Books /\ day \in 0 .. LastDay /\ n \in Nat /\ n > 0
  BY HoldingsAssumption DEF HoldInv, Kept, H!HoldingsAssumption
<1>3. /\ H!Traded(acct, {e, l}) =
           [acct EXCEPT
               !.last = [x \in HeldMarkets |-> IF x \in {e, l} THEN day ELSE acct.last[x]],
               !.days = acct.days \cup {day},
               !.asPaid = [x \in HeldMarkets |-> IF {e, l} = {x} THEN FALSE ELSE acct.asPaid[x]]]
      /\ H!Traded(acct, {e, l}) \in Books
  BY <1>2, TradedFields
<1>4. /\ H!More(acct.bought, {e, l}, n) \in [HeldMarkets -> Nat]
      /\ \A x \in HeldMarkets : H!More(acct.bought, {e, l}, n)[x] =
                                IF x \in {e, l} THEN acct.bought[x] + n ELSE acct.bought[x]
  BY <1>2, MoreIs DEF Books
<1>5. acct' = [H!Traded(acct, {e, l}) EXCEPT
                  !.bought = H!More(acct.bought, {e, l}, n),
                  !.mate = [acct.mate EXCEPT ![e] = l, ![l] = e],
                  !.asPaid = [H!Traded(acct, {e, l}).asPaid EXCEPT ![l] = TRUE],
                  !.trades = acct.trades + 1]
  BY <1>2, <1>3 DEF H!Open, Books
<1>6. /\ [acct.mate EXCEPT ![e] = l, ![l] = e] \in [HeldMarkets -> HeldMarkets \cup {None}]
      /\ [H!Traded(acct, {e, l}).asPaid EXCEPT ![l] = TRUE] \in [HeldMarkets -> BOOLEAN]
      /\ acct.trades + 1 \in Nat
  <2>1. acct.mate \in [HeldMarkets -> HeldMarkets \cup {None}] /\ acct.trades \in Nat
    BY <1>2 DEF Books
  <2>2. H!Traded(acct, {e, l}).asPaid \in [HeldMarkets -> BOOLEAN]
    BY <1>3 DEF Books
  <2> QED BY <2>1, <2>2
<1>7. /\ acct' \in Books /\ acct'.sold = acct.sold /\ acct'.bought = H!More(acct.bought, {e, l}, n)
      /\ acct'.mate = [acct.mate EXCEPT ![e] = l, ![l] = e]
      /\ acct'.days = acct.days \cup {day}
      /\ acct'.last = [x \in HeldMarkets |-> IF x \in {e, l} THEN day ELSE acct.last[x]]
  BY <1>3, <1>4, <1>5, <1>6 DEF Books
<1>8. \A x \in HeldMarkets \ {e, l} : acct'.asPaid[x] = acct.asPaid[x] /\ acct'.mate[x] = acct.mate[x]
  <2>1. \A x \in HeldMarkets \ {e, l} : H!Traded(acct, {e, l}).asPaid[x] = acct.asPaid[x]
    <3>1. H!Traded(acct, {e, l}).asPaid = [x \in HeldMarkets |-> IF {e, l} = {x} THEN FALSE ELSE acct.asPaid[x]]
      BY <1>2, <1>3 DEF Books
    <3>2. \A x \in HeldMarkets \ {e, l} : {e, l} # {x}
      OBVIOUS
    <3> QED BY <3>1, <3>2
  <2>2. acct'.asPaid = [H!Traded(acct, {e, l}).asPaid EXCEPT ![l] = TRUE]
    BY <1>3, <1>5 DEF Books
  <2> QED BY <1>2, <1>3, <1>7, <2>1, <2>2 DEF Books
<1>9. \A x \in HeldMarkets : /\ acct.bought[x] \in Nat /\ acct.sold[x] \in Nat
                             /\ acct.sold[x] <= acct.bought[x]
  BY <1>2 DEF HoldInv, Kept, Books
<1>10. \A x \in HeldMarkets : H!SettledCount(x)' = IF x \in {e, l} THEN H!SettledCount(x) + n ELSE H!SettledCount(x)
  <2> SUFFICES ASSUME NEW x \in HeldMarkets
               PROVE  H!SettledCount(x)' = IF x \in {e, l} THEN H!SettledCount(x) + n ELSE H!SettledCount(x)
    OBVIOUS
  <2>1. acct'.sold[x] = acct.sold[x]
        /\ acct'.bought[x] = IF x \in {e, l} THEN acct.bought[x] + n ELSE acct.bought[x]
    BY <1>4, <1>7
  <2> QED BY <1>2, <1>9, <2>1 DEF H!SettledCount
<1>11. H!SettledCount(e) = 0 /\ H!SettledCount(l) = 0
  BY <1>1, <1>9 DEF H!HeldOn, H!Held, H!SettledCount
<1>12. Kept'
  <2>1. \A x \in HeldMarkets : acct'.sold[x] <= acct'.bought[x]
    <3> SUFFICES ASSUME NEW x \in HeldMarkets PROVE acct'.sold[x] <= acct'.bought[x]
      OBVIOUS
    <3>1. acct'.sold[x] = acct.sold[x]
          /\ acct'.bought[x] = IF x \in {e, l} THEN acct.bought[x] + n ELSE acct.bought[x]
      BY <1>4, <1>7
    <3> QED BY <1>2, <1>9, <3>1
  <2>2. acct'.days \subseteq 0 .. day
    BY <1>2, <1>7 DEF HoldInv, Kept
  <2> QED BY <1>1, <1>2, <1>7, <2>1, <2>2 DEF Kept, HoldInv
<1>13. H!Held' = H!Held \cup {e, l}
  <2>1. \A x \in HeldMarkets : H!SettledCount(x)' > 0 <=> (H!SettledCount(x) > 0 \/ x \in {e, l})
    BY <1>2, <1>10, <1>11
  <2> QED BY <1>1, <2>1 DEF H!Held, H!SettledCount
<1>14. H!PaidOut' = H!PaidOut
  <2>1. \A x \in HeldMarkets : ruled[x] # None => H!SettledCount(x)' = H!SettledCount(x)
    BY <1>1, <1>10
  <2> QED BY <1>1, <2>1 DEF H!PaidOut, H!SettledCount
<1>15. \A x \in H!Held : x \in HeldMarkets \ {e, l} /\ HeldQuestion[x] # HeldQuestion[e]
  BY <1>1, <1>11 DEF H!HeldOn, H!Held
<1>16. \A x, y \in {e, l} : x # y =>
          /\ acct'.mate[x] = y /\ H!SettledCount(x)' = n
          /\ H!HeldOn(HeldQuestion[x])' = {x, y} /\ acct'.last[x] \in acct'.days
  <2>1. \A x \in {e, l} : H!SettledCount(x)' = n
    BY <1>2, <1>10, <1>11
  <2>2. H!HeldOn(HeldQuestion[e])' = {e, l}
    BY <1>1, <1>13, <1>15 DEF H!HeldOn
  <2>3. acct'.mate[e] = l /\ acct'.mate[l] = e
    BY <1>1, <1>2, <1>7 DEF Books
  <2> QED BY <1>1, <1>7, <2>1, <2>2, <2>3 DEF H!HeldOn
<1>17. ASSUME NEW x \in {e, l}, NEW y \in {e, l}, x # y PROVE Mated(x)'
  <2>1. /\ acct'.mate[x] = y /\ acct'.mate[y] = x /\ H!HeldOn(HeldQuestion[x])' = {x, y}
        /\ acct'.last[x] \in acct'.days /\ H!SettledCount(x)' = n /\ H!SettledCount(y)' = n
        /\ ruled[y] = None /\ y \in H!Held'
    BY <1>1, <1>13, <1>16, <1>17
  <2>2. MateHeld(x)'
    BY <2>1 DEF MateHeld, H!SettledCount
  <2>3. MatePaid(x)'
    BY <1>1, <2>1 DEF MatePaid
  <2> QED BY <1>1, <1>17, <2>1, <2>2, <2>3 DEF Mated
<1>18. ASSUME NEW x \in H!Held PROVE Mated(x)'
  <2>1. Mated(x) /\ x \in HeldMarkets \ {e, l} /\ HeldQuestion[x] # HeldQuestion[e] /\ acct.mate[x] \in HeldMarkets \ {e, l}
    BY <1>1, <1>15 DEF HoldInv, Mated
  <2>2. /\ acct'.mate[x] = acct.mate[x] /\ acct'.asPaid[x] = acct.asPaid[x]
        /\ acct'.mate[acct.mate[x]] = acct.mate[acct.mate[x]]
        /\ H!SettledCount(x)' = H!SettledCount(x) /\ H!SettledCount(acct.mate[x])' = H!SettledCount(acct.mate[x])
    BY <1>8, <1>10, <2>1
  <2>3. H!HeldOn(HeldQuestion[x])' = H!HeldOn(HeldQuestion[x])
    BY <1>1, <1>13, <2>1 DEF H!HeldOn
  <2>4. acct'.last[x] \in acct'.days
    BY <1>7, <2>1 DEF Mated
  <2>5. MateHeld(x)'
    BY <1>1, <1>13, <2>1, <2>2 DEF Mated, MateHeld, H!SettledCount
  <2>6. MatePaid(x)'
    BY <1>1, <1>14, <2>1, <2>2 DEF Mated, MatePaid, H!SettledCount
  <2> QED BY <2>1, <2>2, <2>3, <2>4, <2>5, <2>6 DEF Mated
<1> QED BY <1>1, <1>12, <1>13, <1>17, <1>18 DEF HoldInv

LEMMA SettleHold ==
    ASSUME HoldInv, NEW m \in HeldMarkets, NEW at \in {day, day + 1}, NEW r \in HeldResults[m], H!Settle(m, r, at)
    PROVE  HoldInv'
<1>1. /\ ruled[m] = None /\ ruled' = [ruled EXCEPT ![m] = [result |-> r, at |-> at]]
      /\ UNCHANGED <<day, acct>> /\ DOMAIN ruled = HeldMarkets
  BY DEF H!Settle, HoldInv, Kept
<1>2. at \in 0 .. LastDay + 1
  BY HoldingsAssumption DEF HoldInv, Kept, H!HoldingsAssumption
<1>3. [result |-> r, at |-> at] # None
  BY <1>2, HoldingsAssumption DEF H!HoldingsAssumption
<1>4. /\ DOMAIN ruled' = HeldMarkets /\ ruled'[m] # None /\ ruled'[m].at = at
      /\ \A x \in HeldMarkets \ {m} : ruled'[x] = ruled[x]
  BY <1>1, <1>3
<1>5. Kept'
  BY <1>1, <1>2, <1>4 DEF HoldInv, Kept
<1>6. H!Held' = H!Held \ {m}
  BY <1>1, <1>4 DEF H!Held, H!SettledCount
<1>7. H!PaidOut' = H!PaidOut \cup (H!Held \cap {m})
  BY <1>1, <1>4 DEF H!Held, H!PaidOut, H!SettledCount
<1>8. m \notin H!PaidOut /\ H!PaidOut \subseteq HeldMarkets
  BY <1>1 DEF H!PaidOut
<1>9. ASSUME NEW x \in H!Held' PROVE Mated(x)'
  <2>1. x \in H!Held /\ x \in HeldMarkets /\ x # m /\ Mated(x) /\ ruled[x] = None
    BY <1>6 DEF HoldInv, H!Held
  <2>2. acct.mate[x] \in HeldMarkets /\ acct.mate[x] # x /\ HeldQuestion[acct.mate[x]] = HeldQuestion[x]
    BY <2>1 DEF Mated
  <2>3. H!HeldOn(HeldQuestion[x])' \subseteq {x, acct.mate[x]}
    BY <1>6, <2>1 DEF Mated, H!HeldOn
  <2>4. CASE acct.mate[x] = m
    <3>1. /\ m \in H!Held /\ acct.mate[m] = x /\ H!SettledCount(m) = H!SettledCount(x)
      BY <1>1, <2>1, <2>4 DEF Mated, MateHeld
    <3>2. \A s \in H!PaidOut : HeldQuestion[s] = HeldQuestion[x] => ruled[s].at <= at
      <4>1. \A s \in H!PaidOut : s # x
        BY <2>1 DEF H!PaidOut
      <4> QED BY <2>2, <2>4, <3>1, <4>1 DEF H!Settle
    <3>3. MatePaid(x)'
      <4>1. \A s \in H!PaidOut' : HeldQuestion[s] = HeldQuestion[x] => ruled'[s].at <= ruled'[m].at
        BY <1>2, <1>4, <1>7, <1>8, <3>2
      <4> QED BY <1>1, <2>4, <3>1, <4>1 DEF MatePaid, H!SettledCount
    <3>4. MateHeld(x)'
      BY <1>1, <1>4, <2>4 DEF MateHeld
    <3> QED BY <1>1, <2>1, <2>3, <3>3, <3>4 DEF Mated
  <2>5. CASE acct.mate[x] # m
    <3>1. ruled'[acct.mate[x]] = ruled[acct.mate[x]]
      BY <1>4, <2>2, <2>5
    <3>2. MateHeld(x)'
      BY <1>1, <1>6, <2>1, <2>5, <3>1 DEF Mated, MateHeld, H!SettledCount
    <3>3. m \in H!Held => HeldQuestion[m] # HeldQuestion[x]
      BY <2>1, <2>5 DEF Mated, H!HeldOn
    <3>4. MatePaid(x)'
      BY <1>1, <1>4, <1>7, <1>8, <2>1, <3>1, <3>3 DEF Mated, MatePaid, H!SettledCount
    <3> QED BY <1>1, <2>1, <2>3, <3>2, <3>4 DEF Mated
  <2> QED BY <2>4, <2>5
<1> QED BY <1>5, <1>9 DEF HoldInv

LEMMA NextHold == HoldInv /\ [H!Next]_(H!vars) => HoldInv'
<1> SUFFICES ASSUME HoldInv, [H!Next]_(H!vars) PROVE HoldInv'
  OBVIOUS
<1>1. CASE H!NextDay
  BY <1>1, NextDayHold
<1>2. ASSUME NEW e \in HeldMarkets, NEW l \in HeldMarkets, NEW n \in Counts, H!Open(e, l, n) PROVE HoldInv'
  BY <1>2, OpenHold
<1>3. ASSUME NEW m \in HeldMarkets, NEW at \in {day, day + 1}, NEW r \in HeldResults[m], H!Settle(m, r, at)
      PROVE  HoldInv'
  BY <1>3, SettleHold
<1>4. ASSUME NEW ms \in H!HeldPairs, NEW blind, H!Sell(ms, blind) PROVE HoldInv'
  BY <1>4, SellHold
<1>5. ASSUME NEW ms \in H!HeldPairs, NEW n \in Counts, NEW blind, NEW f, H!Trim(ms, n, blind, f)
      PROVE  HoldInv'
  BY <1>5, TrimHold
<1>6. ASSUME NEW ms \in H!HeldPairs, NEW n \in Counts, NEW f, H!AddOn(ms, n, f) PROVE HoldInv'
  BY <1>6, AddOnHold
<1>7. CASE UNCHANGED H!vars
  <2>1. UNCHANGED <<acct, ruled>> /\ day' \in day .. LastDay
    BY <1>7 DEF H!vars, HoldInv, Kept
  <2> QED BY <2>1, SameKeeps
<1>8. CASE H!Finished
  BY <1>7, <1>8 DEF H!Finished
<1> QED BY <1>1, <1>2, <1>3, <1>4, <1>5, <1>6, <1>7, <1>8 DEF H!Next

-----------------------------------------------------------------------------
\* What was bought together is judged together: a market alone, as many of it
\* as were held when its mate paid out, has that mate for a partner or none.
LEMMA PartnerTrue ==
    ASSUME HoldInv, NEW ms \in H!HeldPairs, NEW blind, NEW p \in H!PaidPartner(ms, blind),
           \A x \in ms : acct.asPaid[x]
    PROVE  /\ ms \cup p = ms \cup {acct.mate[x] : x \in ms}
           /\ p # {} => p = {acct.mate[x] : x \in ms} \ ms
<1>1. PICK m \in ms : IsStake(ms, m)
  BY HeldStake
<1> DEFINE t == acct.mate[m]
<1>2. m \in H!Held /\ Mated(m) /\ t \in HeldMarkets /\ t # m /\ HeldQuestion[t] = HeldQuestion[m] /\ HeldSide[t] # HeldSide[m]
  BY <1>1 DEF IsStake, HoldInv, Mated
<1>3. CASE ~H!Lone(ms)
  <2>1. p = {}
    BY <1>3 DEF H!PaidPartner
  <2>2. ms = {m, t} /\ acct.mate[t] = m
    BY <1>1, <1>3 DEF IsStake
  <2> QED BY <2>1, <2>2
<1>4. CASE H!Lone(ms)
  <2>1. ms = {m} /\ ruled[t] # None
    BY <1>1, <1>4 DEF IsStake
  <2>2. H!TheOf(ms) = m
    BY <2>1 DEF H!TheOf
  <2>3. PICK s \in H!PartnersOf(m, blind) : p = {s}
    BY <1>4, <2>2 DEF H!PaidPartner
  <2>4. /\ H!SettledCount(t) = H!SettledCount(m)
        /\ \A y \in H!PaidOut : HeldQuestion[y] = HeldQuestion[m] => ruled[y].at <= ruled[t].at
    BY <1>2, <2>1 DEF Mated, MatePaid
  <2>5. /\ m \in HeldMarkets /\ H!SettledCount(m) > 0 /\ H!SettledCount(m) \in Int
        /\ \A y \in HeldMarkets : /\ acct.bought[y] \in Nat /\ acct.sold[y] \in Nat
                                  /\ ruled[y] # None => ruled[y].at \in Int
        /\ day \in Int /\ MaxAge \in Nat
    BY <1>2, HoldingsAssumption DEF H!Held, HoldInv, Kept, Books, H!SettledCount, H!HoldingsAssumption
  <2>6. t \in H!Settlements
    <3>1. H!SettledCount(t) > 0 /\ t \in H!PaidOut /\ acct.bought[t] > 0
      BY <1>2, <2>1, <2>4, <2>5 DEF H!PaidOut, H!SettledCount
    <3>2. s \in H!Asks(m, H!AtLeast(m)) \/ s \in H!Asks(m, H!SameCount(m))
      BY <2>3 DEF H!PartnersOf, H!Only
    <3>3. /\ s \in H!Settlements /\ HeldQuestion[s] = HeldQuestion[m] /\ H!SettledCount(s) >= H!SettledCount(m)
          /\ s \in HeldMarkets /\ ruled[s] # None /\ ruled[s].at >= day - MaxAge
      BY <2>5, <3>2 DEF H!Asks, H!AtLeast, H!SameCount, H!Settlements
    <3>4. H!SettledCount(s) > 0
      BY <2>5, <3>3 DEF H!SettledCount
    <3>5. ruled[s].at <= ruled[t].at
      BY <2>4, <3>3, <3>4 DEF H!PaidOut
    <3>6. ruled[t].at >= day - MaxAge
      BY <1>2, <2>1, <2>5, <3>3, <3>5
    <3> QED BY <1>2, <2>1, <3>1, <3>6 DEF H!Settlements
  <2>7. t \in H!Asks(m, H!SameCount(m))
    BY <1>2, <2>4, <2>6 DEF H!Asks, H!SameCount
  <2>8. H!PartnersOf(m, blind) = H!Only(m, H!SameCount(m), blind)
    BY <2>7 DEF H!PartnersOf
  <2>9. s \in H!Asks(m, H!SameCount(m)) /\ Cardinality(H!Asks(m, H!SameCount(m))) = 1
    BY <2>3, <2>8, SetsOfHoldings DEF H!Only
  <2>10. IsFiniteSet(H!Asks(m, H!SameCount(m)))
    <3>1. H!Asks(m, H!SameCount(m)) \subseteq HeldMarkets
      BY DEF H!Asks, H!SameCount, H!Settlements
    <3> QED BY <3>1, FS_Subset, HoldingsAssumption, SetsOfHoldings DEF H!HoldingsAssumption
  <2>11. s = t
    <3>1. \E y : H!Asks(m, H!SameCount(m)) = {y}
      BY <2>9, <2>10, FS_Singleton
    <3> QED BY <2>7, <2>9, <3>1
  <2> QED BY <1>2, <2>1, <2>3, <2>11
<1> QED BY <1>3, <1>4

LEMMA LatestIs ==
    ASSUME NEW n \in Nat, NEW N \in SUBSET (0 .. n), N # {}
    PROVE  H!Max(N) \in N /\ \A y \in N : y <= H!Max(N)
<1>1. PICK m \in N : \A y \in N : y <= m
  BY GreatestOf
<1> QED BY <1>1 DEF H!Max

LEMMA EarliestIs ==
    ASSUME NEW N \in SUBSET Nat, N # {}
    PROVE  H!Min(N) \in N /\ \A y \in N : H!Min(N) <= y
<1>1. PICK m \in N : \A y \in N : m <= y
  BY LeastOf
<1> QED BY <1>1 DEF H!Min

\* Nothing of a position that has waited traded within MinDays, also when its
\* last trade is not fills: then it is older than the list.
LEMMA WaitedIsRested ==
    ASSUME HoldInv, NEW ms \in H!HeldPairs, NEW first \in 0 .. day,
           H!ListReaches(H!ListFrom(first)), H!Waited(ms, H!ListFrom(first))
    PROVE  \A x \in ms : day - acct.last[x] >= MinDays
<1> DEFINE fills == H!ListFrom(first)
<1>1. SUFFICES ASSUME NEW x \in ms PROVE day - acct.last[x] >= MinDays
  OBVIOUS
<1>2. x \in H!Held /\ acct.last[x] \in acct.days
  <2>1. PICK m \in ms : IsStake(ms, m)
    BY HeldStake
  <2>2. x \in H!Held
    BY <2>1 DEF IsStake, H!HeldOn
  <2> QED BY <2>2 DEF HoldInv, Mated
<1>3. day \in Nat /\ MinDays \in Nat /\ acct.days \subseteq 0 .. day
  BY HoldingsAssumption DEF HoldInv, Kept, H!HoldingsAssumption
<1>4. acct.last[x] \in 0 .. day
  BY <1>2, <1>3
<1>5. CASE MinDays = 0
  BY <1>3, <1>4, <1>5
<1>6. CASE MinDays > 0
  <2>1. fills # {} /\ fills \subseteq 0 .. day /\ fills \subseteq Nat
    BY <1>3, <1>6 DEF H!ListReaches, H!ListFrom
  <2>2. H!Min(fills) \in fills
    BY <2>1, EarliestIs
  <2> DEFINE N == H!LastFill(ms, fills) \cup {H!Min(fills)}
  <2>3. N \subseteq 0 .. day /\ N # {}
    BY <2>1, <2>2 DEF H!LastFill, H!LatestFills
  <2>4. H!Max(N) \in 0 .. day /\ (\A y \in N : y <= H!Max(N)) /\ day - H!Max(N) >= MinDays
    <3>1. H!Max(N) \in N /\ \A y \in N : y <= H!Max(N)
      BY <1>3, <2>3, LatestIs
    <3> QED BY <1>6, <2>3, <3>1 DEF H!Waited, H!RebalanceRested
  <2>5. acct.last[x] <= H!Max(N)
    <3>1. CASE acct.last[x] \in fills
      <4>1. acct.last[x] \in H!LastFill(ms, fills)
        BY <3>1 DEF H!LastFill, H!LatestFills, H!Ladder
      <4> QED BY <2>4, <4>1
    <3>2. CASE acct.last[x] \notin fills
      <4>1. acct.last[x] < first /\ first <= H!Min(fills)
        BY <1>2, <1>4, <2>2, <3>2 DEF H!ListFrom
      <4>2. H!Min(fills) <= H!Max(N) /\ H!Min(fills) \in Nat
        BY <2>1, <2>2, <2>4
      <4> QED BY <1>4, <2>4, <4>1, <4>2
    <3> QED BY <3>1, <3>2
  <2> HIDE DEF N
  <2> QED BY <1>3, <1>4, <2>4, <2>5
<1> QED BY <1>3, <1>5, <1>6

\* A trade is marked as one of what was bought with its partner only if it is.
LEMMA NextTrue == HoldInv /\ H!PartnerIsTrue /\ H!TradesAreDue /\ [H!Next]_(H!vars) => H!PartnerIsTrue' /\ H!TradesAreDue'
<1> SUFFICES ASSUME HoldInv, H!PartnerIsTrue, H!TradesAreDue, [H!Next]_(H!vars) PROVE H!PartnerIsTrue' /\ H!TradesAreDue'
  OBVIOUS
<1>1. ASSUME done' = H!Idle PROVE H!PartnerIsTrue' /\ H!TradesAreDue'
  BY <1>1 DEF H!Idle, H!PartnerIsTrue, H!TradesAreDue
<1>2. ASSUME UNCHANGED done PROVE H!PartnerIsTrue' /\ H!TradesAreDue'
  BY <1>2 DEF H!PartnerIsTrue, H!TradesAreDue
<1>3. ASSUME NEW ms \in H!HeldPairs, NEW blind, H!Sell(ms, blind) PROVE H!PartnerIsTrue' /\ H!TradesAreDue'
  <2> DEFINE legs == ms \cup {acct.mate[x] : x \in ms}
  <2>1. PICK p \in H!PaidPartner(ms, blind) : \E seen \in H!Shown(ms \cup p \cup {acct.mate[x] : x \in ms}) :
           /\ H!Readable(ms \cup p, seen) /\ H!ReachedEveryCheck(ms \cup p, seen)
           /\ done' = [kind |-> "sale", partner |-> p, mates |-> {acct.mate[x] : x \in ms} \ ms,
                       asPaid |-> \A x \in ms : acct.asPaid[x],
                       due |-> H!Readable(legs, seen) /\ H!ReachedEveryCheck(legs, seen)]
    BY <1>3 DEF H!Sell
  <2>2. (\A x \in ms : acct.asPaid[x]) =>
           /\ ms \cup p = legs
           /\ p # {} => p = {acct.mate[x] : x \in ms} \ ms
    BY PartnerTrue
  <2>3. PICK seen : /\ H!Readable(ms \cup p, seen) /\ H!ReachedEveryCheck(ms \cup p, seen)
                    /\ done' = [kind |-> "sale", partner |-> p, mates |-> {acct.mate[x] : x \in ms} \ ms,
                                asPaid |-> \A x \in ms : acct.asPaid[x],
                                due |-> H!Readable(legs, seen) /\ H!ReachedEveryCheck(legs, seen)]
    BY <2>1
  <2> HIDE DEF legs
  <2>4. /\ done'.partner = p /\ done'.mates = {acct.mate[x] : x \in ms} \ ms
        /\ done'.asPaid = (\A x \in ms : acct.asPaid[x])
        /\ done'.due = (H!Readable(legs, seen) /\ H!ReachedEveryCheck(legs, seen))
    BY <2>3, Zenon
  <2>5. done'.asPaid => done'.due
    BY <2>2, <2>3, <2>4
  <2>6. done'.asPaid => (done'.partner # {} => done'.partner = done'.mates)
    BY <2>2, <2>4
  <2> QED BY <2>5, <2>6 DEF H!PartnerIsTrue, H!TradesAreDue
<1>4. ASSUME NEW ms \in H!HeldPairs, NEW n \in Counts, NEW blind, NEW f \in 0 .. day, H!Trim(ms, n, blind, f)
      PROVE  H!PartnerIsTrue' /\ H!TradesAreDue'
  <2>1. PICK p \in H!PaidPartner(ms, blind) : H!Trade("trim", ms, p)
    BY <1>4 DEF H!Trim
  <2>2. \A x \in ms : day - acct.last[x] >= MinDays
    BY <1>4, WaitedIsRested DEF H!Trim, H!Trimmable
  <2>3. (\A x \in ms : acct.asPaid[x]) => (p # {} => p = {acct.mate[x] : x \in ms} \ ms)
    BY PartnerTrue
  <2> QED BY <2>1, <2>2, <2>3 DEF H!Trade, H!PartnerIsTrue, H!TradesAreDue
<1>5. ASSUME NEW ms \in H!HeldPairs, NEW n \in Counts, NEW f \in 0 .. day, H!AddOn(ms, n, f)
      PROVE  H!PartnerIsTrue' /\ H!TradesAreDue'
  <2>1. H!Trade("addon", ms, {})
    BY <1>5 DEF H!AddOn
  <2>2. \A x \in ms : day - acct.last[x] >= MinDays
    BY <1>5, WaitedIsRested DEF H!AddOn, H!Addable
  <2> QED BY <2>1, <2>2 DEF H!Trade, H!PartnerIsTrue, H!TradesAreDue
<1>6. H!NextDay => done' = H!Idle
  BY DEF H!NextDay
<1>7. \A e, l \in HeldMarkets, n \in Counts : H!Open(e, l, n) => done' = H!Idle
  BY DEF H!Open
<1>8. \A m \in HeldMarkets, at \in {day, day + 1} : \A r \in HeldResults[m] : H!Settle(m, r, at) => done' = H!Idle
  BY DEF H!Settle
<1>9. H!Finished \/ UNCHANGED H!vars => UNCHANGED done
  BY DEF H!Finished, H!vars
<1> QED BY <1>1, <1>2, <1>3, <1>4, <1>5, <1>6, <1>7, <1>8, <1>9 DEF H!Next

\* What is sold was worth the level at every check with the market it was bought
\* with, and what is trimmed or added to has rested, whatever the account has
\* traded and seen settled.
THEOREM TradesDue == H!Spec => []TradesAreDue
<1>1. H!Init => HoldInv /\ H!TradesAreDue /\ H!PartnerIsTrue
  <2>1. H!Init => H!TradesAreDue /\ H!PartnerIsTrue
    BY DEF H!Init, H!Idle, H!TradesAreDue, H!PartnerIsTrue
  <2> QED BY <2>1, InitHold
<1>2. HoldInv /\ H!TradesAreDue /\ H!PartnerIsTrue /\ [H!Next]_(H!vars) =>
        (HoldInv /\ H!TradesAreDue /\ H!PartnerIsTrue)'
  BY NextHold, NextTrue
<1>3. H!TradesAreDue /\ H!PartnerIsTrue => TradesAreDue
  BY DEF TradesAreDue
<1> QED BY <1>1, <1>2, <1>3, PTL DEF H!Spec

===============================================================================
