--------------------------- MODULE ProdRun_proofs ---------------------------
(* Proofs about ProdRun, for any markets, ladders, pairs, accounts and values. *)
EXTENDS ProdRun, FiniteSetTheorems, WellFoundedInduction, TLAPS

----------------------------------------------------------------------------
(* Sums over finite sets.  Induction is by the smallest subset gone wrong.     *)

\* The element a fold takes first.
Taken(s) == CHOOSE x \in s : TRUE

\* i sums f over each subset of S, one element at a time.
Sums(i, f, S) ==
    i = [s \in SUBSET S |-> IF s = {} THEN 0
                            ELSE f[Taken(s)] + i[s \ {Taken(s)}]]

\* The community modules' fold, by this name.
LEMMA TotalIs ==
    ASSUME NEW f, NEW S
    PROVE  Total(f, S) = (CHOOSE i : Sums(i, f, S))[S]
BY Zenon DEF Total, MapThenSumSet, MapThenFoldSet, Sums, Taken

\* Of a set of subsets of a finite set, one has no other of them inside it.
LEMMA SmallestBad ==
    ASSUME NEW S, IsFiniteSet(S), NEW B \in SUBSET SUBSET S, B # {}
    PROVE  \E T \in B : \A U \in B : ~(U \subseteq T /\ U # T)
<1>1. SUBSET S = FiniteSubsetsOf(S) BY FS_FiniteSubsetsOfFinite
<1>2. IsWellFoundedOn(StrictSubsetOrdering(S), FiniteSubsetsOf(S)) BY FS_StrictSubsetOrderingWellFounded
<1>3. PICK T \in B : \A U \in B : ~ (<<U, T>> \in StrictSubsetOrdering(S))
  BY <1>1, <1>2, WFMin
<1> QED BY <1>3 DEF StrictSubsetOrdering

\* Two sums of one function agree wherever both are defined.
LEMMA SumsAgree ==
    ASSUME NEW f, NEW S, NEW T, IsFiniteSet(S), NEW i, NEW j,
           Sums(i, f, S), Sums(j, f, T),
           NEW s \in SUBSET S, s \subseteq T
    PROVE  i[s] = j[s]
<1> DEFINE B == {u \in SUBSET S : u \subseteq T /\ i[u] # j[u]}
<1>1. SUFFICES B = {}
  OBVIOUS
<1>2. SUFFICES ASSUME B # {} PROVE FALSE
  OBVIOUS
<1>3. PICK u \in B : \A v \in B : ~(v \subseteq u /\ v # u)
  <2>1. B \in SUBSET SUBSET S
    OBVIOUS
  <2> HIDE DEF B
  <2> QED BY <1>2, <2>1, SmallestBad
<1>4. CASE u = {}
  BY <1>4, <1>3, {} \in SUBSET S, {} \in SUBSET T DEF Sums
<1>5. CASE u # {}
  <2>1. Taken(u) \in u
    BY <1>5 DEF Taken
  <2> DEFINE v == u \ {Taken(u)}
  <2>2. v \subseteq u /\ v # u /\ v \in SUBSET S /\ v \subseteq T
    BY <2>1, <1>3
  <2>3. i[v] = j[v]
    BY <2>2, <1>3
  <2>4. i[u] = f[Taken(u)] + i[v]
    BY <1>5, <1>3 DEF Sums
  <2>5. j[u] = f[Taken(u)] + j[v]
    <3>1. u \in SUBSET T
      BY <1>3
    <3> QED BY <3>1, <1>5 DEF Sums
  <2> QED BY <2>3, <2>4, <2>5, <1>3
<1> QED BY <1>4, <1>5

\* Every finite set can be summed.
LEMMA SumsExist ==
    ASSUME NEW f, NEW S, IsFiniteSet(S)
    PROVE  \E i : Sums(i, f, S)
<1> DEFINE B == {u \in SUBSET S : ~ \E i : Sums(i, f, u)}
<1>1. SUFFICES ASSUME B # {} PROVE FALSE
  OBVIOUS
<1>2. PICK u \in B : \A v \in B : ~(v \subseteq u /\ v # u)
  <2>1. B \in SUBSET SUBSET S
    OBVIOUS
  <2> HIDE DEF B
  <2> QED BY <1>1, <2>1, SmallestBad
<1> DEFINE J(v) == CHOOSE i : Sums(i, f, v)
<1>3. ASSUME NEW v \in SUBSET u, v # u
      PROVE  Sums(J(v), f, v)
  BY <1>2, <1>3
<1> DEFINE i == [s \in SUBSET u |-> IF s = {} THEN 0
                    ELSE f[Taken(s)] + J(s \ {Taken(s)})[s \ {Taken(s)}]]
<1>4. ASSUME NEW s \in SUBSET u, s # u
      PROVE  i[s] = J(s)[s]
  <2>1. Sums(J(s), f, s)
    BY <1>3, <1>4
  <2>2. CASE s = {}
    BY <2>1, <2>2, s \in SUBSET s DEF Sums
  <2>3. CASE s # {}
    <3> DEFINE v == s \ {Taken(s)}
    <3>1. Taken(s) \in s
      BY <2>3 DEF Taken
    <3>2. v \in SUBSET u /\ v # u /\ v \subseteq s /\ IsFiniteSet(v)
      BY <3>1, FS_Subset, <1>2
    <3>3. Sums(J(v), f, v)
      BY <3>2, <1>3
    <3>4. J(v)[v] = J(s)[v]
      BY <3>2, <3>3, <2>1, SumsAgree, v \in SUBSET v
    <3>5. J(s)[s] = f[Taken(s)] + J(s)[v]
      BY <2>1, <2>3, s \in SUBSET s DEF Sums
    <3>6. i[s] = f[Taken(s)] + J(v)[v]
      BY <2>3
    <3> QED BY <3>4, <3>5, <3>6
  <2> QED BY <2>2, <2>3
<1>5. Sums(i, f, u)
  <2>1. ASSUME NEW s \in SUBSET u, s # {}
        PROVE  i[s] = f[Taken(s)] + i[s \ {Taken(s)}]
    <3> DEFINE v == s \ {Taken(s)}
    <3>1. Taken(s) \in s
      BY <2>1 DEF Taken
    <3>2. v \in SUBSET u /\ v # u
      BY <3>1
    <3>3. i[v] = J(v)[v]
      BY <3>2, <1>4
    <3>4. i[s] = f[Taken(s)] + J(v)[v]
      BY <2>1
    <3> QED BY <3>3, <3>4
  <2>2. i = [s \in SUBSET u |-> i[s]]
    OBVIOUS
  <2>3. i[{}] = 0
    BY {} \in SUBSET u
  <2> HIDE DEF i
  <2> QED BY <2>1, <2>2, <2>3 DEF Sums
<1> QED BY <1>5, <1>2

\* Nothing sums to 0.
LEMMA TotalOfNone ==
    ASSUME NEW f
    PROVE  Total(f, {}) = 0
<1> DEFINE i == CHOOSE i : Sums(i, f, {})
<1>1. Sums(i, f, {})
  BY FS_EmptySet, SumsExist
<1> HIDE DEF i
<1>2. i[{}] = 0
  BY <1>1, {} \in SUBSET {} DEF Sums
<1> QED BY <1>2, TotalIs DEF i

\* A sum is the element taken first and the sum of the others.
LEMMA TotalStep ==
    ASSUME NEW f, NEW S, IsFiniteSet(S), S # {}
    PROVE  /\ Taken(S) \in S
           /\ Total(f, S) = f[Taken(S)] + Total(f, S \ {Taken(S)})
<1> DEFINE R == S \ {Taken(S)}
           i == CHOOSE i : Sums(i, f, S)
           j == CHOOSE j : Sums(j, f, R)
<1>1. Taken(S) \in S
  BY DEF Taken
<1>2. IsFiniteSet(R) /\ R \subseteq S
  BY FS_Subset
<1>3. Sums(i, f, S)
  BY SumsExist
<1>4. Sums(j, f, R)
  BY <1>2, SumsExist
<1>5. Total(f, S) = i[S] /\ Total(f, R) = j[R]
  BY TotalIs
<1> HIDE DEF i, j
<1>6. j[R] = i[R]
  BY <1>2, <1>3, <1>4, SumsAgree, R \in SUBSET R
<1>7. i[S] = f[Taken(S)] + i[R]
  BY <1>3, S \in SUBSET S DEF Sums
<1> QED BY <1>1, <1>5, <1>6, <1>7

\* Numbers sum to a number.
LEMMA TotalType ==
    ASSUME NEW f, NEW S, IsFiniteSet(S), \A x \in S : f[x] \in Int
    PROVE  Total(f, S) \in Int
<1> DEFINE B == {u \in SUBSET S : Total(f, u) \notin Int}
<1>1. SUFFICES ASSUME B # {} PROVE FALSE
  OBVIOUS
<1>2. PICK u \in B : \A v \in B : ~(v \subseteq u /\ v # u)
  <2>1. B \in SUBSET SUBSET S
    OBVIOUS
  <2> HIDE DEF B
  <2> QED BY <1>1, <2>1, SmallestBad
<1>3. u # {}
  <2>1. Total(f, u) \notin Int
    BY <1>2
  <2>2. Total(f, {}) = 0
    BY TotalOfNone
  <2> HIDE DEF B
  <2> QED BY <2>1, <2>2
<1>4. IsFiniteSet(u)
  BY <1>2, FS_Subset
<1>5. /\ Taken(u) \in u
      /\ Total(f, u) = f[Taken(u)] + Total(f, u \ {Taken(u)})
  BY <1>3, <1>4, TotalStep
<1>6. Total(f, u \ {Taken(u)}) \in Int
  BY <1>5, <1>2
<1> QED BY <1>2, <1>5, <1>6

\* The sum of natural numbers is one.
LEMMA TotalIsNat ==
    ASSUME NEW f, NEW S, IsFiniteSet(S), \A x \in S : f[x] \in Nat
    PROVE  Total(f, S) \in Nat
<1> DEFINE B == {u \in SUBSET S : Total(f, u) \notin Nat}
<1>1. SUFFICES ASSUME B # {} PROVE FALSE
  OBVIOUS
<1>2. PICK u \in B : \A v \in B : ~(v \subseteq u /\ v # u)
  <2>1. B \in SUBSET SUBSET S
    OBVIOUS
  <2> HIDE DEF B
  <2> QED BY <1>1, <2>1, SmallestBad
<1>3. u # {}
  <2>1. Total(f, u) \notin Nat
    BY <1>2
  <2>2. Total(f, {}) = 0
    BY TotalOfNone
  <2> HIDE DEF B
  <2> QED BY <2>1, <2>2
<1>4. IsFiniteSet(u)
  BY <1>2, FS_Subset
<1>5. /\ Taken(u) \in u
      /\ Total(f, u) = f[Taken(u)] + Total(f, u \ {Taken(u)})
  BY <1>3, <1>4, TotalStep
<1>6. Total(f, u \ {Taken(u)}) \in Nat
  BY <1>5, <1>2
<1> QED BY <1>2, <1>5, <1>6

\* The elements may be taken in any order.
LEMMA TotalRemove ==
    ASSUME NEW f, NEW S, IsFiniteSet(S), \A x \in S : f[x] \in Int,
           NEW y \in S
    PROVE  Total(f, S) = f[y] + Total(f, S \ {y})
<1> DEFINE B == {u \in SUBSET S :
                    \E x \in u : Total(f, u) # f[x] + Total(f, u \ {x})}
<1>1. SUFFICES ASSUME B # {} PROVE FALSE
  OBVIOUS
<1>2. PICK u \in B : \A v \in B : ~(v \subseteq u /\ v # u)
  <2>1. B \in SUBSET SUBSET S
    OBVIOUS
  <2> HIDE DEF B
  <2> QED BY <1>1, <2>1, SmallestBad
<1>3. PICK x \in u : Total(f, u) # f[x] + Total(f, u \ {x})
  BY <1>2
<1> DEFINE t == Taken(u)
<1>4. IsFiniteSet(u)
  BY <1>2, FS_Subset
<1>5. t \in u /\ Total(f, u) = f[t] + Total(f, u \ {t})
  BY <1>3, <1>4, TotalStep
<1>6. t # x
  BY <1>3, <1>5
<1> HIDE DEF t
<1>7. u \ {t} \notin B /\ u \ {x} \notin B
  BY <1>2, <1>3, <1>5
<1>8. (u \ {t}) \ {x} = (u \ {x}) \ {t}
  OBVIOUS
<1>9. Total(f, u \ {t}) = f[x] + Total(f, (u \ {x}) \ {t})
  <2>1. Total(f, u \ {t}) = f[x] + Total(f, (u \ {t}) \ {x})
    BY <1>7, <1>6, <1>2
  <2> QED BY <2>1, <1>8
<1>10. Total(f, u \ {x}) = f[t] + Total(f, (u \ {x}) \ {t})
  BY <1>7, <1>6, <1>5, <1>2
<1>11. Total(f, (u \ {x}) \ {t}) \in Int
  <2>1. IsFiniteSet((u \ {x}) \ {t}) /\ (u \ {x}) \ {t} \subseteq S
    BY <1>4, FS_Subset, <1>2
  <2> QED BY <2>1, TotalType
<1>12. f[x] \in Int /\ f[t] \in Int
  BY <1>2, <1>5
<1> HIDE DEF B
<1> QED BY <1>3, <1>5, <1>9, <1>10, <1>11, <1>12

\* A sum grows with what is summed.
LEMMA TotalGrows ==
    ASSUME NEW f, NEW g, NEW S, IsFiniteSet(S),
           \A x \in S : f[x] \in Int /\ g[x] \in Int /\ f[x] <= g[x]
    PROVE  Total(f, S) <= Total(g, S)
<1> DEFINE B == {u \in SUBSET S : ~(Total(f, u) <= Total(g, u))}
<1>1. SUFFICES ASSUME B # {} PROVE FALSE
  OBVIOUS
<1>2. PICK u \in B : \A v \in B : ~(v \subseteq u /\ v # u)
  <2>1. B \in SUBSET SUBSET S
    OBVIOUS
  <2> HIDE DEF B
  <2> QED BY <1>1, <2>1, SmallestBad
<1>3. u # {}
  <2>1. ~(Total(f, u) <= Total(g, u))
    BY <1>2
  <2>2. Total(f, {}) = 0 /\ Total(g, {}) = 0
    BY TotalOfNone
  <2> HIDE DEF B
  <2> QED BY <2>1, <2>2
<1> DEFINE t == Taken(u)  R == u \ {t}
<1>4. IsFiniteSet(u) /\ IsFiniteSet(R)
  BY <1>2, FS_Subset
<1>5. /\ t \in u
      /\ Total(f, u) = f[t] + Total(f, R)
      /\ Total(g, u) = g[t] + Total(g, R)
  BY <1>3, <1>4, TotalStep
<1>6. Total(f, R) <= Total(g, R)
  BY <1>5, <1>2
<1>7. Total(f, R) \in Int /\ Total(g, R) \in Int
  BY <1>2, <1>4, TotalType
<1>8. f[t] \in Int /\ g[t] \in Int /\ f[t] <= g[t]
  BY <1>5, <1>2
<1> HIDE DEF t, R
<1> QED BY <1>2, <1>5, <1>6, <1>7, <1>8

\* The sum of two elements.
LEMMA TotalOfTwo ==
    ASSUME NEW f, NEW x, NEW y, x # y, f[x] \in Int, f[y] \in Int
    PROVE  Total(f, {x, y}) = f[x] + f[y]
<1>1. IsFiniteSet({x, y}) /\ IsFiniteSet({y})
  <2>1. IsFiniteSet({y})
    BY FS_Singleton
  <2>2. IsFiniteSet({y} \cup {x})
    BY <2>1, FS_AddElement
  <2>3. {y} \cup {x} = {x, y}
    OBVIOUS
  <2> QED BY <2>1, <2>2, <2>3
<1>2. Total(f, {x, y}) = f[x] + Total(f, {y})
  <2>1. {x, y} \ {x} = {y}
    OBVIOUS
  <2>2. Total(f, {x, y}) = f[x] + Total(f, {x, y} \ {x})
    BY <1>1, TotalRemove
  <2> QED BY <2>1, <2>2
<1>3. Total(f, {y}) = f[y] + Total(f, {})
  <2>1. {y} \ {y} = {}
    OBVIOUS
  <2>2. Total(f, {y}) = f[y] + Total(f, {y} \ {y})
    BY <1>1, TotalRemove
  <2> QED BY <2>1, <2>2
<1>4. Total(f, {}) = 0
  BY TotalOfNone
<1> QED BY <1>2, <1>3, <1>4

----------------------------------------------------------------------------
(* The inductive invariant.                                                    *)

Early   == {"start", "scan", "plan"}
Selling == {"sell", "read_back"}
After   == {"record", "search", "pick", "buy", "log"}

Clean    == exit \in {"ok", "no_time_series"}
Said     == {"not_sold", "partly_sold", "sold", "unbalanced", "manual_review"}
Someone  == {"rollback_failed", "manual_review"}

\* One leg, or two.
OneOrTwo(g) == \/ \E m \in g : g = {m}
               \/ \E m, x \in g : m # x /\ g = {m, x}

\* A plan sells no more of any leg than the run saw held.
PlanOK(p) ==
    /\ p.legs \subseteq Markets /\ OneOrTwo(p.legs) /\ p.count \in Nat
    /\ \A m \in p.legs : before[m] # 0 /\ p.count <= Abs(before[m])

\* What a sale can have come to: as told, or less by a trailing account, and
\* even unless it is for a person to look at.
SaleShape(s) ==
    /\ s = Outcome(s, s.gone, s.sold, s.byAccount, s.status)
    /\ s.legs \subseteq Markets /\ OneOrTwo(s.legs)
    /\ s.gone \in [s.legs -> Nat]
    /\ DOMAIN s.sold \subseteq s.legs /\ s.sold \in [DOMAIN s.sold -> Nat]
    /\ s.byAccount \in BOOLEAN /\ s.status \in Said

SaleTold(s) ==
    /\ \A m \in DOMAIN s.sold : s.sold[m] <= s.gone[m]
    /\ s.status # "manual_review" =>
          /\ DOMAIN s.sold = s.legs
          /\ \A m \in s.legs : s.sold[m] < s.gone[m] => s.byAccount
    /\ ~NeedsPerson(s) => \A m, x \in s.legs : s.sold[m] = s.sold[x]

SaleOK(s) == SaleShape(s) /\ SaleTold(s)

Uneven(s) == \E m, x \in s.legs : s.gone[m] # s.gone[x]

Shape ==
    /\ TypeOK
    /\ {held, before, pos, led} \subseteq [Markets -> Int]
    /\ sold \in [Markets -> Nat]
    /\ settings \in [sell : BOOLEAN, rebalance : BOOLEAN]
    /\ outside \in Nat
    /\ (exit = "none") = (pc # "done")
    /\ pc = "sell" => reads = 0
    /\ pc = "read_back" => reads = 0 \/ reads <= pauses

\* Before the first order nothing has happened.
Untouched ==
    pc \in Early =>
        /\ sales = {} /\ plans = {} /\ reads = 0 /\ uneven = {} /\ recorded = {}
        /\ statuses = {} /\ led = pos /\ \A m \in Markets : sold[m] = 0

\* The positions as first read are the account's, but for those left out.
FirstRead ==
    pc \in {"scan", "plan"} =>
        \A m \in Markets : before[m] \in {0, pos[m]}

AsRead ==
    pc \in Early \cup {"sell"} \/ (pc = "read_back" /\ reads = 0) =>
        held = before

Plans == pc \in Selling => \A p \in plans : PlanOK(p)

\* Each sale is as PairSale reports it, of markets no other sale is of, and the
\* account and its ledger moved by what the sales took.
Sales ==
    pc # "done" \/ Clean =>
        /\ \A s \in sales : SaleOK(s)
        /\ \A s \in sales : \A m \in s.legs :
              before[m] # 0 /\ sold[m] = s.gone[m]
        /\ \A s, t \in sales : s.legs \cap t.legs # {} => s.legs = t.legs
        /\ \A m \in Markets \ Planned(sales) : sold[m] = 0

Ledger ==
    pc \in (Early \cup Selling \cup After) \ {"log"} =>
        /\ \A m \in Planned(sales) : pos[m] = Less(before[m], sold[m])
        /\ \A m \in Planned(sales) :
              \/ before[m] > 0 /\ pos[m] >= 0 /\ led[m] \in pos[m] .. before[m]
              \/ before[m] < 0 /\ pos[m] <= 0 /\ led[m] \in before[m] .. pos[m]
        /\ \A m \in Markets \ Planned(sales) :
              led[m] = pos[m] /\ (pc = "start" \/ before[m] \in {0, pos[m]})

\* What the run takes for held.
Holding ==
    /\ holding \subseteq Markets
    /\ pc \in {"scan", "plan"} \cup Selling => holding = Listed(before)
    /\ pc \in After =>
          /\ Listed(held) \subseteq holding
          /\ complete => holding = Listed(held)
          /\ \A m \in Listed(before) : m \in holding \/ (complete /\ held[m] = 0)
    /\ pc \in After \ {"log"} =>
          /\ \A m \in Listed(held) : held[m] = led[m]
          /\ complete /\ reads > 0 => held = led
          /\ reads = 0 => held = before

\* A market something was sold on stays off what may be bought.
KeptOff ==
    pc \in After =>
        \A s \in sales : \A m \in s.legs :
            s.gone[m] > 0 => m \in SoldTickers(sales) \cup holding

\* With no listing after them the sales took nothing; with a whole one that has
\* caught up, those that are for nobody to look at are even.
Evened ==
    pc \in After \/ Clean =>
        /\ reads = 0 => \A s \in sales : \A m \in s.legs : s.gone[m] = 0
        /\ complete /\ (\A m \in Planned(sales) : led[m] = Less(before[m], sold[m]))
           => \A s \in sales : NeedsPerson(s) \/ ~Uneven(s)

\* Whose unevenness is on record.
Unevenness ==
    /\ (pc # "done" \/ Clean) /\ uneven # {} =>
          (\E s \in sales : Uneven(s)) \/ statuses \cap Someone # {}
    /\ Clean => /\ \A s \in sales : ~NeedsPerson(s)
                /\ statuses \cap Someone = {}

\* A value above zero is backed by the contracts of its listing.
Backed ==
    /\ pc \in {"scan", "plan"} \cup Selling =>
          value \in {Unread, 0} \/ value <= Payout * Contracts(before)
    /\ pc \in After \ {"log"} /\ Settled =>
          Counted(value) <= Payout * Contracts(pos)

\* What may be added to, and what was picked.
Adding ==
    pc \in {"pick", "buy"} =>
        /\ addOns # {} => complete
        /\ \A g \in addOns : g \subseteq Markets /\ MayAdd(g, held)

OnTheSide(p) == LET g == AddsTo(p)
                IN  IF g = {} THEN Ladders(holding)
                    ELSE IF Cardinality(g) = 1
                    THEN Ladders(holding) \ Ladders(g) ELSE {}

Fits(p, qs) ==
    /\ Found(p)
    /\ p.kind = "time_series" =>
          /\ Ladders(Both(p)) \cap OnTheSide(p) = {}
          /\ \A q \in qs \ {p} :
                q.kind = "time_series" => Ladders(Both(p)) \cap Ladders(Both(q)) = {}

Chosen ==
    /\ IsFiniteSet(portfolio)
    /\ pc \in Early \cup Selling \cup {"record", "search"} => portfolio = {}
    /\ pc \in {"pick", "buy"} => \A p \in portfolio : Fits(p, portfolio)

Recorded ==
    LET sent == \E m \in Markets : sold[m] > 0
    IN  /\ pc \in Selling \cup {"record", "buy", "log"} => marked
        /\ sent \/ statuses # {} => marked
        /\ pc \in After \ {"record"} /\ sent => "sales" \in recorded
        /\ pc \in (Early \cup Selling \cup After) \ {"log"} => statuses = {}
        /\ pc = "done" /\ exit # "interrupted" =>
              /\ sent => "sales" \in recorded
              /\ statuses # {} => "trades" \in recorded

ProdIInv == /\ Shape /\ Untouched /\ FirstRead /\ AsRead /\ Plans /\ Sales /\ Ledger
            /\ Holding /\ KeptOff /\ Evened /\ Unevenness /\ Backed /\ Adding
            /\ Chosen /\ Recorded

----------------------------------------------------------------------------
(* Positions, plans and what a sale may come to.                               *)

\* Taking k of the n contracts held leaves the rest, on the same side.
LEMMA LessLeaves ==
    ASSUME NEW n \in Int, NEW k \in Nat, k <= Abs(n)
    PROVE  /\ Less(n, k) \in Int
           /\ n > 0 => Less(n, k) = n - k /\ n - k >= 0
           /\ n <= 0 => Less(n, k) = n + k /\ n + k <= 0
           /\ Abs(n) = k + Abs(Less(n, k))
BY DEF Less, Abs

\* A size is a natural number, and 0 only for nothing.
LEMMA AbsIs ==
    ASSUME NEW n \in Int
    PROVE  Abs(n) \in Nat /\ (Abs(n) = 0) = (n = 0)
BY DEF Abs

\* A set of one or two is one element, or two different ones.
LEMMA OneOrTwoOf ==
    ASSUME NEW g, IsFiniteSet(g), Cardinality(g) \in {1, 2}
    PROVE  OneOrTwo(g)
<1>1. CASE Cardinality(g) = 1
  BY <1>1, FS_Singleton DEF OneOrTwo
<1>2. CASE Cardinality(g) = 2
  <2>1. g # {}
    BY <1>2, FS_EmptySet
  <2>2. PICK m \in g : TRUE
    BY <2>1
  <2>3. IsFiniteSet(g \ {m}) /\ Cardinality(g \ {m}) = 1
    BY <1>2, <2>2, FS_RemoveElement
  <2>4. PICK x : g \ {m} = {x}
    BY <2>3, FS_Singleton
  <2>5. m # x /\ x \in g /\ g = {m, x}
    BY <2>2, <2>4
  <2> QED BY <2>2, <2>5 DEF OneOrTwo
<1> QED BY <1>1, <1>2

\* The other way round.
LEMMA OneOrTwoIs ==
    ASSUME NEW g, OneOrTwo(g)
    PROVE  /\ g # {} /\ IsFiniteSet(g)
           /\ Cardinality(g) = 1 => \E m \in g : g = {m}
           /\ Cardinality(g) # 1 => \E m, x \in g : m # x /\ g = {m, x}
<1>1. CASE \E m \in g : g = {m}
  BY <1>1, FS_Singleton
<1>2. ASSUME NEW m \in g, NEW x \in g, m # x, g = {m, x}
      PROVE  IsFiniteSet(g) /\ Cardinality(g) # 1
  <2>1. IsFiniteSet({x}) /\ Cardinality({x}) = 1
    BY FS_Singleton
  <2>2. /\ IsFiniteSet({x} \cup {m})
        /\ Cardinality({x} \cup {m}) = Cardinality({x}) + 1
    BY <2>1, <1>2, FS_AddElement
  <2>3. {x} \cup {m} = g
    BY <1>2
  <2> QED BY <2>1, <2>2, <2>3
<1> QED BY <1>1, <1>2 DEF OneOrTwo

\* What scanner.held_pairs gives: one market or two of one size, which share no
\* label with anything else held.
LEMMA HeldPairIs ==
    ASSUME NEW h \in [Markets -> Int], NEW g \in HeldPairs(h)
    PROVE  /\ g \subseteq Listed(h) /\ OneOrTwo(g)
           /\ \A m \in g : Abs(h[m]) = Abs(h[CHOOSE x \in g : TRUE])
           /\ Ladders(g) \cap Ladders(Listed(h) \ g) = {}
<1>1. g \in Closed(h)
  BY DEF HeldPairs, Groups
<1>2. g \subseteq Listed(h) /\ Ladders(g) \cap Ladders(Listed(h) \ g) = {}
  BY <1>1 DEF Closed
<1>3. IsFiniteSet(g)
  BY <1>2, FS_Subset, ProdRunAssumption DEF Listed
<1>4. OneOrTwo(g)
  BY <1>3, OneOrTwoOf DEF HeldPairs
<1>5. ASSUME NEW m \in g
      PROVE  Abs(h[m]) = Abs(h[CHOOSE x \in g : TRUE])
  <2>1. CASE g = {m}
    BY <2>1
  <2>2. CASE \E x \in g : x # m /\ g = {m, x}
    <3>1. PICK x \in g : x # m /\ g = {m, x}
      BY <2>2
    <3>2. h[m] \in Int /\ h[x] \in Int
      BY <1>2, <1>5 DEF Listed
    <3>3. Cardinality(g) # 1
      <4>1. IsFiniteSet({x}) /\ Cardinality({x}) = 1
        BY FS_Singleton
      <4>2. Cardinality({x} \cup {m}) = 2
        BY <4>1, <3>1, FS_AddElement
      <4>3. {x} \cup {m} = g
        BY <3>1
      <4> QED BY <4>2, <4>3
    <3>4. Total(h, g) = 0
      BY <3>3 DEF HeldPairs
    <3>5. Total(h, g) = h[m] + h[x]
      BY <3>1, <3>2, TotalOfTwo
    <3>6. Abs(h[m]) = Abs(h[x])
      BY <3>2, <3>4, <3>5 DEF Abs
    <3> DEFINE y == CHOOSE z \in g : TRUE
    <3>7. y \in g
      BY <1>5
    <3> HIDE DEF y
    <3>8. y = m \/ y = x
      BY <3>7, <3>1
    <3> QED BY <3>6, <3>8 DEF y
  <2> QED BY <1>4, <2>1, <2>2 DEF OneOrTwo
<1> QED BY <1>2, <1>4, <1>5

\* What the sale of one leg comes to.
LEMMA LoneOutcomeOK ==
    ASSUME NEW p, PlanOK(p), NEW m \in p.legs, p.legs = {m},
           NEW s \in LoneOutcomes(p)
    PROVE  /\ SaleOK(s) /\ s.legs = p.legs
           /\ \A x \in s.legs : s.gone[x] <= p.count
<1> DEFINE Lone(n) ==
      {Outcome(p, [x \in p.legs |-> n], [x \in p.legs |-> r], r < n \/ b,
               Verdict(r, r, p.count)) : r \in 0 .. n, b \in BOOLEAN}
      \cup {Outcome(p, [x \in p.legs |-> n], <<>>, b, "manual_review") :
               b \in BOOLEAN}
<1>1. LoneOutcomes(p) = UNION {Lone(n) : n \in 0 .. p.count}
  BY DEF LoneOutcomes
<1>2. PICK n \in 0 .. p.count : s \in Lone(n)
  <2> HIDE DEF Lone
  <2> QED BY <1>1
<1>3. p.count \in Nat /\ n \in Nat /\ n <= p.count
  BY DEF PlanOK
<1>4. ASSUME NEW r \in 0 .. n, NEW b \in BOOLEAN,
             s = Outcome(p, [x \in p.legs |-> n], [x \in p.legs |-> r],
                         r < n \/ b, Verdict(r, r, p.count))
      PROVE  SaleOK(s) /\ s.legs = {m} /\ s.gone[m] = n
  <2>1. /\ s.legs = {m} /\ s.gone = [x \in p.legs |-> n]
        /\ s.sold = [x \in p.legs |-> r] /\ s.byAccount = (r < n \/ b)
        /\ s.status = Verdict(r, r, p.count)
        /\ s = Outcome(s, s.gone, s.sold, s.byAccount, s.status)
    BY <1>4 DEF Outcome
  <2>2. s.status \in {"not_sold", "partly_sold", "sold"}
    BY <2>1, <1>3 DEF Verdict
  <2>3. SaleShape(s)
    BY <2>1, <2>2, <1>3 DEF SaleShape, Said, OneOrTwo, PlanOK
  <2>4. s.sold[m] = r /\ s.gone[m] = n /\ DOMAIN s.sold = {m}
    BY <2>1
  <2>5. r < n => s.byAccount
    BY <2>1, Zenon
  <2>6. SaleTold(s)
    BY <2>1, <2>2, <2>4, <2>5, <1>3 DEF SaleTold, NeedsPerson
  <2> QED BY <2>1, <2>3, <2>6 DEF SaleOK
<1>5. ASSUME NEW b \in BOOLEAN,
             s = Outcome(p, [x \in p.legs |-> n], <<>>, b, "manual_review")
      PROVE  SaleOK(s) /\ s.legs = {m} /\ s.gone[m] = n
  <2>1. /\ s.legs = {m} /\ s.gone = [x \in p.legs |-> n] /\ s.sold = <<>>
        /\ s.byAccount = b /\ s.status = "manual_review"
        /\ s = Outcome(s, s.gone, s.sold, s.byAccount, s.status)
    BY <1>5 DEF Outcome
  <2>2. SaleShape(s)
    BY <2>1, <1>3 DEF SaleShape, Said, OneOrTwo, PlanOK
  <2>3. SaleTold(s)
    BY <2>1 DEF SaleTold, NeedsPerson
  <2> QED BY <2>1, <2>2, <2>3 DEF SaleOK
<1>6. SaleOK(s) /\ s.legs = {m} /\ s.gone[m] = n
  BY <1>2, <1>4, <1>5
<1> QED BY <1>3, <1>6

\* What the sale of a pair comes to, the first leg sold first.
LEMMA PairOutcomeOK ==
    ASSUME NEW p, PlanOK(p), NEW first \in p.legs, NEW other \in p.legs,
           first # other, p.legs = {first, other},
           NEW s \in PairOutcomes(p, first, other)
    PROVE  /\ SaleOK(s) /\ s.legs = p.legs
           /\ \A x \in s.legs : s.gone[x] <= p.count
<1> DEFINE
      Two(i, j) == [x \in {first, other} |-> IF x = first THEN i ELSE j]
      One(i, ri, j, rj, b) ==
          Outcome(p, Two(i, j), Two(ri, rj), ri < i \/ rj < j \/ b,
                  Verdict(ri, rj, p.count))
      Known(i, ri, j) ==
          {One(i, ri, j, rj, b) : rj \in 0 .. j, b \in BOOLEAN}
      Told(i, ri, j) ==
          Known(i, ri, j)
          \cup (IF ri = 0 THEN {}
                ELSE {Outcome(p, Two(i, j), [x \in {first} |-> ri], TRUE,
                              "manual_review")})
      Some(i)   == UNION {UNION {Told(i, ri, j) : j \in 0 .. ri} : ri \in 0 .. i}
      Raised(i) == {Outcome(p, Two(i, j), <<>>, FALSE, "manual_review") :
                       j \in 0 .. i}
      Each(i)   == Some(i)
                   \cup {Outcome(p, Two(i, 0), [x \in {other} |-> 0], TRUE,
                                 "manual_review")}
                   \cup Raised(i)
<1>1. PairOutcomes(p, first, other) = UNION {Each(i) : i \in 0 .. p.count}
  BY DEF PairOutcomes
<1>2. PICK i \in 0 .. p.count : s \in Each(i)
  <2> HIDE DEF Each
  <2> QED BY <1>1
<1>3. p.count \in Nat /\ i \in Nat /\ i <= p.count
  BY DEF PlanOK
<1>4. ASSUME NEW j \in 0 .. i, s.status = "manual_review",
             s.byAccount \in BOOLEAN, s.legs = p.legs, s.gone = Two(i, j),
             DOMAIN s.sold \subseteq p.legs, s.sold \in [DOMAIN s.sold -> Nat],
             \A m \in DOMAIN s.sold : s.sold[m] <= s.gone[m],
             s = Outcome(s, s.gone, s.sold, s.byAccount, s.status)
      PROVE  SaleOK(s) /\ \A x \in s.legs : s.gone[x] <= p.count
  <2>1. s.gone[first] = i /\ s.gone[other] = j /\ s.gone \in [s.legs -> Nat]
    BY <1>4, <1>3
  <2>2. SaleShape(s)
    BY <1>4, <2>1 DEF SaleShape, Said, OneOrTwo, PlanOK
  <2>3. SaleTold(s)
    BY <1>4 DEF SaleTold, NeedsPerson
  <2> QED BY <2>1, <2>2, <2>3, <1>3, <1>4 DEF SaleOK
<1>5. ASSUME NEW ri \in 0 .. i, NEW j \in 0 .. ri, NEW rj \in 0 .. j,
             NEW b \in BOOLEAN,
             s = One(i, ri, j, rj, b)
      PROVE  /\ SaleOK(s) /\ s.legs = p.legs
             /\ \A x \in s.legs : s.gone[x] <= p.count
  <2>1. /\ s.legs = p.legs /\ s.gone = Two(i, j) /\ s.sold = Two(ri, rj)
        /\ s.byAccount = (ri < i \/ rj < j \/ b)
        /\ s.status = Verdict(ri, rj, p.count)
        /\ s = Outcome(s, s.gone, s.sold, s.byAccount, s.status)
    <3> HIDE DEF Two
    <3> QED BY <1>5 DEF Outcome
  <2>2. /\ s.gone[first] = i /\ s.gone[other] = j
        /\ s.sold[first] = ri /\ s.sold[other] = rj
        /\ DOMAIN s.sold = s.legs
        /\ s.gone \in [s.legs -> Nat] /\ s.sold \in [s.legs -> Nat]
    BY <2>1, <1>3
  <2>3. ri \in Nat /\ rj \in Nat /\ j \in Nat /\ rj <= j /\ j <= ri /\ ri <= i
    BY <1>3
  <2>4. (ri < i => s.byAccount) /\ (rj < j => s.byAccount)
    BY <2>1, Zenon
  <2>5. s.status \in {"not_sold", "partly_sold", "sold", "unbalanced"}
    BY <2>1 DEF Verdict
  <2>6. s.status # "unbalanced" => ri = rj
    BY <2>1, <2>3 DEF Verdict
  <2>7. SaleShape(s)
    <3>1. s.byAccount \in BOOLEAN
      BY <2>1, Zenon
    <3> QED BY <3>1, <2>1, <2>2, <2>5 DEF SaleShape, Said, OneOrTwo, PlanOK
  <2>8. SaleTold(s)
    BY <2>1, <2>2, <2>3, <2>4, <2>5, <2>6 DEF SaleTold, NeedsPerson
  <2> QED BY <2>1, <2>2, <2>3, <2>7, <2>8, <1>3 DEF SaleOK
<1>6. ASSUME NEW ri \in 0 .. i, NEW j \in 0 .. ri, s \in Told(i, ri, j)
      PROVE  /\ SaleOK(s) /\ s.legs = p.legs
             /\ \A x \in s.legs : s.gone[x] <= p.count
  <2>1. CASE \E rj \in 0 .. j : \E b \in BOOLEAN : s = One(i, ri, j, rj, b)
    <3>1. PICK rj \in 0 .. j, b \in BOOLEAN : s = One(i, ri, j, rj, b)
      BY <2>1
    <3> QED BY <3>1, <1>5
  <2>2. CASE s = Outcome(p, Two(i, j), [x \in {first} |-> ri], TRUE,
                         "manual_review")
    <3>1. j \in 0 .. i /\ ri \in Nat /\ ri <= i
      BY <1>3
    <3>2. /\ s.legs = p.legs /\ s.gone = Two(i, j) /\ s.byAccount = TRUE
          /\ s.sold = [x \in {first} |-> ri] /\ s.status = "manual_review"
          /\ s = Outcome(s, s.gone, s.sold, s.byAccount, s.status)
      <4> HIDE DEF Two
      <4> QED BY <2>2 DEF Outcome
    <3>3. s.gone[first] = i
      BY <3>2
    <3>4. /\ DOMAIN s.sold \subseteq p.legs /\ s.sold \in [DOMAIN s.sold -> Nat]
          /\ \A m \in DOMAIN s.sold : s.sold[m] <= s.gone[m]
      BY <3>1, <3>2, <3>3
    <3> QED BY <3>1, <3>2, <3>4, <1>4
  <2>3. \/ \E rj \in 0 .. j : \E b \in BOOLEAN : s = One(i, ri, j, rj, b)
        \/ s = Outcome(p, Two(i, j), [x \in {first} |-> ri], TRUE,
                       "manual_review")
    <3>1. \/ s \in Known(i, ri, j)
          \/ s = Outcome(p, Two(i, j), [x \in {first} |-> ri], TRUE,
                         "manual_review")
      <4> HIDE DEF Two, Known, One
      <4> QED BY <1>6
    <3>2. s \in Known(i, ri, j) =>
             \E rj \in 0 .. j : \E b \in BOOLEAN :
                s = One(i, ri, j, rj, b)
      <4> HIDE DEF One
      <4> QED OBVIOUS
    <3> HIDE DEF Two, Known, One
    <3> QED BY <3>1, <3>2
  <2> HIDE DEF Two, Told, Each, One
  <2> QED BY <2>1, <2>2, <2>3
<1>7. CASE s = Outcome(p, Two(i, 0), [x \in {other} |-> 0], TRUE,
                       "manual_review")
  <2>1. /\ s.legs = p.legs /\ s.gone = Two(i, 0) /\ s.byAccount = TRUE
        /\ s.sold = [x \in {other} |-> 0] /\ s.status = "manual_review"
        /\ s = Outcome(s, s.gone, s.sold, s.byAccount, s.status)
    <3> HIDE DEF Two
    <3> QED BY <1>7 DEF Outcome
  <2>2. s.gone[other] = 0 /\ 0 \in 0 .. i
    BY <2>1, <1>3
  <2>3. /\ DOMAIN s.sold \subseteq p.legs /\ s.sold \in [DOMAIN s.sold -> Nat]
        /\ \A m \in DOMAIN s.sold : s.sold[m] <= s.gone[m]
    BY <2>1, <2>2
  <2> QED BY <2>1, <2>2, <2>3, <1>4
<1>8. ASSUME NEW j \in 0 .. i,
             s = Outcome(p, Two(i, j), <<>>, FALSE, "manual_review")
      PROVE  /\ SaleOK(s) /\ s.legs = p.legs
             /\ \A x \in s.legs : s.gone[x] <= p.count
  <2>1. /\ s.legs = p.legs /\ s.gone = Two(i, j) /\ s.byAccount = FALSE
        /\ s.sold = <<>> /\ s.status = "manual_review"
        /\ s = Outcome(s, s.gone, s.sold, s.byAccount, s.status)
    <3> HIDE DEF Two
    <3> QED BY <1>8 DEF Outcome
  <2>2. /\ DOMAIN s.sold \subseteq p.legs /\ s.sold \in [DOMAIN s.sold -> Nat]
        /\ \A m \in DOMAIN s.sold : s.sold[m] <= s.gone[m]
    BY <2>1
  <2> QED BY <2>1, <2>2, <1>4
<1>9. \/ \E ri \in 0 .. i : \E j \in 0 .. ri : s \in Told(i, ri, j)
      \/ s = Outcome(p, Two(i, 0), [x \in {other} |-> 0], TRUE, "manual_review")
      \/ \E j \in 0 .. i :
            s = Outcome(p, Two(i, j), <<>>, FALSE, "manual_review")
  <2>1. \/ s \in Some(i)
        \/ s = Outcome(p, Two(i, 0), [x \in {other} |-> 0], TRUE, "manual_review")
        \/ s \in Raised(i)
    <3> HIDE DEF Two, Some, Raised
    <3> QED BY <1>2
  <2>2. s \in Some(i) => \E ri \in 0 .. i : \E j \in 0 .. ri : s \in Told(i, ri, j)
    <3> HIDE DEF Told
    <3> QED OBVIOUS
  <2>3. s \in Raised(i) =>
           \E j \in 0 .. i : s = Outcome(p, Two(i, j), <<>>, FALSE, "manual_review")
    <3> HIDE DEF Two
    <3> QED OBVIOUS
  <2> HIDE DEF Two, Told, Some, Raised
  <2> QED BY <2>1, <2>2, <2>3
<1>10. CASE \E ri \in 0 .. i : \E j \in 0 .. ri : s \in Told(i, ri, j)
  <2> HIDE DEF Told
  <2> QED BY <1>10, <1>6
<1>11. s.legs = p.legs
  <2>1. CASE s = Outcome(p, Two(i, 0), [x \in {other} |-> 0], TRUE,
                         "manual_review")
    BY <2>1 DEF Outcome
  <2> HIDE DEF Two, Told
  <2> QED BY <1>8, <1>9, <1>10, <2>1
<1> HIDE DEF Two, Told
<1> QED BY <1>7, <1>8, <1>9, <1>10, <1>11

\* Whatever is sold is sold of a plan, and no more of a leg than was planned.
LEMMA OutcomeOK ==
    ASSUME NEW p, PlanOK(p), NEW s \in Outcomes(p)
    PROVE  /\ SaleOK(s) /\ s.legs = p.legs
           /\ \A x \in s.legs : s.gone[x] <= p.count
<1>1. OneOrTwo(p.legs)
  BY DEF PlanOK
<1>2. CASE Cardinality(p.legs) = 1
  <2>1. PICK m \in p.legs : p.legs = {m}
    BY <1>1, <1>2, OneOrTwoIs
  <2> QED BY <2>1, <1>2, LoneOutcomeOK DEF Outcomes
<1>3. CASE Cardinality(p.legs) # 1
  <2>1. PICK m \in p.legs : s \in PairOutcomes(p, m, CHOOSE x \in p.legs : x # m)
    BY <1>3 DEF Outcomes
  <2>2. PICK y, z \in p.legs : y # z /\ p.legs = {y, z}
    BY <1>1, <1>3, OneOrTwoIs
  <2> DEFINE x == CHOOSE x \in p.legs : x # m
  <2>3. x \in p.legs /\ x # m
    BY <2>2
  <2> HIDE DEF x
  <2>4. p.legs = {m, x}
    BY <2>2, <2>3
  <2>5. s \in PairOutcomes(p, m, x)
    BY <2>1 DEF x
  <2> QED BY <2>3, <2>4, <2>5, PairOutcomeOK
<1> QED BY <1>2, <1>3

\* A listing shows the ledger, or nothing where it is cut short.
LEMMA ListingIs ==
    ASSUME NEW l \in [Markets -> Int], NEW full \in BOOLEAN,
           NEW h \in Listings(l, full)
    PROVE  /\ h \in [Markets -> Int]
           /\ \A m \in Markets : h[m] \in {0, l[m]}
           /\ full => h = l
BY DEF Listings, Listed

\* A value that counts is backed by a whole listing.
LEMMA CheckedIs ==
    ASSUME NEW v \in Values, NEW h, NEW full \in BOOLEAN
    PROVE  /\ Checked(v, h, full) \in {Unread, v}
           /\ Checked(v, h, full) \notin {Unread, 0} =>
                 full /\ v \in Nat /\ v <= Payout * Contracts(h)
BY ProdRunAssumption DEF Checked

\* A position that is nowhere smaller has no fewer contracts.
LEMMA ContractsGrow ==
    ASSUME NEW h \in [Markets -> Int], NEW k \in [Markets -> Int],
           \A m \in Markets : Abs(h[m]) <= Abs(k[m])
    PROVE  /\ Contracts(h) \in Nat /\ Contracts(k) \in Nat
           /\ Contracts(h) <= Contracts(k)
<1> DEFINE f == [m \in Markets |-> Abs(h[m])]
           g == [m \in Markets |-> Abs(k[m])]
<1>1. \A m \in Markets : f[m] \in Nat /\ g[m] \in Nat /\ f[m] <= g[m]
  BY AbsIs
<1>2. IsFiniteSet(Markets)
  BY ProdRunAssumption
<1>3. Contracts(h) = Total(f, Markets) /\ Contracts(k) = Total(g, Markets)
  BY DEF Contracts
<1> HIDE DEF f, g
<1>4. Total(f, Markets) \in Nat /\ Total(g, Markets) \in Nat
  BY <1>1, <1>2, TotalIsNat
<1>5. Total(f, Markets) <= Total(g, Markets)
  BY <1>1, <1>2, TotalGrows
<1> QED BY <1>3, <1>4, <1>5

\* What one listing backs, any position nowhere smaller backs.
LEMMA BackedBy ==
    ASSUME NEW h \in [Markets -> Int], NEW k \in [Markets -> Int],
           \A m \in Markets : Abs(h[m]) <= Abs(k[m]),
           NEW v \in Values \cup {Unread},
           v \in {Unread, 0} \/ v <= Payout * Contracts(h)
    PROVE  Counted(v) <= Payout * Contracts(k)
<1>1. /\ Contracts(h) \in Nat /\ Contracts(k) \in Nat
      /\ Contracts(h) <= Contracts(k) /\ Payout \in Nat
  BY ContractsGrow, ProdRunAssumption
<1>2. ASSUME NEW a \in Nat, NEW b \in Nat, NEW n \in Nat, a <= b
      PROVE  n * a <= n * b /\ 0 <= n * a /\ n * a \in Nat /\ n * b \in Nat
  BY <1>2
<1>3. /\ Payout * Contracts(h) <= Payout * Contracts(k)
      /\ 0 <= Payout * Contracts(h)
      /\ Payout * Contracts(h) \in Nat /\ Payout * Contracts(k) \in Nat
  BY <1>1, <1>2
<1>4. v \in Nat \/ v = Unread
  BY ProdRunAssumption
<1> QED BY <1>3, <1>4 DEF Counted

\* Before any sale there is nothing planned, sold or said.
LEMMA NoSales ==
    ASSUME sales = {}
    PROVE  Planned(sales) = {} /\ SoldTickers(sales) = {}
BY DEF Planned, SoldTickers

\* Reading the account keeps the invariant.
LEMMA ReadAccountKeeps ==
    ASSUME ProdIInv, ReadAccount
    PROVE  ProdIInv'
<1> USE DEF Early, Selling, After, Clean
<1>1. PICK v \in Values, full \in BOOLEAN :
         \E h \in Listings(led, full) :
            /\ held' = h /\ before' = h /\ complete' = full
            /\ holding' = Listed(h)
            /\ value' = Checked(v, h, full)
  BY DEF ReadAccount
<1>2. /\ pc = "start"
      /\ \/ pc' = "done" /\ exit' = "low_balance"
         \/ pc' = "scan" /\ exit' = exit
      /\ UNCHANGED <<settings, cash, known, plans, sales, reads, pauses,
                     addOns, portfolio, statuses, marked, recorded, pos, led,
                     sold, uneven, outside>>
  BY DEF ReadAccount, Exit, selling, buying, report, account, history
<1>3. /\ sales = {} /\ plans = {} /\ reads = 0 /\ uneven = {} /\ recorded = {}
      /\ statuses = {} /\ led = pos /\ \A m \in Markets : sold[m] = 0
  BY <1>2 DEF ProdIInv, Untouched
<1>4. /\ before' \in [Markets -> Int] /\ held' = before'
      /\ \A m \in Markets : before'[m] \in {0, pos[m]}
      /\ holding' = Listed(before') /\ holding' \subseteq Markets
      /\ complete' \in BOOLEAN
  BY <1>1, <1>3, ListingIs DEF ProdIInv, Shape, Listed
<1>5. /\ value' \in Values \cup {Unread}
      /\ value' \in {Unread, 0} \/ value' <= Payout * Contracts(before')
  BY <1>1, CheckedIs
<1>6. Shape'
  <2>1. TypeOK'
    BY <1>2, <1>3, <1>4, <1>5, AbsIs DEF ProdIInv, Shape, TypeOK
  <2> QED BY <2>1, <1>2, <1>4 DEF ProdIInv, Shape
<1>7. Untouched' /\ FirstRead' /\ AsRead' /\ Plans' /\ KeptOff' /\ Evened'
  BY <1>2, <1>3, <1>4 DEF Untouched, FirstRead, AsRead, Plans, KeptOff, Evened
<1>8. Sales' /\ Ledger'
  BY <1>2, <1>3, <1>4, NoSales DEF Sales, Ledger, Planned
<1>9. Holding' /\ Unevenness' /\ Adding' /\ Chosen'
  BY <1>2, <1>3, <1>4 DEF ProdIInv, Holding, Unevenness, Adding, Chosen
<1>10. Backed'
  BY <1>2, <1>5 DEF Backed
<1>11. Recorded'
  BY <1>2, <1>3 DEF ProdIInv, Recorded
<1> QED BY <1>6, <1>7, <1>8, <1>9, <1>10, <1>11 DEF ProdIInv

\* A run that stops without the code of a clean one keeps the invariant, if what
\* was sent is on record unless it was interrupted.
LEMMA StoppingKeeps ==
    ASSUME ProdIInv, pc # "done", pc' = "done",
           exit' \in {"attention", "blind", "raised", "interrupted"},
           UNCHANGED <<settings, cash, value, listing, selling, buying, marked,
                       account, history>>,
           recorded \subseteq recorded', recorded' \subseteq {"sales", "trades"},
           exit' # "interrupted" =>
              /\ (\E m \in Markets : sold[m] > 0) => "sales" \in recorded'
              /\ statuses # {} => "trades" \in recorded'
    PROVE  ProdIInv'
<1> USE DEF Early, Selling, After, Clean
<1>1. UNCHANGED <<settings, cash, value, held, complete, before, holding, known,
                  plans, sales, reads, pauses, addOns, portfolio, statuses,
                  marked, pos, led, sold, uneven, outside>>
  BY DEF listing, selling, buying, account, history
<1>2. Shape'
  BY <1>1 DEF ProdIInv, Shape, TypeOK
<1>3. /\ Untouched' /\ FirstRead' /\ AsRead' /\ Plans' /\ Sales' /\ Ledger'
      /\ KeptOff' /\ Evened' /\ Unevenness' /\ Backed' /\ Adding' /\ Chosen'
  BY DEF ProdIInv, Untouched, FirstRead, AsRead, Plans, Sales, Ledger, KeptOff, Evened,
      Unevenness, Backed, Adding, Chosen, buying
<1>4. Holding'
  BY <1>1 DEF ProdIInv, Holding
<1>5. Recorded'
  BY <1>1 DEF ProdIInv, Recorded
<1> QED BY <1>2, <1>3, <1>4, <1>5 DEF ProdIInv

\* Looking up the ladders of what is held keeps the invariant.
LEMMA ScanKeeps ==
    ASSUME ProdIInv, Scan
    PROVE  ProdIInv'
<1> USE DEF Early, Selling, After, Clean
<1>1. /\ pc = "scan"
      /\ UNCHANGED <<settings, cash, value, held, complete, before, holding,
                     plans, sales, reads, pauses, addOns, portfolio, statuses,
                     marked, recorded, pos, led, sold, uneven, outside>>
      /\ \/ pc' = "done" /\ exit' = "blind" /\ known' = known
         \/ pc' = "plan" /\ exit' = exit /\ known' \in BOOLEAN
  BY DEF Scan, Exit, selling, buying, report, account, history
<1>2. /\ sales = {} /\ plans = {} /\ reads = 0 /\ uneven = {} /\ recorded = {}
      /\ statuses = {} /\ led = pos /\ \A m \in Markets : sold[m] = 0
  BY <1>1 DEF ProdIInv, Untouched
<1>3. CASE pc' = "done"
  BY <1>1, <1>2, <1>3, StoppingKeeps
     DEF listing, selling, buying, account, history
<1>4. CASE pc' = "plan"
  <2>1. Shape'
    BY <1>1, <1>4 DEF ProdIInv, Shape, TypeOK
  <2>2. Untouched' /\ FirstRead' /\ AsRead' /\ Plans' /\ KeptOff' /\ Evened'
    BY <1>1, <1>2, <1>4 DEF ProdIInv, Untouched, FirstRead, AsRead, Plans, KeptOff, Evened
  <2>3. Sales' /\ Ledger'
    BY <1>1, <1>2, <1>4, NoSales DEF ProdIInv, Sales, Ledger, Planned
  <2>4. Holding' /\ Unevenness' /\ Adding' /\ Chosen'
    BY <1>1, <1>2, <1>4 DEF ProdIInv, Holding, Unevenness, Adding, Chosen, Listed
  <2>5. Backed' /\ Recorded'
    BY <1>1, <1>2, <1>4 DEF ProdIInv, Backed, Recorded, Contracts
  <2> QED BY <2>1, <2>2, <2>3, <2>4, <2>5 DEF ProdIInv
<1> QED BY <1>1, <1>3, <1>4

\* Ending for good where nothing catches it, or by hand, keeps the invariant.
LEMMA RaiseKeeps ==
    ASSUME ProdIInv, Raise \/ Interrupt
    PROVE  ProdIInv'
<1> USE DEF Early, Selling, After
<1>1. /\ pc # "done" /\ pc' = "done"
      /\ \/ exit' = "interrupted"
         \/ exit' = "raised" /\ pc \in {"start", "scan", "plan", "search", "pick"}
      /\ UNCHANGED <<settings, cash, value, listing, selling, buying, report,
                     account, history>>
  BY DEF Raise, Interrupt, Exit
<1>2. marked' = marked /\ recorded' = recorded
  BY <1>1 DEF report
<1>3. recorded \subseteq {"sales", "trades"}
  BY DEF ProdIInv, Shape, TypeOK
<1>4. exit' = "raised" =>
         /\ (\E m \in Markets : sold[m] > 0) => "sales" \in recorded
         /\ statuses = {}
  BY <1>1 DEF ProdIInv, Recorded, Untouched
<1> QED BY <1>1, <1>2, <1>3, <1>4, StoppingKeeps

\* A reading after the sales that raises keeps the invariant.
LEMMA ReadBackRaisesKeeps ==
    ASSUME ProdIInv, ReadBackRaises
    PROVE  ProdIInv'
<1>1. recorded \subseteq {"sales", "trades"} /\ statuses = {}
  BY DEF ProdIInv, Shape, TypeOK, Recorded, ReadBackRaises, Early, Selling, After
<1> QED BY <1>1, StoppingKeeps DEF ReadBackRaises, Exit

\* Every plan is of a position held, and for no more than it.
LEMMA PlannedOK ==
    ASSUME held \in [Markets -> Int], held = before,
           NEW gs \in SUBSET HeldPairs(held),
           NEW ts \in SUBSET HeldPairs(held),
           NEW t \in Trims(ts), NEW p \in Whole(gs) \cup t
    PROVE  PlanOK(p)
<1>1. ASSUME NEW g \in HeldPairs(held)
      PROVE  /\ g \subseteq Markets /\ OneOrTwo(g) /\ Count(g) \in Nat
             /\ \A m \in g : before[m] # 0 /\ Abs(before[m]) = Count(g)
  <2>1. /\ g \subseteq Listed(held) /\ OneOrTwo(g)
        /\ \A m \in g : Abs(held[m]) = Abs(held[CHOOSE x \in g : TRUE])
    BY <1>1, HeldPairIs
  <2>2. (CHOOSE x \in g : TRUE) \in g
    BY <2>1, OneOrTwoIs
  <2>3. Count(g) = Abs(held[CHOOSE x \in g : TRUE])
    BY DEF Count
  <2> QED BY <2>1, <2>2, <2>3, AbsIs DEF Listed
<1>2. CASE p \in Whole(gs)
  <2>1. PICK g \in gs : p = [legs |-> g, count |-> Count(g)]
    BY <1>2 DEF Whole
  <2> QED BY <1>1, <2>1 DEF PlanOK
<1>3. CASE p \in t
  <2>1. PICK n : /\ n \in [ts -> UNION {1 .. Count(g) : g \in ts}]
                 /\ \A g \in ts : n[g] <= Count(g)
                 /\ t = {[legs |-> g, count |-> n[g]] : g \in ts}
    BY DEF Trims
  <2>2. PICK g \in ts : p = [legs |-> g, count |-> n[g]]
    BY <1>3, <2>1
  <2>3. n[g] \in Nat /\ n[g] <= Count(g)
    <3>1. PICK x \in ts : n[g] \in 1 .. Count(x)
      BY <2>1, <2>2
    <3> QED BY <3>1, <2>1, <2>2, <1>1
  <2> QED BY <1>1, <2>2, <2>3 DEF PlanOK
<1> QED BY <1>2, <1>3

\* Planning the sales keeps the invariant.
LEMMA PlanSalesKeeps ==
    ASSUME ProdIInv, PlanSales
    PROVE  ProdIInv'
<1> USE DEF Early, Selling, After, Clean
<1>1. /\ pc = "plan" /\ marked' = Marked(plans')
      /\ pc' = IF plans' = {} THEN "search" ELSE "sell"
      /\ UNCHANGED <<settings, cash, value, held, complete, before, holding,
                     known, sales, reads, pauses, addOns, portfolio, statuses,
                     recorded, exit, pos, led, sold, uneven, outside>>
  BY DEF PlanSales, listing, buying, account, history
<1>2. /\ sales = {} /\ reads = 0 /\ uneven = {} /\ recorded = {}
      /\ statuses = {} /\ led = pos /\ \A m \in Markets : sold[m] = 0
      /\ marked \in BOOLEAN
  BY <1>1 DEF ProdIInv, Untouched, Shape, TypeOK
<1>3. held = before /\ held \in [Markets -> Int]
  BY <1>1 DEF ProdIInv, AsRead, Shape
<1>4. \A p \in plans' : PlanOK(p)
  <2>1. PICK gs \in SUBSET HeldPairs(held) :
           \E ts \in SUBSET (HeldPairs(held) \ gs) :
              \E t \in Trims(ts) : plans' = Whole(gs) \cup t
    BY DEF PlanSales
  <2>2. PICK ts \in SUBSET (HeldPairs(held) \ gs) :
           \E t \in Trims(ts) : plans' = Whole(gs) \cup t
    BY <2>1
  <2>3. ts \in SUBSET HeldPairs(held)
    BY <2>2
  <2> QED BY <2>2, <2>3, <1>3, PlannedOK
<1>5. marked' \in BOOLEAN /\ (plans' # {} => marked')
  BY <1>1, <1>2 DEF Marked
<1>6. Shape'
  BY <1>1, <1>2, <1>5 DEF ProdIInv, Shape, TypeOK
<1>7. \A m \in Markets : before[m] \in {0, pos[m]}
  BY <1>1 DEF ProdIInv, FirstRead
<1>8. Untouched' /\ FirstRead' /\ AsRead' /\ KeptOff' /\ Evened'
  BY <1>1, <1>2, <1>3 DEF Untouched, FirstRead, AsRead, KeptOff, Evened
<1>9. Plans'
  BY <1>1, <1>4 DEF Plans, PlanOK
<1>10. Sales' /\ Ledger'
  BY <1>1, <1>2, NoSales DEF ProdIInv, Sales, Ledger, Planned
<1>11. Holding'
  BY <1>1, <1>2, <1>3, <1>7 DEF ProdIInv, Holding, Listed
<1>12. Unevenness' /\ Adding' /\ Chosen'
  BY <1>1, <1>2 DEF ProdIInv, Unevenness, Adding, Chosen
<1>13. Recorded'
  BY <1>1, <1>2, <1>5 DEF Recorded
<1>14. Backed'
  <2>1. /\ value \in Values \cup {Unread}
        /\ value \in {Unread, 0} \/ value <= Payout * Contracts(before)
    BY <1>1 DEF ProdIInv, Shape, TypeOK, Backed
  <2>2. before \in [Markets -> Int] /\ pos \in [Markets -> Int]
    BY <1>3 DEF ProdIInv, Shape
  <2>3. \A m \in Markets : Abs(before[m]) <= Abs(pos[m])
    BY <2>2, <1>7 DEF Abs
  <2>4. Counted(value) <= Payout * Contracts(pos)
    BY <2>1, <2>2, <2>3, BackedBy
  <2> QED BY <1>1, <2>1, <2>4 DEF Backed, Counted, Contracts
<1> QED BY <1>6, <1>8, <1>9, <1>10, <1>11, <1>12, <1>13, <1>14 DEF ProdIInv

\* If nothing is to be read back, the sales took nothing.
LEMMA NothingDue ==
    ASSUME NEW ss, \A s \in ss : SaleOK(s), ~ReadBackDue(ss),
           NEW s \in ss, NEW m \in s.legs
    PROVE  s.gone[m] = 0
<1>1. ~s.byAccount /\ SoldTickers(ss) = {}
  BY DEF ReadBackDue
<1>2. ~NeedsPerson(s)
  BY <1>1 DEF SoldTickers
<1>3. DOMAIN s.sold = s.legs /\ ~(s.sold[m] < s.gone[m])
  BY <1>1, <1>2 DEF SaleOK, SaleTold, NeedsPerson
<1>4. s.sold[m] \in Nat /\ s.gone[m] \in Nat
  BY <1>3 DEF SaleOK, SaleShape
<1>5. ~(s.sold[m] > 0)
  BY <1>1, <1>3 DEF SoldTickers
<1> QED BY <1>3, <1>4, <1>5

\* A sale of one position keeps the invariant.
LEMMA SellOneKeeps ==
    ASSUME ProdIInv, SellOne
    PROVE  ProdIInv'
<1> USE DEF Early, Selling, After, Clean
<1>1. PICK p \in plans : \E s \in Outcomes(p) :
         /\ p.legs \cap Planned(sales) = {}
         /\ sales' = sales \cup {s}
         /\ sold' = [m \in Markets |-> IF m \in s.legs THEN s.gone[m]
                                       ELSE sold[m]]
         /\ pos' = [m \in Markets |-> IF m \in s.legs
                                      THEN Less(pos[m], s.gone[m])
                                      ELSE pos[m]]
         /\ uneven' = uneven \cup
               (IF \E m, x \in s.legs : s.gone[m] # s.gone[x] THEN s.legs
                ELSE {})
  BY DEF SellOne
<1>2. PICK s \in Outcomes(p) :
         /\ p.legs \cap Planned(sales) = {}
         /\ sales' = sales \cup {s}
         /\ sold' = [m \in Markets |-> IF m \in s.legs THEN s.gone[m]
                                       ELSE sold[m]]
         /\ pos' = [m \in Markets |-> IF m \in s.legs
                                      THEN Less(pos[m], s.gone[m])
                                      ELSE pos[m]]
         /\ uneven' = uneven \cup
               (IF \E m, x \in s.legs : s.gone[m] # s.gone[x] THEN s.legs
                ELSE {})
  BY <1>1
<1>3. /\ pc = "sell" /\ pc' \in {"sell", "read_back", "record"}
      /\ pc' = "record" => ~ReadBackDue(sales')
      /\ UNCHANGED <<settings, cash, value, held, complete, before, holding,
                     known, plans, reads, pauses, addOns, portfolio, statuses,
                     marked, recorded, exit, led, outside>>
  BY DEF SellOne, listing, buying, report
<1>4. /\ reads = 0 /\ held = before /\ holding = Listed(before)
      /\ exit = "none" /\ statuses = {} /\ marked
  BY <1>3 DEF ProdIInv, Shape, AsRead, Holding, Recorded
<1>5. /\ before \in [Markets -> Int] /\ pos \in [Markets -> Int]
      /\ led \in [Markets -> Int] /\ sold \in [Markets -> Nat]
  BY DEF ProdIInv, Shape
<1>6. PlanOK(p) /\ SaleOK(s) /\ s.legs = p.legs /\ s.legs \subseteq Markets
  BY <1>2, <1>3, OutcomeOK DEF ProdIInv, Plans, PlanOK
<1>7. /\ s.legs \cap Planned(sales) = {}
      /\ Planned(sales') = Planned(sales) \cup s.legs
  BY <1>2, <1>6 DEF Planned
<1>8. ASSUME NEW m \in s.legs
      PROVE  /\ before[m] # 0 /\ before[m] = pos[m] /\ led[m] = pos[m]
             /\ s.gone[m] \in Nat /\ s.gone[m] <= Abs(before[m])
  <2>1. before[m] # 0 /\ p.count <= Abs(before[m]) /\ p.count \in Nat
    BY <1>6 DEF PlanOK
  <2>2. s.gone[m] \in Nat /\ s.gone[m] <= p.count
    BY <1>2, <1>6, OutcomeOK DEF SaleOK, SaleShape
  <2>3. led[m] = pos[m] /\ before[m] \in {0, pos[m]}
    BY <1>3, <1>6, <1>7 DEF ProdIInv, Ledger
  <2> QED BY <2>1, <2>2, <2>3, <1>5, <1>6, AbsIs
<1>9. sold' \in [Markets -> Nat] /\ pos' \in [Markets -> Int]
  <2>1. \A m \in s.legs : Less(pos[m], s.gone[m]) \in Int
    BY <1>5, <1>6, <1>8, LessLeaves
  <2> QED BY <2>1, <1>2, <1>5, <1>8
<1>10. ASSUME NEW m \in s.legs
      PROVE  /\ sold'[m] = s.gone[m] /\ pos'[m] = Less(before[m], sold'[m])
             /\ \/ before[m] > 0 /\ pos'[m] >= 0 /\ led[m] \in pos'[m] .. before[m]
                \/ before[m] < 0 /\ pos'[m] <= 0 /\ led[m] \in before[m] .. pos'[m]
  <2>1. m \in Markets /\ before[m] \in Int /\ led[m] = before[m]
    BY <1>5, <1>6, <1>8
  <2>2. sold'[m] = s.gone[m] /\ pos'[m] = Less(before[m], s.gone[m])
    BY <1>2, <1>6, <1>8
  <2>3. /\ before[m] > 0 => pos'[m] = before[m] - s.gone[m] /\ pos'[m] >= 0
        /\ before[m] <= 0 => pos'[m] = before[m] + s.gone[m] /\ pos'[m] <= 0
    BY <2>1, <2>2, <1>8, LessLeaves
  <2> QED BY <2>1, <2>2, <2>3, <1>8
<1>11. ASSUME NEW m \in Markets \ s.legs
       PROVE  sold'[m] = sold[m] /\ pos'[m] = pos[m]
  BY <1>2
<1>12. Shape'
  <2>1. \A m \in Markets : sold'[m] \in 0 .. Abs(before[m])
    <3>1. ASSUME NEW m \in Markets
          PROVE  sold'[m] \in 0 .. Abs(before[m])
      <4>1. sold[m] \in 0 .. Abs(before[m]) /\ Abs(before[m]) \in Nat
        BY <1>5, AbsIs DEF ProdIInv, Shape, TypeOK
      <4> QED BY <4>1, <1>8, <1>10, <1>11
    <3> QED BY <3>1
  <2>2. TypeOK'
    BY <2>1, <1>3 DEF ProdIInv, Shape, TypeOK
  <2> QED BY <2>2, <1>3, <1>4, <1>9 DEF ProdIInv, Shape
<1>13. Untouched' /\ FirstRead' /\ AsRead' /\ Plans' /\ Adding' /\ Chosen'
  BY <1>3, <1>4 DEF ProdIInv, Untouched, FirstRead, AsRead, Plans, PlanOK, Adding, Chosen
<1>14. \A t \in sales' : SaleOK(t)
  BY <1>2, <1>3, <1>6 DEF ProdIInv, Sales
<1>15. Sales'
  <2>1. ASSUME NEW t \in sales', NEW m \in t.legs
        PROVE  before[m] # 0 /\ sold'[m] = t.gone[m]
    <3>1. CASE t = s
      BY <3>1, <1>8, <1>10
    <3>2. CASE t \in sales
      <4>1. before[m] # 0 /\ sold[m] = t.gone[m]
        BY <3>2, <1>3 DEF ProdIInv, Sales
      <4>2. m \in Markets \ s.legs
        BY <3>2, <1>3, <1>7 DEF ProdIInv, Sales, SaleOK, SaleShape, Planned
      <4> QED BY <4>1, <4>2, <1>11
    <3> QED BY <3>1, <3>2, <1>2
  <2>2. ASSUME NEW t \in sales', NEW u \in sales', t.legs \cap u.legs # {}
        PROVE  t.legs = u.legs
    <3>1. \A v \in sales : v.legs \cap s.legs = {}
      BY <1>7 DEF Planned
    <3> QED BY <3>1, <2>2, <1>2, <1>3 DEF ProdIInv, Sales
  <2>3. ASSUME NEW m \in Markets \ Planned(sales')
        PROVE  sold'[m] = 0
    BY <1>3, <1>7, <1>11 DEF ProdIInv, Sales
  <2> QED BY <1>3, <1>14, <2>1, <2>2, <2>3 DEF Sales
<1>16. Ledger'
  <2>1. ASSUME NEW m \in Planned(sales')
        PROVE  /\ pos'[m] = Less(before[m], sold'[m])
               /\ \/ before[m] > 0 /\ pos'[m] >= 0 /\ led[m] \in pos'[m] .. before[m]
                  \/ before[m] < 0 /\ pos'[m] <= 0 /\ led[m] \in before[m] .. pos'[m]
    <3>1. CASE m \in s.legs
      BY <3>1, <1>10
    <3>2. CASE m \in Planned(sales) \ s.legs
      <4>1. m \in Markets
        BY <3>2, <1>3 DEF Planned, ProdIInv, Sales, SaleOK, SaleShape
      <4> QED BY <4>1, <3>2, <1>3, <1>11 DEF ProdIInv, Ledger
    <3> QED BY <3>1, <3>2, <1>7
  <2>2. ASSUME NEW m \in Markets \ Planned(sales')
        PROVE  led[m] = pos'[m] /\ before[m] \in {0, pos'[m]}
    BY <1>3, <1>7, <1>11 DEF ProdIInv, Ledger
  <2> QED BY <2>1, <2>2, <1>3 DEF Ledger
<1>17. pc' = "record" => \A t \in sales' : \A m \in t.legs : t.gone[m] = 0
  BY <1>3, <1>14, NothingDue
<1>18. pc' = "record" =>
         \A m \in Markets : sold'[m] = 0 /\ (before[m] # 0 => pos'[m] = before[m])
  <2>1. ASSUME pc' = "record", NEW m \in Markets
        PROVE  sold'[m] = 0 /\ (before[m] # 0 => pos'[m] = before[m])
    <3>1. CASE m \in Planned(sales')
      <4>1. PICK t \in sales' : m \in t.legs
        BY <3>1 DEF Planned
      <4>2. sold'[m] = 0
        BY <4>1, <1>15, <1>17, <1>3, <2>1 DEF Sales
      <4>3. pos'[m] = Less(before[m], 0)
        BY <4>2, <3>1, <1>16, <1>3 DEF Ledger
      <4> QED BY <4>2, <4>3, <1>5 DEF Less
    <3>2. CASE m \notin Planned(sales')
      BY <3>2, <1>15, <1>16, <1>3 DEF Sales, Ledger
    <3> QED BY <3>1, <3>2
  <2> QED BY <2>1
<1>19. pc' = "record" => \A m \in Markets : before[m] # 0 => led[m] = before[m]
  <2>1. ASSUME pc' = "record", NEW m \in Markets, before[m] # 0
        PROVE  led[m] = before[m]
    <3>1. pos'[m] = before[m] /\ before[m] \in Int
      BY <2>1, <1>18, <1>5
    <3> QED BY <3>1, <2>1, <1>16, <1>3 DEF Ledger
  <2> QED BY <2>1
<1>20. Holding'
  BY <1>3, <1>4, <1>19 DEF ProdIInv, Holding, Listed
<1>21. KeptOff' /\ Evened'
  <2>1. pc' = "record" => \A t \in sales' : \A m \in t.legs : t.gone[m] \in Nat
    BY <1>14 DEF SaleOK, SaleShape
  <2> QED BY <1>3, <1>4, <1>17, <2>1 DEF KeptOff, Evened, Uneven
<1>22. Unevenness'
  BY <1>2, <1>3, <1>4 DEF ProdIInv, Unevenness, Uneven
<1>23. Backed'
  <2>1. /\ value \in Values \cup {Unread}
        /\ value \in {Unread, 0} \/ value <= Payout * Contracts(before)
    BY <1>3 DEF ProdIInv, Shape, TypeOK, Backed
  <2>2. ASSUME pc' = "record"
        PROVE  Counted(value) <= Payout * Contracts(pos')
    <3>1. \A m \in Markets : Abs(before[m]) <= Abs(pos'[m])
      BY <2>2, <1>5, <1>9, <1>18 DEF Abs
    <3> QED BY <3>1, <2>1, <1>5, <1>9, BackedBy
  <2> QED BY <2>1, <2>2, <1>3 DEF Backed, Counted, Contracts
<1>24. Recorded'
  BY <1>3, <1>4 DEF ProdIInv, Recorded
<1> QED BY <1>12, <1>13, <1>15, <1>16, <1>20, <1>21, <1>22, <1>23, <1>24
       DEF ProdIInv

\* A flagged sale is the sale, but for its status.
LEMMA FlaggedIs ==
    ASSUME NEW ss, \A s \in ss : SaleOK(s), NEW more
    PROVE  /\ \A t \in Flagged(ss, more) : \E s \in ss :
                 /\ t.legs = s.legs /\ t.gone = s.gone /\ t.sold = s.sold
                 /\ t.byAccount = s.byAccount /\ SaleOK(t)
                 /\ DOMAIN s.sold \cap more # {} => t.status = "manual_review"
           /\ \A s \in ss : \E t \in Flagged(ss, more) :
                 t.legs = s.legs /\ t.gone = s.gone /\ t.sold = s.sold
           /\ Planned(Flagged(ss, more)) = Planned(ss)
<1> DEFINE F(s) == IF DOMAIN s.sold \cap more = {} THEN s
                   ELSE [s EXCEPT !.status = "manual_review"]
<1>1. Flagged(ss, more) = {F(s) : s \in ss}
  BY DEF Flagged
<1>2. ASSUME NEW s \in ss
      PROVE  /\ F(s).legs = s.legs /\ F(s).gone = s.gone /\ F(s).sold = s.sold
             /\ F(s).byAccount = s.byAccount /\ SaleOK(F(s))
             /\ DOMAIN s.sold \cap more # {} => F(s).status = "manual_review"
  <2>1. SaleOK(s)
    OBVIOUS
  <2>2. CASE DOMAIN s.sold \cap more = {}
    <3>1. F(s) = s
      BY <2>2
    <3> QED BY <2>1, <2>2, <3>1
  <2>3. CASE DOMAIN s.sold \cap more # {}
    <3>1. s = Outcome(s, s.gone, s.sold, s.byAccount, s.status)
      BY <2>1 DEF SaleOK, SaleShape
    <3>2. F(s) = Outcome(s, s.gone, s.sold, s.byAccount, "manual_review")
      BY <2>3, <3>1 DEF Outcome
    <3> DEFINE t == F(s)
    <3>3. /\ t.legs = s.legs /\ t.gone = s.gone /\ t.sold = s.sold
          /\ t.byAccount = s.byAccount /\ t.status = "manual_review"
          /\ t = Outcome(t, t.gone, t.sold, t.byAccount, t.status)
      BY <3>2 DEF Outcome
    <3> HIDE DEF t, F
    <3>4. SaleShape(t)
      BY <2>1, <3>3 DEF SaleOK, SaleShape, Said
    <3>5. SaleTold(t)
      BY <2>1, <3>3 DEF SaleOK, SaleTold, NeedsPerson
    <3> QED BY <3>3, <3>4, <3>5 DEF SaleOK, t
  <2> QED BY <2>2, <2>3
<1> HIDE DEF F
<1>3. \A s \in ss : F(s) \in Flagged(ss, more)
  BY <1>1
<1>4. \A t \in Flagged(ss, more) : \E s \in ss : t = F(s)
  BY <1>1
<1>5. Planned(Flagged(ss, more)) = Planned(ss)
  BY <1>2, <1>3, <1>4 DEF Planned
<1> QED BY <1>2, <1>3, <1>4, <1>5

\* A listing moves the ledger towards the account, never past it.
LEMMA LedgerMoves ==
    ASSUME ProdIInv, ReadBack
    PROVE  /\ led' \in [Markets -> Int] /\ complete' \in BOOLEAN
           /\ held' \in [Markets -> Int]
           /\ \A m \in Markets : held'[m] \in {0, led'[m]}
           /\ complete' => held' = led'
           /\ \A m \in Planned(sales) :
                 \/ before[m] > 0 /\ pos[m] >= 0 /\ led'[m] \in pos[m] .. before[m]
                 \/ before[m] < 0 /\ pos[m] <= 0 /\ led'[m] \in before[m] .. pos[m]
           /\ \A m \in Markets \ Planned(sales) : led'[m] = pos[m]
<1> USE DEF Selling
<1>1. PICK full \in BOOLEAN,
           shows \in [Trailing -> UNION {0 .. Behind(m) : m \in Trailing}] :
         /\ \A m \in Trailing : shows[m] <= Behind(m)
         /\ led' = [m \in Markets |-> IF m \in Trailing
                                       THEN Less(led[m], shows[m]) ELSE led[m]]
         /\ complete' = full
         /\ held' \in Listings(led', full)
  BY DEF ReadBack
<1>2. pc = "read_back"
  BY DEF ReadBack
<1>3. /\ pos \in [Markets -> Int] /\ led \in [Markets -> Int]
      /\ before \in [Markets -> Int]
  BY DEF ProdIInv, Shape
<1>4. ASSUME NEW m \in Trailing
      PROVE  shows[m] \in Nat /\ shows[m] <= Abs(led[m] - pos[m])
  <2>1. PICK x \in Trailing : shows[m] \in 0 .. Behind(x)
    BY <1>1, <1>4
  <2>2. Behind(x) \in Int
    BY <1>3 DEF Behind, Abs, Trailing
  <2> QED BY <2>1, <2>2, <1>1, <1>4 DEF Behind
<1>5. led' \in [Markets -> Int]
  <2>1. \A m \in Trailing : Less(led[m], shows[m]) \in Int
    BY <1>3, <1>4 DEF Trailing, Less
  <2> QED BY <2>1, <1>1, <1>3
<1>6. Planned(sales) \subseteq Markets
  BY <1>2 DEF ProdIInv, Sales, Planned, SaleOK, SaleShape
<1>7. ASSUME NEW m \in Planned(sales)
      PROVE  \/ before[m] > 0 /\ pos[m] >= 0 /\ led'[m] \in pos[m] .. before[m]
             \/ before[m] < 0 /\ pos[m] <= 0 /\ led'[m] \in before[m] .. pos[m]
  <2>1. \/ before[m] > 0 /\ pos[m] >= 0 /\ led[m] \in pos[m] .. before[m]
        \/ before[m] < 0 /\ pos[m] <= 0 /\ led[m] \in before[m] .. pos[m]
    BY <1>2 DEF ProdIInv, Ledger
  <2>2. m \in Markets /\ pos[m] \in Int /\ led[m] \in Int /\ before[m] \in Int
    BY <1>3, <1>6
  <2>3. CASE m \notin Trailing
    BY <2>1, <2>2, <2>3, <1>1
  <2>4. CASE m \in Trailing
    <3>1. /\ led'[m] = Less(led[m], shows[m]) /\ led[m] # pos[m]
          /\ shows[m] \in Nat /\ shows[m] <= Abs(led[m] - pos[m])
      BY <2>2, <2>4, <1>1, <1>4 DEF Trailing
    <3> QED BY <2>1, <2>2, <3>1 DEF Less, Abs
  <2> QED BY <2>3, <2>4
<1>8. ASSUME NEW m \in Markets \ Planned(sales)
      PROVE  led'[m] = pos[m]
  BY <1>1, <1>2 DEF ProdIInv, Ledger, Trailing
<1>9. /\ held' \in [Markets -> Int]
      /\ \A m \in Markets : held'[m] \in {0, led'[m]}
      /\ complete' => held' = led'
  <2> DEFINE l == led'  h == held'
  <2>1. l \in [Markets -> Int] /\ h \in Listings(l, full)
    BY <1>1, <1>5
  <2> HIDE DEF l, h
  <2>2. /\ h \in [Markets -> Int] /\ \A m \in Markets : h[m] \in {0, l[m]}
        /\ full => h = l
    BY <2>1, ListingIs
  <2> QED BY <2>2, <1>1 DEF l, h
<1> QED BY <1>1, <1>5, <1>7, <1>8, <1>9

\* A compared sale that shows less is late, and one counted by the account that
\* shows more is one of those.
LEMMA LateOrMore ==
    ASSUME NEW ss, NEW h, NEW full, NEW s \in ss, NEW m \in Compared(s, h, full)
    PROVE  /\ Shown(m, h) < s.sold[m] => m \in Late(ss, h, full)
           /\ Shown(m, h) > s.sold[m] /\ s.byAccount => m \in More(ss, h, full)
BY DEF Late, More

\* What a whole listing compared with the sales shows of one market.
LEMMA ShownIs ==
    ASSUME ProdIInv, ReadBack, NEW s \in sales, NEW m \in DOMAIN s.sold,
           complete', s.sold[m] > 0 \/ s.byAccount
    PROVE  /\ m \in Compared(s, held', complete')
           /\ Shown(m, held') = Abs(before[m]) - Abs(led'[m])
           /\ Shown(m, held') >= 0
<1>1. SaleOK(s) /\ m \in s.legs /\ m \in Markets /\ m \in Planned(sales)
      /\ before[m] # 0
  BY DEF ReadBack, ProdIInv, Sales, SaleOK, SaleShape, Planned
<1>2. before[m] \in Int /\ led'[m] \in Int /\ pos[m] \in Int
  BY <1>1, LedgerMoves DEF ProdIInv, Shape
<1>3. held'[m] = led'[m]
  BY LedgerMoves
<1>4. m \in Compared(s, held', complete')
  BY <1>1 DEF Compared
<1>5. \/ before[m] > 0 /\ pos[m] >= 0 /\ led'[m] \in pos[m] .. before[m]
      \/ before[m] < 0 /\ pos[m] <= 0 /\ led'[m] \in before[m] .. pos[m]
  BY <1>1, LedgerMoves
<1>6. /\ Shown(m, held') = Abs(before[m]) - Abs(led'[m])
      /\ Shown(m, held') >= 0
  BY <1>2, <1>3, <1>5 DEF Shown, Abs
<1> QED BY <1>4, <1>6

\* A sale that a whole, settled listing neither contradicts nor flags is told
\* as it was, on every market.
LEMMA ToldAsItWas ==
    ASSUME ProdIInv, ReadBack, NEW s \in sales, ~NeedsPerson(s),
           DOMAIN s.sold \cap More(sales, held', complete') = {},
           complete', NEW m \in s.legs,
           Abs(led'[m]) = Abs(before[m]) - s.gone[m]
    PROVE  s.sold[m] = s.gone[m] /\ m \in DOMAIN s.sold
<1>1. SaleOK(s)
  BY DEF ReadBack, ProdIInv, Sales
<1>2. DOMAIN s.sold = s.legs /\ (s.sold[m] < s.gone[m] => s.byAccount)
  BY <1>1 DEF SaleOK, SaleTold, NeedsPerson
<1>3. s.sold[m] \in Nat /\ s.gone[m] \in Nat /\ s.sold[m] <= s.gone[m]
  BY <1>1, <1>2 DEF SaleOK, SaleShape, SaleTold
<1>4. ASSUME s.sold[m] < s.gone[m] PROVE FALSE
  <2>1. s.byAccount
    BY <1>2, <1>4
  <2>2. /\ m \in Compared(s, held', complete')
        /\ Shown(m, held') = Abs(before[m]) - Abs(led'[m])
    BY <1>2, <2>1, ShownIs
  <2>3. Abs(before[m]) \in Int
    BY <1>1, AbsIs DEF SaleOK, SaleShape, ProdIInv, Shape
  <2>4. Shown(m, held') > s.sold[m]
    BY <2>2, <2>3, <1>3, <1>4
  <2>5. m \in More(sales, held', complete')
    BY <2>1, <2>2, <2>4, LateOrMore
  <2> QED BY <2>5, <1>2
<1> QED BY <1>2, <1>3, <1>4

\* A value kept above zero is one no sale is late for, of a whole listing.
LEMMA KeptIs ==
    ASSUME NEW v \in Values, NEW h, NEW full \in BOOLEAN, NEW late,
           NEW soldAny \in BOOLEAN
    PROVE  /\ Kept(v, h, full, late, soldAny) \in Values \cup {Unread}
           /\ Kept(v, h, full, late, soldAny) \notin {Unread, 0} =>
                 /\ late = {} /\ full
                 /\ Kept(v, h, full, late, soldAny) <= Payout * Contracts(h)
<1>1. CASE /\ v \notin {Unread, 0}
           /\ late # {} \/ (soldAny /\ value # Unread /\ v >= value)
  BY <1>1 DEF Kept
<1>2. CASE ~ (/\ v \notin {Unread, 0}
              /\ late # {} \/ (soldAny /\ value # Unread /\ v >= value))
  <2>1. Kept(v, h, full, late, soldAny) = Checked(v, h, full)
    BY <1>2 DEF Kept
  <2>2. v \in {Unread, 0} \/ late = {}
    BY <1>2
  <2> QED BY <2>1, <2>2, CheckedIs
<1> QED BY <1>1, <1>2

\* A value kept after the sales is backed by what the account holds, if its
\* ledger shows the sales or they were told as they were.
LEMMA KeptIsBacked ==
    ASSUME ProdIInv, ReadBack, NEW v \in Values, NEW soldAny \in BOOLEAN,
           led' = pos \/ \A s \in sales : s.sold = s.gone
    PROVE  Counted(Kept(v, held', complete', Late(sales, held', complete'),
                        soldAny)) <= Payout * Contracts(pos)
<1> DEFINE late == Late(sales, held', complete')
           k == Kept(v, held', complete', late, soldAny)
           h == held'
           l == led'
<1>1. /\ l \in [Markets -> Int] /\ h \in [Markets -> Int]
      /\ pos \in [Markets -> Int] /\ before \in [Markets -> Int]
      /\ complete' \in BOOLEAN
  BY LedgerMoves DEF ProdIInv, Shape
<1>2. /\ k \in Values \cup {Unread}
      /\ k \notin {Unread, 0} =>
            late = {} /\ complete' /\ k <= Payout * Contracts(h)
  BY <1>1, KeptIs
<1>3. CASE k \in {Unread, 0}
  <2>1. \A m \in Markets : Abs(pos[m]) <= Abs(pos[m])
    BY <1>1, AbsIs
  <2> HIDE DEF k
  <2> QED BY <1>1, <1>2, <1>3, <2>1, BackedBy DEF k
<1>4. CASE k \notin {Unread, 0}
  <2>1. late = {} /\ complete' /\ k <= Payout * Contracts(h) /\ h = l
    BY <1>2, <1>4, LedgerMoves
  <2>2. ASSUME NEW m \in Markets
        PROVE  Abs(l[m]) <= Abs(pos[m])
    <3>1. CASE l[m] = pos[m]
      BY <3>1, <1>1, AbsIs
    <3>2. CASE l[m] # pos[m]
      <4>1. m \in Planned(sales) /\ \A s \in sales : s.sold = s.gone
        BY <3>2, LedgerMoves
      <4>2. PICK s \in sales : m \in s.legs
        BY <4>1 DEF Planned
      <4>3. /\ SaleOK(s) /\ sold[m] = s.gone[m] /\ before[m] # 0
            /\ pos[m] = Less(before[m], sold[m])
        BY <4>1, <4>2 DEF ReadBack, ProdIInv, Sales, Ledger, Selling
      <4>4. /\ s.gone[m] \in Nat /\ s.sold[m] = s.gone[m]
            /\ m \in DOMAIN s.sold
        BY <4>1, <4>2, <4>3 DEF SaleOK, SaleShape
      <4>5. s.gone[m] # 0
        <5>1. \/ before[m] > 0 /\ pos[m] >= 0 /\ l[m] \in pos[m] .. before[m]
              \/ before[m] < 0 /\ pos[m] <= 0 /\ l[m] \in before[m] .. pos[m]
          BY <4>1, LedgerMoves
        <5> QED BY <5>1, <4>3, <1>1, <3>2 DEF Less
      <4>6. /\ m \in Compared(s, h, complete')
            /\ Shown(m, h) = Abs(before[m]) - Abs(l[m])
        <5>1. s.sold[m] > 0
          BY <4>4, <4>5
        <5> QED BY <4>4, <5>1, <2>1, ShownIs
      <4>7. ~(Shown(m, h) < s.sold[m])
        BY <4>6, <2>1, LateOrMore
      <4>8. s.gone[m] <= Abs(before[m])
        BY <4>3 DEF ProdIInv, Shape, TypeOK
      <4>9. Abs(before[m]) = s.gone[m] + Abs(pos[m])
        BY <4>3, <4>4, <4>8, <1>1, LessLeaves
      <4> QED BY <4>4, <4>6, <4>7, <4>9, <1>1, AbsIs
    <3> QED BY <3>1, <3>2
  <2> HIDE DEF k, h, l
  <2> QED BY <1>1, <1>2, <2>1, <2>2, BackedBy DEF k
<1> QED BY <1>3, <1>4

\* Reading the account back, not for the last time, keeps the invariant.
LEMMA ReadAgainKeeps ==
    ASSUME ProdIInv, ReadBack,
           ~LastRead(reads, pauses', More(sales, held', complete'))
    PROVE  ProdIInv'
<1> USE DEF Early, Selling, After, Clean
<1>1. /\ pc = "read_back" /\ reads' = reads + 1
      /\ UNCHANGED <<pc, sales, cash, value, holding, known, settings, before,
                     plans, addOns, portfolio, statuses, marked, recorded, exit,
                     pos, sold, uneven, outside>>
  BY DEF ReadBack, buying, report, history
<1>2. /\ pauses' \in 0 .. Rechecks /\ reads' \in 1 .. pauses'
      /\ reads' \in 0 .. Rechecks + 1
  <2>1. reads \in Nat /\ pauses \in 0 .. Rechecks /\ (reads = 0 \/ reads <= pauses)
    BY <1>1 DEF ProdIInv, Shape, TypeOK
  <2>2. Rechecks \in Nat \ {0}
    BY ProdRunAssumption
  <2>3. \/ reads # 0 /\ pauses' = pauses
        \/ reads = 0 /\ pauses' \in {0, 1, Rechecks}
    <3> DEFINE late == Late(sales, held', complete')
               more == More(sales, held', complete')
    <3>1. pauses' = IF reads = 0 THEN Pauses(late, more) ELSE pauses
      BY DEF ReadBack
    <3> HIDE DEF late, more
    <3>2. Pauses(late, more) \in {0, 1, Rechecks}
      BY DEF Pauses
    <3> QED BY <3>1, <3>2
  <2>4. reads # pauses'
    BY DEF LastRead
  <2> QED BY <2>1, <2>2, <2>3, <2>4, <1>1
<1>3. Shape'
  <2>1. TypeOK'
    BY <1>1, <1>2, LedgerMoves DEF ProdIInv, Shape, TypeOK
  <2> QED BY <2>1, <1>1, <1>2, LedgerMoves DEF ProdIInv, Shape
<1>4. Untouched' /\ FirstRead' /\ AsRead' /\ Plans' /\ KeptOff' /\ Adding' /\ Chosen'
  BY <1>1, <1>2 DEF ProdIInv, Untouched, FirstRead, AsRead, Plans, PlanOK, KeptOff,
                    Adding, Chosen
<1>5. Sales'
  BY <1>1 DEF ProdIInv, Sales, SaleOK, Planned
<1>6. Ledger'
  BY <1>1, LedgerMoves DEF ProdIInv, Ledger, Planned
<1>7. Holding' /\ Evened' /\ Unevenness'
  BY <1>1 DEF ProdIInv, Shape, Holding, Listed, Evened, Unevenness
<1>8. Backed' /\ Recorded'
  BY <1>1 DEF ProdIInv, Backed, Recorded, Contracts
<1> QED BY <1>3, <1>4, <1>5, <1>6, <1>7, <1>8 DEF ProdIInv

\* The last reading keeps the invariant.
LEMMA ReadLastKeeps ==
    ASSUME ProdIInv, ReadBack,
           LastRead(reads, pauses', More(sales, held', complete'))
    PROVE  ProdIInv'
<1> USE DEF Early, Selling, After, Clean
<1> DEFINE late == Late(sales, held', complete')
           more == More(sales, held', complete')
<1>1. /\ pc = "read_back" /\ pc' = "record" /\ reads' = reads + 1
      /\ pauses' = IF reads = 0 THEN Pauses(late, more) ELSE pauses
      /\ UNCHANGED <<settings, before, plans, addOns, portfolio, statuses,
                     marked, recorded, exit, pos, sold, uneven, outside>>
  BY DEF ReadBack, buying, report, history
<1>2. /\ sales' = Flagged(sales, more)
      /\ cash' = cash + Total(sold, Markets)
      /\ value' \in {Kept(v, held', complete', late, SoldTickers(sales') # {}) :
                        v \in Values}
      /\ holding' = Listed(held') \cup (IF complete' THEN {} ELSE holding)
      /\ known' = (holding' \subseteq holding)
  BY DEF ReadBack
<1>3. /\ holding = Listed(before) /\ exit = "none" /\ statuses = {} /\ marked
      /\ portfolio \subseteq Pairs /\ reads \in Nat
  BY <1>1 DEF ProdIInv, Shape, TypeOK, Holding, Recorded
<1>4. /\ before \in [Markets -> Int] /\ pos \in [Markets -> Int]
      /\ sold \in [Markets -> Nat] /\ \A s \in sales : SaleOK(s)
  BY <1>1 DEF ProdIInv, Shape, Sales
<1>5. /\ \A t \in sales' : \E s \in sales :
            /\ t.legs = s.legs /\ t.gone = s.gone /\ t.sold = s.sold
            /\ t.byAccount = s.byAccount /\ SaleOK(t)
            /\ DOMAIN s.sold \cap more # {} => t.status = "manual_review"
      /\ \A s \in sales : \E t \in sales' :
            t.legs = s.legs /\ t.gone = s.gone /\ t.sold = s.sold
      /\ Planned(sales') = Planned(sales)
  <2> DEFINE F == Flagged(sales, more)
  <2> HIDE DEF more
  <2>1. /\ \A t \in F : \E s \in sales :
              /\ t.legs = s.legs /\ t.gone = s.gone /\ t.sold = s.sold
              /\ t.byAccount = s.byAccount /\ SaleOK(t)
              /\ DOMAIN s.sold \cap more # {} => t.status = "manual_review"
        /\ \A s \in sales : \E t \in F :
              t.legs = s.legs /\ t.gone = s.gone /\ t.sold = s.sold
        /\ Planned(F) = Planned(sales)
    BY <1>4, FlaggedIs, Zenon
  <2>2. sales' = F
    BY <1>2
  <2> HIDE DEF F
  <2> QED BY <2>1, <2>2, Zenon
<1>6. Sales'
  <2>1. ASSUME NEW t \in sales'
        PROVE  SaleOK(t) /\ \A m \in t.legs : before[m] # 0 /\ sold[m] = t.gone[m]
    <3>1. PICK s \in sales : t.legs = s.legs /\ t.gone = s.gone /\ SaleOK(t)
      BY <1>5
    <3> QED BY <3>1, <1>1 DEF ProdIInv, Sales
  <2>2. ASSUME NEW t \in sales', NEW u \in sales', t.legs \cap u.legs # {}
        PROVE  t.legs = u.legs
    <3>1. PICK s \in sales : t.legs = s.legs
      BY <1>5
    <3>2. PICK r \in sales : u.legs = r.legs
      BY <1>5
    <3> QED BY <3>1, <3>2, <2>2, <1>1 DEF ProdIInv, Sales
  <2>3. ASSUME NEW m \in Markets \ Planned(sales')
        PROVE  sold[m] = 0
    BY <1>1, <1>5 DEF ProdIInv, Sales
  <2> QED BY <1>1, <2>1, <2>2, <2>3 DEF Sales
<1>7. Ledger'
  <2>1. ASSUME NEW m \in Planned(sales)
        PROVE  pos[m] = Less(before[m], sold[m])
    BY <1>1 DEF ProdIInv, Ledger
  <2>2. ASSUME NEW m \in Markets \ Planned(sales)
        PROVE  before[m] \in {0, pos[m]}
    BY <1>1 DEF ProdIInv, Ledger
  <2> QED BY <1>1, <1>5, <2>1, <2>2, LedgerMoves DEF Ledger
<1>8. Holding'
  <2>1. /\ \A m \in Markets : held'[m] \in {0, led'[m]}
        /\ complete' => held' = led'
    BY LedgerMoves
  <2>2. Listed(held') \subseteq holding' /\ (complete' => holding' = Listed(held'))
    BY <1>2
  <2>3. ASSUME NEW m \in Listed(before)
        PROVE  m \in holding' \/ (complete' /\ held'[m] = 0)
    BY <1>2, <1>3 DEF Listed
  <2>4. holding' \subseteq Markets
    BY <1>2, <1>3 DEF Listed
  <2> QED BY <2>1, <2>2, <2>3, <2>4, <1>1, <1>3 DEF Holding, Listed
<1>9. KeptOff'
  <2>1. SUFFICES ASSUME NEW t \in sales', NEW m \in t.legs, t.gone[m] > 0,
                        m \notin holding', m \notin SoldTickers(sales')
                 PROVE  FALSE
    BY DEF KeptOff
  <2>2. PICK s \in sales :
            /\ t.legs = s.legs /\ t.gone = s.gone /\ t.sold = s.sold
            /\ t.byAccount = s.byAccount /\ SaleOK(t)
            /\ DOMAIN s.sold \cap more # {} => t.status = "manual_review"
    BY <1>5
  <2>3. ~NeedsPerson(t) /\ ~(m \in DOMAIN t.sold /\ t.sold[m] > 0)
    BY <2>1 DEF SoldTickers
  <2>4. DOMAIN s.sold \cap more = {}
    BY <2>2, <2>3 DEF NeedsPerson
  <2>5. /\ DOMAIN t.sold = t.legs /\ (t.sold[m] < t.gone[m] => t.byAccount)
        /\ t.sold[m] \in Nat /\ t.gone[m] \in Nat
    BY <2>2, <2>3 DEF SaleOK, SaleShape, SaleTold, NeedsPerson
  <2>6. t.byAccount /\ t.sold[m] = 0
    BY <2>1, <2>3, <2>5
  <2>7. m \in Markets /\ before[m] # 0 /\ before[m] \in Int
    BY <2>2, <1>1, <1>4 DEF ProdIInv, Sales, SaleOK, SaleShape
  <2>8. complete' /\ held'[m] = 0
    BY <2>1, <2>7, <1>2, <1>3 DEF Listed
  <2>9. m \in Compared(s, held', complete') /\ led'[m] = 0
    <3>1. led'[m] = 0
      BY <2>8, LedgerMoves
    <3> QED BY <3>1, <2>2, <2>5, <2>6, <2>8, ShownIs
  <2>10. Shown(m, held') = Abs(before[m]) /\ Abs(before[m]) > 0
    <3>1. Shown(m, held') = Abs(before[m]) - Abs(led'[m])
      BY <2>2, <2>5, <2>6, <2>8, ShownIs
    <3> QED BY <3>1, <2>7, <2>9 DEF Abs
  <2>11. m \in more
    BY <2>2, <2>6, <2>9, <2>10, LateOrMore
  <2> QED BY <2>2, <2>4, <2>5, <2>11
<1>10. Evened'
  <2>1. reads' # 0
    BY <1>1, <1>3
  <2>2. ASSUME complete', NEW t \in sales', ~NeedsPerson(t),
               \A m \in Planned(sales') : led'[m] = Less(before[m], sold[m]),
               NEW m \in t.legs, NEW x \in t.legs
        PROVE  t.gone[m] = t.gone[x]
    <3>1. PICK s \in sales :
              /\ t.legs = s.legs /\ t.gone = s.gone /\ t.sold = s.sold
              /\ t.byAccount = s.byAccount /\ SaleOK(t)
              /\ DOMAIN s.sold \cap more # {} => t.status = "manual_review"
      BY <1>5
    <3>2. DOMAIN s.sold \cap more = {}
      BY <3>1, <2>2 DEF NeedsPerson
    <3>3. ASSUME NEW y \in t.legs
          PROVE  t.sold[y] = t.gone[y]
      <4>1. /\ y \in Markets /\ y \in Planned(sales') /\ sold[y] = t.gone[y]
            /\ t.gone[y] \in Nat
        BY <3>1, <1>1 DEF ProdIInv, Sales, SaleOK, SaleShape, Planned
      <4>2. led'[y] = Less(before[y], t.gone[y]) /\ t.gone[y] <= Abs(before[y])
        BY <4>1, <2>2 DEF ProdIInv, Shape, TypeOK
      <4>3. Abs(led'[y]) = Abs(before[y]) - t.gone[y]
        <5>1. before[y] \in Int
          BY <4>1, <1>4
        <5>2. /\ Abs(before[y]) = t.gone[y] + Abs(Less(before[y], t.gone[y]))
              /\ Less(before[y], t.gone[y]) \in Int
          BY <4>1, <4>2, <5>1, LessLeaves
        <5> QED BY <4>1, <4>2, <5>2, AbsIs
      <4>4. /\ DOMAIN t.sold = t.legs /\ (t.sold[y] < t.gone[y] => t.byAccount)
            /\ t.sold[y] \in Nat /\ t.sold[y] <= t.gone[y]
        BY <3>1, <2>2 DEF SaleOK, SaleShape, SaleTold, NeedsPerson
      <4>5. ASSUME t.sold[y] < t.gone[y] PROVE FALSE
        <5>1. y \in DOMAIN s.sold /\ s.byAccount
          BY <4>4, <4>5, <3>1
        <5>2. /\ y \in Compared(s, held', complete')
              /\ Shown(y, held') = Abs(before[y]) - Abs(led'[y])
          BY <5>1, <2>2, ShownIs
        <5>3. Abs(before[y]) \in Int
          BY <4>1, <1>4, AbsIs
        <5>4. Shown(y, held') > s.sold[y]
          BY <5>2, <5>3, <4>1, <4>3, <4>4, <4>5, <3>1
        <5>5. y \in more
          BY <5>1, <5>2, <5>4, LateOrMore
        <5> QED BY <5>1, <5>5, <3>2
      <4> QED BY <4>1, <4>4, <4>5
    <3>4. t.sold[m] = t.sold[x]
      BY <3>1, <2>2 DEF SaleOK, SaleTold
    <3> QED BY <3>3, <3>4
  <2> QED BY <2>1, <2>2, <1>1 DEF Evened, Uneven
<1>11. Unevenness'
  <2>1. uneven' # {} => \E s \in sales : Uneven(s)
    BY <1>1, <1>3 DEF ProdIInv, Unevenness
  <2>2. (\E s \in sales : Uneven(s)) => \E t \in sales' : Uneven(t)
    BY <1>5 DEF Uneven
  <2> QED BY <2>1, <2>2, <1>1, <1>3 DEF Unevenness
<1>12. value' \in Values \cup {Unread} /\ Backed'
  <2>1. PICK v \in Values :
           value' = Kept(v, held', complete', late, SoldTickers(sales') # {})
    BY <1>2
  <2> DEFINE any == SoldTickers(sales') # {}
  <2>2. any \in BOOLEAN
    OBVIOUS
  <2>3. value' \in Values \cup {Unread}
    <3> HIDE DEF any, late
    <3> QED BY <2>1, <2>2, LedgerMoves, KeptIs DEF any
  <2>4. ASSUME led' = pos \/ \A t \in sales' : t.sold = t.gone
        PROVE  Counted(value') <= Payout * Contracts(pos)
    <3>1. led' = pos \/ \A s \in sales : s.sold = s.gone
      <4>1. ASSUME NEW s \in sales, \A t \in sales' : t.sold = t.gone
            PROVE  s.sold = s.gone
        BY <4>1, <1>5
      <4> QED BY <4>1, <2>4
    <3> HIDE DEF any
    <3> QED BY <3>1, <2>1, <2>2, KeptIsBacked DEF any
  <2> QED BY <2>3, <2>4, <1>1 DEF Backed, Settled, Counted, Contracts
<1>13. Recorded'
  BY <1>1, <1>3 DEF ProdIInv, Recorded
<1>14. Shape'
  <2>1. cash' \in Nat
    <3>1. Total(sold, Markets) \in Nat
      BY <1>4, ProdRunAssumption, TotalIsNat
    <3> QED BY <3>1, <1>2 DEF ProdIInv, Shape, TypeOK
  <2>2. known' \in BOOLEAN
    BY <1>2
  <2>3. pauses' \in 0 .. Rechecks /\ reads' \in 0 .. Rechecks + 1
    <3>1. Pauses(late, more) \in {0, 1, Rechecks}
      BY DEF Pauses
    <3>2. /\ Rechecks \in Nat \ {0} /\ pauses \in 0 .. Rechecks
          /\ reads \in 0 .. Rechecks
      BY <1>1, ProdRunAssumption DEF ProdIInv, Shape, TypeOK
    <3> HIDE DEF late, more
    <3> QED BY <3>1, <3>2, <1>1
  <2>4. /\ holding' \subseteq Markets /\ complete' \in BOOLEAN
        /\ held' \in [Markets -> Int] /\ led' \in [Markets -> Int]
    BY <1>8, LedgerMoves DEF Holding
  <2>5. TypeOK'
    <3> HIDE DEF late, more
    <3> QED BY <2>1, <2>2, <2>3, <2>4, <1>1, <1>12 DEF ProdIInv, Shape, TypeOK
  <2> QED BY <2>4, <2>5, <1>1, <1>3 DEF ProdIInv, Shape
<1>15. Untouched' /\ FirstRead' /\ AsRead' /\ Plans' /\ Adding' /\ Chosen'
  BY <1>1, <1>3 DEF ProdIInv, Untouched, FirstRead, AsRead, Plans, Adding, Chosen
<1> QED BY <1>6, <1>7, <1>8, <1>9, <1>10, <1>11, <1>12, <1>13, <1>14, <1>15
       DEF ProdIInv

\* Writing the sales down, or stopping for want of it, keeps the invariant.
LEMMA RecordSalesKeeps ==
    ASSUME ProdIInv, RecordSales
    PROVE  ProdIInv'
<1> USE DEF Early, Selling, After, Clean
<1>1. /\ pc = "record" /\ recorded' = recorded \cup {"sales"}
      /\ UNCHANGED <<settings, cash, value, listing, selling, buying, marked,
                     account, history>>
      /\ (pc' = "search" /\ exit' = exit) \/ (pc' = "done" /\ exit' = "raised")
  BY DEF RecordSales, Exit
<1>2. UNCHANGED <<settings, cash, value, held, complete, before, holding, known,
                  plans, sales, reads, pauses, addOns, portfolio, statuses,
                  marked, pos, led, sold, uneven, outside>>
  BY <1>1 DEF listing, selling, buying, account, history
<1>3. /\ recorded \subseteq {"sales", "trades"} /\ statuses = {}
      /\ exit = "none" /\ marked
  BY <1>1 DEF ProdIInv, Shape, TypeOK, Recorded
<1>4. CASE pc' = "done"
  BY <1>1, <1>3, <1>4, StoppingKeeps
<1>5. CASE pc' = "search"
  <2>1. Shape'
    <3>1. TypeOK'
      BY <1>1, <1>2, <1>3, <1>5 DEF ProdIInv, Shape, TypeOK
    <3> QED BY <3>1, <1>1, <1>2, <1>3, <1>5 DEF ProdIInv, Shape
  <2>2. /\ Untouched' /\ FirstRead' /\ AsRead' /\ Plans' /\ KeptOff' /\ Evened'
        /\ Unevenness' /\ Adding' /\ Chosen' /\ Recorded'
    BY <1>1, <1>2, <1>3, <1>5 DEF ProdIInv, Untouched, FirstRead, AsRead, Plans,
       KeptOff, Evened, Unevenness, Adding, Chosen, Recorded, SoldTickers, Uneven
  <2>3. Sales' /\ Ledger' /\ Holding'
    BY <1>1, <1>2, <1>3, <1>5 DEF ProdIInv, Sales, Ledger, Holding, Planned, Listed
  <2>4. Backed'
    BY <1>1, <1>2, <1>5 DEF ProdIInv, Backed, Settled, Counted, Contracts
  <2> QED BY <2>1, <2>2, <2>3, <2>4 DEF ProdIInv
<1> QED BY <1>1, <1>4, <1>5

\* Where the account is not touched and the run goes on to choose or to buy,
\* what is left to show is what may be added to and what is chosen.
LEMMA ChoosingKeeps ==
    ASSUME ProdIInv, pc \in {"search", "pick"}, pc' \in {"pick", "buy"},
           UNCHANGED <<settings, cash, value, held, complete, before, holding,
                       known, plans, sales, reads, pauses, statuses, recorded,
                       exit, pos, led, sold, uneven, outside>>,
           marked' \in BOOLEAN, marked => marked', pc' = "buy" => marked',
           portfolio' \subseteq Pairs, addOns' \subseteq SUBSET Markets,
           Adding', Chosen'
    PROVE  ProdIInv'
<1> USE DEF Early, Selling, After, Clean
<1>1. Shape'
  <2>1. TypeOK'
    BY DEF ProdIInv, Shape, TypeOK
  <2> QED BY <2>1 DEF ProdIInv, Shape, TypeOK
<1>2. /\ Untouched' /\ FirstRead' /\ AsRead' /\ Plans' /\ KeptOff' /\ Evened'
      /\ Unevenness'
  BY DEF ProdIInv, Shape, Untouched, FirstRead, AsRead, Plans, KeptOff, Evened,
         Unevenness, SoldTickers, Uneven
<1>3. Sales' /\ Ledger' /\ Holding'
  BY DEF ProdIInv, Sales, Ledger, Holding, Planned, Listed
<1>4. Backed'
  BY DEF ProdIInv, Backed, Settled, Counted, Contracts
<1>5. Recorded'
  BY DEF ProdIInv, Recorded
<1> QED BY <1>1, <1>2, <1>3, <1>4, <1>5 DEF ProdIInv

\* What fits is told by the listing, the add-ons and the sales alone.
LEMMA FitsSame ==
    ASSUME UNCHANGED <<held, holding, known, sales, addOns>>,
           NEW p, NEW qs
    PROVE  Fits(p, qs)' = Fits(p, qs)
BY DEF Fits, Found, OnTheSide, AddsTo, AddOnFor, AddOnMarkets, Blocked, SidesMatch,
       SoldTickers, Ladders

\* Finding what may be added to keeps the invariant.
LEMMA SearchKeeps ==
    ASSUME ProdIInv, Search
    PROVE  ProdIInv'
<1> USE DEF Early, Selling, After, Clean
<1>1. /\ pc = "search" /\ pc' = "pick"
      /\ UNCHANGED <<settings, cash, value, held, complete, before, holding,
                     known, plans, sales, reads, pauses, portfolio, statuses,
                     marked, recorded, exit, pos, led, sold, uneven, outside>>
  BY DEF Search, listing, selling, report, account, history
<1>2. /\ addOns' # {} => complete
      /\ \A g \in addOns' : g \in SUBSET Listed(held) /\ MayAdd(g, held)
  BY DEF Search
<1>3. addOns' \subseteq SUBSET Markets
  BY <1>2 DEF Listed
<1>4. Adding'
  BY <1>1, <1>2, <1>3 DEF Adding, MayAdd, Planned, SoldTickers
<1>5. portfolio = {} /\ Chosen'
  BY <1>1 DEF ProdIInv, Chosen
<1>6. marked \in BOOLEAN
  BY DEF ProdIInv, Shape, TypeOK
<1> QED BY <1>1, <1>3, <1>4, <1>5, <1>6, ChoosingKeeps

\* Taking a pair keeps the invariant.
LEMMA PickKeeps ==
    ASSUME ProdIInv, Pick
    PROVE  ProdIInv'
<1> USE DEF Early, Selling, After, Clean
<1>1. PICK p \in Pairs \ portfolio :
         /\ Found(p) /\ Both(p) \cap Picked = {}
         /\ p.kind = "time_series" => Ladders(Both(p)) \cap Blocking(p) = {}
         /\ portfolio' = portfolio \cup {p}
  BY DEF Pick
<1>2. /\ pc = "pick" /\ pc' = "pick"
      /\ UNCHANGED <<settings, cash, value, held, complete, before, holding,
                     known, plans, sales, reads, pauses, addOns, statuses,
                     marked, recorded, exit, pos, led, sold, uneven, outside>>
  BY DEF Pick, listing, selling, report, account, history
<1>3. /\ marked \in BOOLEAN /\ portfolio' \subseteq Pairs
      /\ addOns \subseteq SUBSET Markets
  BY <1>1 DEF ProdIInv, Shape, TypeOK
<1>4. Adding'
  BY <1>2 DEF ProdIInv, Adding, MayAdd, Planned, SoldTickers
<1>5. IsFiniteSet(portfolio')
  BY <1>1, FS_AddElement DEF ProdIInv, Chosen
<1>6. ASSUME NEW q \in portfolio
      PROVE  Ladders(Both(q)) \subseteq Ladders(Picked)
  BY DEF Ladders, Picked
<1>7. p.kind = "time_series" =>
         /\ Ladders(Both(p)) \cap OnTheSide(p) = {}
         /\ Ladders(Both(p)) \cap Ladders(Picked) = {}
  BY <1>1 DEF Blocking, OnTheSide
<1>8. ASSUME NEW q \in portfolio'
      PROVE  Fits(q, portfolio')
  <2>1. CASE q = p
    BY <2>1, <1>1, <1>6, <1>7 DEF Fits
  <2>2. CASE q \in portfolio
    <3>1. Fits(q, portfolio)
      BY <2>2, <1>2 DEF ProdIInv, Chosen
    <3> QED BY <3>1, <2>2, <1>1, <1>6, <1>7 DEF Fits
  <2> QED BY <2>1, <2>2, <1>1
<1>9. Chosen'
  <2>1. PICK qs : qs = portfolio'
    OBVIOUS
  <2>2. \A q \in qs : Fits(q, qs)
    BY <1>8, <2>1
  <2>3. \A q \in qs : Fits(q, qs)'
    BY <2>2, <1>2, FitsSame
  <2>4. (\A q \in portfolio : Fits(q, portfolio))'
    <3>1. ASSUME NEW q \in qs
          PROVE  Fits(q, portfolio)'
      BY <3>1, <2>1, <2>3 DEF Fits
    <3> QED BY <3>1, <2>1
  <2> QED BY <2>4, <1>2, <1>5 DEF Chosen
<1> QED BY <1>2, <1>3, <1>4, <1>9, ChoosingKeeps

\* A run that ends with the code of a clean one keeps the invariant.
LEMMA EndingKeeps ==
    ASSUME ProdIInv, pc \in {"pick", "log"}, pc' = "done",
           exit' \in {"ok", "no_time_series"},
           \A s \in sales : ~NeedsPerson(s), statuses \cap Someone = {},
           UNCHANGED <<settings, cash, value, listing, selling, addOns,
                       statuses, marked, account, history>>,
           portfolio' \subseteq portfolio,
           recorded \subseteq recorded', recorded' \subseteq {"sales", "trades"},
           statuses # {} => "trades" \in recorded'
    PROVE  ProdIInv'
<1> USE DEF Early, Selling, After, Clean
<1>1. UNCHANGED <<settings, cash, value, held, complete, before, holding, known,
                  plans, sales, reads, pauses, addOns, statuses, marked, pos,
                  led, sold, uneven, outside>>
  BY DEF listing, selling, account, history
<1>2. Shape'
  <2>1. TypeOK'
    BY <1>1 DEF ProdIInv, Shape, TypeOK
  <2> QED BY <2>1, <1>1 DEF ProdIInv, Shape
<1>3. /\ Untouched' /\ FirstRead' /\ AsRead' /\ Plans' /\ Ledger' /\ KeptOff'
      /\ Backed' /\ Adding'
  BY DEF Untouched, FirstRead, AsRead, Plans, Ledger, KeptOff, Backed, Adding
<1>4. Chosen'
  BY FS_Subset DEF ProdIInv, Chosen
<1>5. Sales' /\ Holding'
  BY <1>1 DEF ProdIInv, Sales, Holding, Planned
<1>6. Evened' /\ Unevenness'
  BY <1>1 DEF ProdIInv, Evened, Unevenness, NeedsPerson, Uneven, Planned
<1>7. Recorded'
  BY <1>1 DEF ProdIInv, Recorded
<1> QED BY <1>2, <1>3, <1>4, <1>5, <1>6, <1>7 DEF ProdIInv

\* The exit code of a run whose purchases are in order.
LEMMA CleanExitIs ==
    /\ CleanExit \in {"attention", "ok", "no_time_series"}
    /\ CleanExit # "attention" => \A s \in sales : ~NeedsPerson(s)
BY DEF CleanExit

\* Funding what was chosen keeps the invariant.
LEMMA FundKeeps ==
    ASSUME ProdIInv, Fund
    PROVE  ProdIInv'
<1> USE DEF Early, Selling, After, Clean
<1>1. /\ pc = "pick" /\ portfolio' \subseteq portfolio
      /\ UNCHANGED <<settings, cash, value, listing, selling, addOns, statuses,
                     recorded, account, history>>
      /\ \/ pc' = "done" /\ exit' = CleanExit /\ marked' = marked /\ portfolio' = {}
         \/ pc' = "buy" /\ exit' = exit /\ marked' = TRUE
  BY DEF Fund, Exit
<1>2. UNCHANGED <<settings, cash, value, held, complete, before, holding, known,
                  plans, sales, reads, pauses, addOns, statuses, recorded, pos,
                  led, sold, uneven, outside>>
  BY <1>1 DEF listing, selling, account, history
<1>3. /\ recorded \subseteq {"sales", "trades"} /\ statuses = {} /\ marked \in BOOLEAN
      /\ (\E m \in Markets : sold[m] > 0) => "sales" \in recorded
      /\ addOns \subseteq SUBSET Markets /\ portfolio' \subseteq Pairs
  BY <1>1 DEF ProdIInv, Shape, TypeOK, Recorded
<1>4. CASE pc' = "buy"
  <2>1. Adding'
    BY <1>1, <1>2 DEF ProdIInv, Adding, MayAdd, Planned, SoldTickers
  <2>2. IsFiniteSet(portfolio')
    BY <1>1, FS_Subset DEF ProdIInv, Chosen
  <2>3. PICK qs : qs = portfolio'
    OBVIOUS
  <2>4. \A q \in qs : Fits(q, qs)
    BY <1>1, <2>3 DEF ProdIInv, Chosen, Fits
  <2>5. \A q \in qs : Fits(q, qs)'
    BY <2>4, <1>2, FitsSame
  <2>6. (\A q \in portfolio : Fits(q, portfolio))'
    <3>1. ASSUME NEW q \in qs
          PROVE  Fits(q, portfolio)'
      BY <3>1, <2>3, <2>5 DEF Fits
    <3> QED BY <3>1, <2>3
  <2>7. Chosen'
    BY <2>2, <2>6, <1>4 DEF Chosen
  <2> QED BY <2>1, <2>7, <1>1, <1>2, <1>3, <1>4, ChoosingKeeps
<1>5. CASE pc' = "done" /\ exit' = "attention"
  <2>1. Shape' /\ Chosen'
    <3>1. IsFiniteSet(portfolio')
      BY <1>1, FS_Subset DEF ProdIInv, Chosen
    <3>2. TypeOK'
      BY <1>1, <1>2, <1>3, <1>5 DEF ProdIInv, Shape, TypeOK
    <3> QED BY <3>1, <3>2, <1>1, <1>2, <1>5 DEF ProdIInv, Shape, Chosen
  <2>2. /\ Untouched' /\ FirstRead' /\ AsRead' /\ Plans' /\ Sales' /\ Ledger'
        /\ KeptOff' /\ Evened' /\ Unevenness' /\ Backed' /\ Adding'
    BY <1>5 DEF Untouched, FirstRead, AsRead, Plans, Sales, Ledger, KeptOff, Evened,
       Unevenness, Backed, Adding
  <2>3. Holding' /\ Recorded'
    BY <1>1, <1>2, <1>3, <1>5 DEF ProdIInv, Holding, Recorded
  <2> QED BY <2>1, <2>2, <2>3 DEF ProdIInv
<1>6. CASE pc' = "done" /\ exit' # "attention"
  BY <1>1, <1>2, <1>3, <1>6, CleanExitIs, EndingKeeps
<1> QED BY <1>1, <1>4, <1>5, <1>6

\* Writing the purchases down ends the run and keeps the invariant.
LEMMA LogKeeps ==
    ASSUME ProdIInv, Log
    PROVE  ProdIInv'
<1> USE DEF Early, Selling, After, Clean
<1>1. /\ pc = "log" /\ pc' = "done" /\ recorded' = recorded \cup {"trades"}
      /\ UNCHANGED <<settings, cash, value, listing, selling, buying, marked,
                     account, history>>
      /\ exit' \in {"raised", "attention", CleanExit}
      /\ exit' \notin {"raised", "attention"} => statuses \cap Someone = {}
  BY DEF Log, Exit, Someone
<1>2. /\ recorded \subseteq {"sales", "trades"}
      /\ (\E m \in Markets : sold[m] > 0) => "sales" \in recorded
  BY <1>1 DEF ProdIInv, Shape, TypeOK, Recorded
<1>3. CASE exit' \in {"raised", "attention"}
  BY <1>1, <1>2, <1>3, StoppingKeeps
<1>4. CASE exit' \notin {"raised", "attention"}
  BY <1>1, <1>2, <1>4, CleanExitIs, EndingKeeps DEF buying
<1> QED BY <1>3, <1>4

\* What a purchase comes to is for a person to look at if it left one side.
LEMMA ResultsAre ==
    ASSUME NEW p \in Pairs, NEW x \in Results(p), Cardinality(x[2]) = 1
    PROVE  x[1] \in Someone
<1>1. /\ x = <<"executed", Both(p)>> \/ x = <<"failed", {}>>
         \/ x = <<"rolled_back", {}>> \/ x = <<"rollback_failed", {p.no}>>
         \/ \E b \in SUBSET Both(p) : x = <<"manual_review", b>>
  BY DEF Results
<1>2. Cardinality({}) = 0
  BY FS_EmptySet
<1>3. Cardinality(Both(p)) = 2
  <2>1. p.yes # p.no
    BY ProdRunAssumption
  <2>2. IsFiniteSet({p.no}) /\ Cardinality({p.no}) = 1
    BY FS_Singleton
  <2>3. Cardinality({p.no} \cup {p.yes}) = 2
    BY <2>1, <2>2, FS_AddElement
  <2>4. {p.no} \cup {p.yes} = Both(p)
    BY DEF Both
  <2> QED BY <2>3, <2>4
<1> QED BY <1>1, <1>2, <1>3 DEF Someone

\* Buying keeps the invariant.
LEMMA BuyKeeps ==
    ASSUME ProdIInv, Buy
    PROVE  ProdIInv'
<1> USE DEF Early, Selling, After, Clean
<1>1. PICK r : /\ \A p \in portfolio : r[p] \in Results(p)
               /\ statuses' = {r[p][1] : p \in portfolio}
               /\ pos' = [m \in Markets |->
                     pos[m]
                     + Cardinality({p \in portfolio : m = p.yes /\ m \in r[p][2]})
                     - Cardinality({p \in portfolio : m = p.no /\ m \in r[p][2]})]
               /\ uneven' = uneven \cup
                     UNION {Both(p) : p \in {q \in portfolio :
                                                Cardinality(r[q][2]) = 1}}
  BY DEF Buy
<1>2. /\ pc = "buy" /\ pc' = "log"
      /\ UNCHANGED <<settings, cash, value, held, complete, before, holding,
                     known, plans, sales, reads, pauses, addOns, portfolio,
                     marked, recorded, exit, led, sold, outside>>
  BY DEF Buy, listing, selling, report
<1>3. /\ IsFiniteSet(portfolio) /\ portfolio \subseteq Pairs /\ marked
      /\ exit = "none" /\ statuses = {}
  BY <1>2 DEF ProdIInv, Chosen, Shape, TypeOK, Recorded
<1>4. pos' \in [Markets -> Int]
  <2>1. ASSUME NEW m \in Markets
        PROVE  /\ Cardinality({p \in portfolio : m = p.yes /\ m \in r[p][2]}) \in Nat
               /\ Cardinality({p \in portfolio : m = p.no /\ m \in r[p][2]}) \in Nat
    <3>1. /\ IsFiniteSet({p \in portfolio : m = p.yes /\ m \in r[p][2]})
          /\ IsFiniteSet({p \in portfolio : m = p.no /\ m \in r[p][2]})
      BY <1>3, FS_Subset
    <3> QED BY <3>1, FS_CardinalityType
  <2> QED BY <2>1, <1>1 DEF ProdIInv, Shape
<1>5. Shape'
  <2>1. TypeOK'
    BY <1>2, <1>3 DEF ProdIInv, Shape, TypeOK
  <2> QED BY <2>1, <1>2, <1>3, <1>4 DEF ProdIInv, Shape
<1>6. /\ Untouched' /\ FirstRead' /\ AsRead' /\ Plans' /\ Ledger' /\ Backed'
      /\ Adding' /\ Chosen'
  BY <1>2, <1>3 DEF Untouched, FirstRead, AsRead, Plans, Ledger, Backed, Adding, Chosen
<1>7. Sales' /\ Holding'
  BY <1>2 DEF ProdIInv, Sales, Holding, Planned, Listed
<1>8. KeptOff' /\ Evened'
  BY <1>2 DEF ProdIInv, KeptOff, Evened, SoldTickers, Planned, Uneven
<1>9. Unevenness'
  <2>1. CASE uneven # {}
    BY <2>1, <1>2, <1>3 DEF ProdIInv, Unevenness, Uneven
  <2>2. CASE uneven = {} /\ uneven' # {}
    <3>1. PICK p \in portfolio : Cardinality(r[p][2]) = 1
      BY <2>2, <1>1
    <3>2. r[p][1] \in Someone
      BY <3>1, <1>1, <1>3, ResultsAre
    <3> QED BY <3>1, <3>2, <1>1, <1>2, <1>3 DEF Unevenness
  <2>3. CASE uneven' = {}
    BY <2>3, <1>2, <1>3 DEF Unevenness
  <2> QED BY <2>1, <2>2, <2>3
<1>10. Recorded'
  BY <1>2, <1>3 DEF ProdIInv, Recorded
<1> QED BY <1>5, <1>6, <1>7, <1>8, <1>9, <1>10 DEF ProdIInv

\* A position opened by someone else keeps the invariant.
LEMMA OutsideTradeKeeps ==
    ASSUME ProdIInv, OutsideTrade
    PROVE  ProdIInv'
<1> USE DEF Early, Selling, After, Clean
<1>1. PICK m \in Markets :
         /\ before[m] = 0 /\ pos[m] = 0
         /\ pos' = [pos EXCEPT ![m] = 1] /\ led' = [led EXCEPT ![m] = 1]
  BY DEF OutsideTrade
<1>2. /\ pc = "sell" /\ outside' = outside + 1
      /\ UNCHANGED <<pc, settings, cash, value, held, complete, before, holding,
                     known, plans, sales, reads, pauses, addOns, portfolio,
                     statuses, marked, recorded, exit, sold, uneven>>
  BY DEF OutsideTrade, listing, selling, buying, report
<1>3. Shape'
  <2>1. TypeOK'
    BY <1>2 DEF ProdIInv, Shape, TypeOK
  <2> QED BY <2>1, <1>1, <1>2 DEF ProdIInv, Shape
<1>4. m \notin Planned(sales)
  BY <1>1, <1>2 DEF ProdIInv, Sales, Planned
<1>5. Ledger'
  <2>1. /\ pos \in [Markets -> Int] /\ led \in [Markets -> Int]
        /\ Planned(sales) \subseteq Markets
    BY <1>2 DEF ProdIInv, Shape, Sales, SaleOK, SaleShape, Planned
  <2>2. ASSUME NEW x \in Planned(sales)
        PROVE  pos'[x] = pos[x] /\ led'[x] = led[x]
    BY <2>1, <1>1, <1>4
  <2>3. ASSUME NEW x \in Markets \ Planned(sales)
        PROVE  led'[x] = pos'[x] /\ before[x] \in {0, pos'[x]}
    BY <2>1, <1>1, <1>2 DEF ProdIInv, Ledger
  <2> QED BY <2>2, <2>3, <1>2 DEF ProdIInv, Ledger, Planned
<1>6. /\ Untouched' /\ FirstRead' /\ AsRead' /\ Plans' /\ KeptOff' /\ Evened'
      /\ Adding' /\ Chosen'
  <2>1. exit = "none"
    BY <1>2 DEF ProdIInv, Shape
  <2>2. Untouched' /\ FirstRead' /\ KeptOff' /\ Evened' /\ Adding'
    BY <2>1, <1>2 DEF Untouched, FirstRead, KeptOff, Evened, Adding
  <2> QED BY <2>2, <1>2 DEF ProdIInv, AsRead, Plans, PlanOK, Chosen
<1>7. Sales' /\ Holding'
  BY <1>2 DEF ProdIInv, Sales, Holding, Planned, Listed
<1>8. Unevenness' /\ Recorded'
  BY <1>2 DEF ProdIInv, Unevenness, Uneven, Recorded
<1>9. Backed'
  BY <1>2 DEF ProdIInv, Backed, Contracts
<1> QED BY <1>3, <1>5, <1>6, <1>7, <1>8, <1>9 DEF ProdIInv

\* A step that changes nothing keeps the invariant.
LEMMA StutterKeeps ==
    ASSUME ProdIInv, UNCHANGED vars
    PROVE  ProdIInv'
<1>1. UNCHANGED <<pc, settings, cash, value, held, complete, before, holding,
                  known, plans, sales, reads, pauses, addOns, portfolio,
                  statuses, marked, recorded, exit, pos, led, sold, uneven,
                  outside>>
  BY DEF vars
<1>2. Shape' /\ Untouched' /\ FirstRead' /\ AsRead'
  BY <1>1 DEF ProdIInv, Shape, TypeOK, Untouched, FirstRead, AsRead
<1>3. Plans' /\ Sales' /\ Ledger' /\ Holding'
  BY <1>1 DEF ProdIInv, Plans, PlanOK, Sales, Ledger, Holding, Planned, Listed, Clean
<1>4. KeptOff' /\ Evened' /\ Unevenness' /\ Recorded'
  BY <1>1 DEF ProdIInv, KeptOff, Evened, Unevenness, SoldTickers, Planned, Uneven,
              Recorded, Clean
<1>5. Backed' /\ Adding'
  BY <1>1 DEF ProdIInv, Backed, Settled, Counted, Contracts, Adding, MayAdd, Planned,
              SoldTickers
<1>6. Chosen'
  <2>1. \A p \in portfolio : Fits(p, portfolio)' = Fits(p, portfolio)
    BY <1>1 DEF Fits, Found, OnTheSide, AddsTo, AddOnFor, AddOnMarkets, Blocked,
                SidesMatch, SoldTickers, Ladders
  <2> QED BY <2>1, <1>1 DEF ProdIInv, Chosen
<1> QED BY <1>2, <1>3, <1>4, <1>5, <1>6 DEF ProdIInv

\* The invariant holds of a run that has not started.
LEMMA ProdIInvInit == Init => ProdIInv
<1> SUFFICES ASSUME Init PROVE ProdIInv
  OBVIOUS
<1> USE DEF Early, Selling, After, Clean
<1>1. PICK a \in Accounts : pos = a.pos /\ cash = a.cash
  BY DEF Init
<1>2. pos \in [Markets -> Int] /\ cash \in Nat
  BY <1>1, ProdRunAssumption
<1>3. /\ pc = "start" /\ exit = "none" /\ sales = {} /\ plans = {} /\ reads = 0
      /\ pauses = 0 /\ uneven = {} /\ recorded = {} /\ statuses = {}
      /\ portfolio = {} /\ addOns = {} /\ holding = {} /\ led = pos /\ held = before
      /\ before = [m \in Markets |-> 0] /\ sold = [m \in Markets |-> 0]
      /\ value = Unread /\ complete = FALSE /\ known = FALSE /\ marked = FALSE
      /\ outside = 0 /\ settings \in [sell : BOOLEAN, rebalance : BOOLEAN]
  BY DEF Init
<1>4. Shape
  <2>1. \A m \in Markets : sold[m] \in 0 .. Abs(before[m])
    BY <1>3 DEF Abs
  <2>2. reads \in 0 .. Rechecks + 1 /\ pauses \in 0 .. Rechecks
    BY <1>3, ProdRunAssumption
  <2>3. TypeOK
    BY <2>1, <2>2, <1>2, <1>3 DEF TypeOK
  <2> QED BY <2>3, <1>2, <1>3 DEF Shape
<1>5. Untouched /\ FirstRead /\ AsRead /\ Plans /\ KeptOff /\ Evened
  BY <1>3 DEF Untouched, FirstRead, AsRead, Plans, KeptOff, Evened
<1>6. Sales /\ Ledger
  BY <1>3, NoSales DEF Sales, Ledger
<1>7. Holding /\ Unevenness /\ Backed /\ Adding
  BY <1>3 DEF Holding, Unevenness, Backed, Adding
<1>8. Chosen /\ Recorded
  BY <1>3, FS_EmptySet DEF Chosen, Recorded
<1> QED BY <1>4, <1>5, <1>6, <1>7, <1>8 DEF ProdIInv

\* Every step keeps the invariant.
LEMMA ProdIInvNext == ProdIInv /\ [Next]_vars => ProdIInv'
<1> SUFFICES ASSUME ProdIInv, [Next]_vars PROVE ProdIInv'
  OBVIOUS
<1>1. CASE ReadAccount BY <1>1, ReadAccountKeeps
<1>2. CASE Scan BY <1>2, ScanKeeps
<1>3. CASE PlanSales BY <1>3, PlanSalesKeeps
<1>4. CASE SellOne BY <1>4, SellOneKeeps
<1>5. CASE ReadBack BY <1>5, ReadAgainKeeps, ReadLastKeeps
<1>6. CASE ReadBackRaises BY <1>6, ReadBackRaisesKeeps
<1>7. CASE RecordSales BY <1>7, RecordSalesKeeps
<1>8. CASE Search BY <1>8, SearchKeeps
<1>9. CASE Pick BY <1>9, PickKeeps
<1>10. CASE Fund BY <1>10, FundKeeps
<1>11. CASE Buy BY <1>11, BuyKeeps
<1>12. CASE Log BY <1>12, LogKeeps
<1>13. CASE Raise \/ Interrupt BY <1>13, RaiseKeeps
<1>14. CASE OutsideTrade BY <1>14, OutsideTradeKeeps
<1>15. CASE Finished \/ UNCHANGED vars BY <1>15, StutterKeeps DEF Finished
<1> QED BY <1>1, <1>2, <1>3, <1>4, <1>5, <1>6, <1>7, <1>8, <1>9, <1>10, <1>11,
           <1>12, <1>13, <1>14, <1>15 DEF Next

----------------------------------------------------------------------------
(* What the invariant says of the purchases.                                   *)

\* The ledger shows a position nothing was sold of as it is.
LEMMA LedgerAsHeld ==
    ASSUME ProdIInv, Buying, NEW m \in Markets
    PROVE  /\ sold[m] = 0 => led[m] = pos[m]
           /\ pos[m] # 0 => led[m] # 0
<1> USE DEF Buying, After, Early, Selling
<1>1. /\ before[m] \in Int /\ pos[m] \in Int /\ led[m] \in Int
  BY DEF ProdIInv, Shape
<1>2. CASE m \in Planned(sales)
  <2>1. /\ pos[m] = Less(before[m], sold[m])
        /\ \/ before[m] > 0 /\ pos[m] >= 0 /\ led[m] \in pos[m] .. before[m]
           \/ before[m] < 0 /\ pos[m] <= 0 /\ led[m] \in before[m] .. pos[m]
    BY <1>2 DEF ProdIInv, Ledger
  <2> QED BY <2>1, <1>1 DEF Less
<1>3. CASE m \notin Planned(sales)
  BY <1>3 DEF ProdIInv, Ledger
<1> QED BY <1>2, <1>3

\* What the account holds is among what the run takes for held.
LEMMA HeldIsKnown ==
    ASSUME ProdIInv, Buying, Read, NEW m \in Markets, pos[m] # 0
    PROVE  m \in holding
<1> USE DEF Buying, After
<1>1. m \in Listed(before)
  <2>1. /\ before[m] \in Int /\ pos[m] \in Int /\ sold[m] \in Nat
        /\ Abs(before[m]) = sold[m] + Abs(pos[m])
    BY DEF ProdIInv, Shape, Read
  <2> QED BY <2>1 DEF Listed, Abs
<1>2. m \in holding \/ (complete /\ held[m] = 0)
  BY <1>1 DEF ProdIInv, Holding
<1>3. ASSUME complete, held[m] = 0 PROVE FALSE
  <2>1. reads # 0
    BY <1>1, <1>3 DEF ProdIInv, Holding, Listed
  <2>2. reads > 0
    BY <2>1 DEF ProdIInv, Shape, TypeOK
  <2>3. held = led
    BY <2>2, <1>3 DEF ProdIInv, Holding
  <2> QED BY <2>3, <1>3, LedgerAsHeld
<1> QED BY <1>2, <1>3

\* What a pair adds to is a position that may be added to, or nothing.
LEMMA AddsToIs ==
    ASSUME NEW p \in Pairs, AddsTo(p) # {}
    PROVE  /\ AddsTo(p) \in addOns /\ AddsTo(p) \subseteq Both(p)
           /\ (Both(p) \ AddsTo(p)) \cap AddOnMarkets = {}
           /\ AddsTo(p) = Both(p) \/ Cardinality(AddsTo(p)) = 1
<1> DEFINE lone == {m \in Both(p) : {m} \in addOns}
<1>1. AddsTo(p) = AddOnFor(p)
  BY DEF AddsTo
<1>2. CASE Both(p) \in addOns
  BY <1>1, <1>2 DEF AddOnFor
<1>3. CASE Both(p) \notin addOns
  <2>1. /\ AddOnFor(p) = lone /\ Cardinality(lone) = 1
        /\ (Both(p) \ lone) \cap AddOnMarkets = {}
    BY <1>1, <1>3 DEF AddOnFor
  <2>2. IsFiniteSet(lone)
    <3>1. IsFiniteSet({p.no})
      BY FS_Singleton
    <3>2. IsFiniteSet({p.no} \cup {p.yes})
      BY <3>1, FS_AddElement
    <3>3. lone \subseteq {p.no} \cup {p.yes}
      BY DEF Both
    <3> QED BY <3>2, <3>3, FS_Subset
  <2>3. PICK x : lone = {x}
    <3> HIDE DEF lone
    <3> QED BY <2>1, <2>2, FS_Singleton
  <2>4. x \in lone
    BY <2>3
  <2>5. lone \in addOns
    BY <2>3, <2>4
  <2> QED BY <1>1, <2>1, <2>5
<1> QED BY <1>2, <1>3

\* What may be added to is listed as the account holds it, shares no label with
\* anything else listed, and had no sale planned.
LEMMA AddOnIs ==
    ASSUME ProdIInv, Buying, NEW g \in addOns
    PROVE  /\ complete /\ holding = Listed(held) /\ g \subseteq Listed(held)
           /\ g \cap Planned(sales) = {}
           /\ Ladders(g) \cap Ladders(Listed(held) \ g) = {}
           /\ \A m \in g : held[m] = pos[m] /\ held[m] # 0
<1> USE DEF Buying, After, Early, Selling
<1>1. complete /\ MayAdd(g, held)
  BY DEF ProdIInv, Adding
<1>2. holding = Listed(held)
  BY <1>1 DEF ProdIInv, Holding
<1>3. g \in HeldPairs(held) /\ g \cap Planned(sales) = {}
  BY <1>1 DEF MayAdd
<1>4. /\ g \subseteq Listed(held)
      /\ Ladders(g) \cap Ladders(Listed(held) \ g) = {}
  BY <1>3, HeldPairIs DEF ProdIInv, Shape
<1>5. ASSUME NEW m \in g
      PROVE  held[m] = pos[m] /\ held[m] # 0
  <2>1. m \in Listed(held) /\ m \in Markets \ Planned(sales)
    BY <1>3, <1>4, <1>5 DEF Listed
  <2>2. held[m] = led[m] /\ led[m] = pos[m]
    BY <2>1 DEF ProdIInv, Holding, Ledger
  <2> QED BY <2>1, <2>2 DEF Listed
<1> QED BY <1>1, <1>2, <1>3, <1>4, <1>5

\* Nothing is bought on a market something was sold on.
LEMMA SoldIsNotPicked ==
    ASSUME ProdIInv, Buying, NEW p \in portfolio, NEW m \in Both(p)
    PROVE  sold[m] = 0
<1> USE DEF Buying, After, Early, Selling
<1>1. SUFFICES ASSUME sold[m] # 0 PROVE FALSE
  OBVIOUS
<1>2. p \in Pairs /\ m \in Markets
  BY ProdRunAssumption DEF ProdIInv, Shape, TypeOK, Both
<1>3. m \in Planned(sales)
  BY <1>1, <1>2 DEF ProdIInv, Sales
<1>4. PICK s \in sales : m \in s.legs
  BY <1>3 DEF Planned
<1>5. s.gone[m] = sold[m] /\ sold[m] \in Nat
  BY <1>2, <1>4 DEF ProdIInv, Sales, Shape
<1>6. m \in SoldTickers(sales) \cup holding
  BY <1>1, <1>4, <1>5 DEF ProdIInv, KeptOff
<1>7. Both(p) \cap Blocked = {}
  BY DEF ProdIInv, Chosen, Fits, Found
<1>8. m \in AddOnMarkets
  BY <1>6, <1>7 DEF Blocked
<1>9. PICK g \in addOns : m \in g
  BY <1>8 DEF AddOnMarkets
<1> QED BY <1>3, <1>9, AddOnIs

\* A market bought on that the account holds is one the pair adds to.
LEMMA HeldIsAddedTo ==
    ASSUME ProdIInv, Buying, Read, NEW p \in portfolio, NEW m \in Both(p),
           pos[m] # 0
    PROVE  m \in AddsTo(p)
<1>1. p \in Pairs /\ m \in Markets
  BY ProdRunAssumption DEF ProdIInv, Shape, TypeOK, Both
<1>2. m \in holding
  BY <1>1, HeldIsKnown
<1>3. /\ Both(p) \cap Blocked = {}
      /\ AddsTo(p) = {} => Both(p) \cap AddOnMarkets = {}
  BY DEF Buying, ProdIInv, Chosen, Fits, Found
<1>4. m \in AddOnMarkets
  BY <1>2, <1>3 DEF Blocked
<1> QED BY <1>1, <1>3, <1>4, AddsToIs

\* A purchase does not take the opposite side of a position held.
LEMMA NoOppositeSide == ProdIInv => NeverTradesAgainstHolding
<1> SUFFICES ASSUME ProdIInv, Buying, Read, NEW p \in portfolio
             PROVE  pos[p.yes] >= 0 /\ pos[p.no] <= 0
  BY DEF NeverTradesAgainstHolding
<1>1. p \in Pairs /\ p.yes \in Markets /\ p.no \in Markets /\ p.yes # p.no
  BY ProdRunAssumption DEF ProdIInv, Shape, TypeOK
<1>2. SidesMatch(p, AddsTo(p))
  BY DEF Buying, ProdIInv, Chosen, Fits, Found
<1>3. ASSUME NEW m \in Both(p), pos[m] # 0
      PROVE  (pos[m] > 0) = (m = p.yes)
  <2>1. m \in AddsTo(p)
    BY <1>3, HeldIsAddedTo
  <2>2. held[m] = pos[m]
    BY <2>1, <1>1, AddsToIs, AddOnIs
  <2> QED BY <2>1, <2>2, <1>2 DEF SidesMatch
<1>4. pos[p.yes] \in Int /\ pos[p.no] \in Int
  BY <1>1 DEF ProdIInv, Shape
<1>5. p.yes \in Both(p) /\ p.no \in Both(p)
  BY DEF Both
<1> QED BY <1>1, <1>3, <1>4, <1>5

\* A time-series purchase is alone on its ladders.
LEMMA NoSharedLadder == ProdIInv => OneStakePerLadder
<1> SUFFICES ASSUME ProdIInv, Buying, Read, NEW p \in portfolio,
                    p.kind = "time_series", NEW m \in Markets \ Both(p),
                    \/ pos[m] # 0
                    \/ \E q \in portfolio : q.kind = "time_series" /\ m \in Both(q),
                    NEW l \in Labels[m], l \in Ladders(Both(p))
             PROVE  FALSE
  BY DEF OneStakePerLadder
<1> DEFINE g == AddsTo(p)
<1>1. Fits(p, portfolio) /\ p \in Pairs
  BY DEF Buying, ProdIInv, Chosen, Shape, TypeOK
<1>2. CASE \E q \in portfolio : q.kind = "time_series" /\ m \in Both(q)
  <2>1. PICK q \in portfolio : q.kind = "time_series" /\ m \in Both(q)
    BY <1>2
  <2>2. q # p /\ l \in Ladders(Both(q))
    BY <2>1 DEF Ladders
  <2> QED BY <1>1, <2>1, <2>2 DEF Fits
<1>3. CASE pos[m] # 0
  <2>1. m \in holding /\ l \in Ladders(holding)
    BY <1>3, HeldIsKnown DEF Ladders
  <2>2. l \notin OnTheSide(p)
    BY <1>1 DEF Fits
  <2>3. g # {}
    BY <2>1, <2>2 DEF OnTheSide
  <2>4. g \in addOns /\ g \subseteq Both(p) /\ (g = Both(p) \/ Cardinality(g) = 1)
    BY <1>1, <2>3, AddsToIs
  <2>5. /\ m \in Listed(held) \ g
        /\ Ladders(g) \cap Ladders(Listed(held) \ g) = {}
    <3> HIDE DEF g
    <3> QED BY <2>1, <2>4, AddOnIs
  <2>6. l \notin Ladders(g)
    <3> HIDE DEF g
    <3> QED BY <2>5 DEF Ladders
  <2>7. g # Both(p)
    BY <2>6
  <2>8. OnTheSide(p) = Ladders(holding) \ Ladders(g)
    BY <2>3, <2>4, <2>7 DEF OnTheSide
  <2> QED BY <2>1, <2>2, <2>6, <2>8
<1> QED BY <1>2, <1>3

----------------------------------------------------------------------------
(* The theorems.                                                               *)

\* The inductive invariant holds of every run of main._run_prod.
THEOREM ProdIInvHolds == Spec => []ProdIInv
<1> QED BY ProdIInvInit, ProdIInvNext, PTL DEF Spec

\* A market something was truly sold on is not bought on again in the same run,
\* however short the sale was told and however late the ledger is.
THEOREM SoldStaysSold == Spec => []NeverRebuysSold
<1>1. ProdIInv => NeverRebuysSold
  BY SoldIsNotPicked DEF NeverRebuysSold, Picked
<1> QED BY <1>1, ProdIInvHolds, PTL

\* What a run buys is on no ladder, and against no position, that the account
\* holds, when its first listing was read to its end and nobody opened a
\* position elsewhere while it ran.
THEOREM PurchasesFit == Spec => []PurchasesFitHoldings
<1>1. ProdIInv => PurchasesFitHoldings
  BY NoOppositeSide, NoSharedLadder DEF ProdIInv, Shape, PurchasesFitHoldings
<1> QED BY <1>1, ProdIInvHolds, PTL

\* The bankroll counts no value that the contracts still held cannot pay.
THEOREM ValueIsBacked == Spec => []ValueBackedByContracts
<1>1. ProdIInv => ValueBackedByContracts
  BY DEF ProdIInv, Backed, ValueBackedByContracts, Buying, After
<1> QED BY <1>1, ProdIInvHolds, PTL

\* Whatever ends a run, its orders are marked, and on record unless it was
\* interrupted.
THEOREM OrdersAreAccountedFor == Spec => []EveryOrderAccountedFor
<1>1. ProdIInv => EveryOrderAccountedFor
  BY DEF ProdIInv, Recorded, EveryOrderAccountedFor, After
<1> QED BY <1>1, ProdIInvHolds, PTL

\* A run whose exit code says that nothing is amiss left no pair uneven.
THEOREM NoImbalanceIsSilent == Spec => []NoSilentImbalance
<1>1. ASSUME ProdIInv, Clean, complete, uneven # {},
             reads > 0 => led = [m \in Markets |->
                                    IF m \in Planned(sales)
                                    THEN Less(before[m], sold[m]) ELSE led[m]]
      PROVE  FALSE
  <2>1. PICK s \in sales : Uneven(s) /\ ~NeedsPerson(s)
    BY <1>1 DEF ProdIInv, Unevenness
  <2>2. reads # 0
    BY <1>1, <2>1 DEF ProdIInv, Evened, Uneven
  <2>3. reads > 0
    BY <2>2, <1>1 DEF ProdIInv, Shape, TypeOK
  <2>4. Planned(sales) \subseteq Markets
    BY <1>1 DEF ProdIInv, Sales, SaleOK, SaleShape, Planned
  <2>5. \A m \in Planned(sales) : led[m] = Less(before[m], sold[m])
    <3>1. ASSUME NEW m \in Planned(sales)
          PROVE  led[m] = Less(before[m], sold[m])
      <4> DEFINE l == [x \in Markets |-> IF x \in Planned(sales)
                                         THEN Less(before[x], sold[x]) ELSE led[x]]
      <4>1. led = l
        BY <1>1, <2>3
      <4>2. l[m] = Less(before[m], sold[m])
        BY <2>4, <3>1
      <4> QED BY <4>1, <4>2
    <3> QED BY <3>1
  <2> QED BY <1>1, <2>1, <2>5 DEF ProdIInv, Evened
<1>2. ProdIInv => NoSilentImbalance
  BY <1>1 DEF NoSilentImbalance, Clean
<1> QED BY <1>2, ProdIInvHolds, PTL
=============================================================================
