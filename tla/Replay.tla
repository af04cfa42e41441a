-------------------------------- MODULE Replay --------------------------------
(***************************************************************************)
(* The cash walk of a backtest: backtester.py's _simulate_at_discount.     *)
(*                                                                         *)
(* The walk takes dated candidates in order (and, when it sells or trims,  *)
(* every other weekly checkpoint too) and keeps one account in many        *)
(* overlapping books: the cash, the payouts still to come, the open        *)
(* trades, the markets in use and until when, how many unsettled legs are  *)
(* on each ladder, what each held pair put there itself, and the legs by   *)
(* market.  Each book has its own key and its own moment of release.  Two  *)
(* shortcuts make it delicate: a checkpoint at which nothing is sold       *)
(* releases nothing, and a trade sold in part is split in place.           *)
(*                                                                         *)
(* Days are whole numbers, each of them a checkpoint.  What depends on     *)
(* quotes (which positions reach the sell level, how much a trim sells,    *)
(* what a trade may cost or is refused for) is a free choice; every price  *)
(* is a whole number per contract pair.                                    *)
(***************************************************************************)
EXTENDS Integers, FiniteSets, Sequences, FiniteSetsExt

CONSTANTS Markets,   \* the markets
          Pairs,     \* the candidate pairs
          Legs,      \* the two markets of each pair, earlier or dearer first
          Kind,      \* "time_series" or "same_title"
          First,     \* the one day a same-title pair may be opened on
          Settles,   \* the day each market pays out
          LadderOf,  \* the ladders each market is on
          Unit,      \* what a contract pair costs, fees included
          Pays,      \* what a contract pair pays out
          SaleUnit,  \* what a contract pair sells for
          Funds,     \* the balance the walk starts with
          LastDay,   \* bound: the last day of the walk
          MaxPairs,  \* bound: contract pairs in one purchase
          MaxTrades  \* bound: purchases in one walk

VARIABLES opts,    \* the settings of this walk
          day,     \* the day the walk has reached
          at,      \* how far into that day: "new", "candidates" or "done"
          seen,    \* the candidates of that day already considered
          books    \* the account

vars == <<opts, day, at, seen, books>>

Ladders == UNION {LadderOf[m] : m \in Markets}
LegsOf(p) == {Legs[p][1], Legs[p][2]}
Side(p, i) == IF (Kind[p] = "time_series") = (i = 1) THEN "yes" ELSE "no"
ExitDay(p) == Max({Settles[m] : m \in LegsOf(p)})
NotHeld == [trades |-> {}, until |-> 0, own |-> [k \in Ladders |-> 0]]
NoCopy == [on |-> 0, got |-> 0]
SumOf(S, amount(_)) == MapThenSumSet(amount, S)
Less(count, rows) ==
  [k \in DOMAIN count |-> count[k] - Cardinality({r \in rows : k \in LadderOf[r.market]})]
-----------------------------------------------------------------------------
(* The books.  A trade is named by its place in "trades"; copies of it that *)
(* record a sale replace it in the list at the end of the walk.             *)

Opening ==
  [cash |-> Funds, trades |-> <<>>, parts |-> {}, pending |-> {}, open |-> {},
   active |-> {}, until |-> {}, ladders |-> [k \in Ladders |-> 0], rungs |-> {},
   pairs |-> [p \in Pairs |-> NotHeld], legs |-> {}, traded |-> {}, here |-> {}]

(* release: pay out what has paid out, free its markets and ladders.        *)
Release(b, d) ==
  LET due == {e \in b.pending : e.on <= d}
      gone == {r \in b.rungs : r.on <= d}
  IN [b EXCEPT
       !.cash = @ + SumOf(due, LAMBDA e : e.amount),
       !.pending = @ \ due,
       !.open = {t \in @ : b.trades[t].exit > d},
       !.active = @ \ {e.market : e \in {x \in b.until : x.on <= d}},
       !.until = {e \in @ : e.on > d},
       !.ladders = Less(@, gone),
       !.rungs = @ \ gone,
       !.pairs = [p \in Pairs |-> IF @[p].until <= d THEN NotHeld ELSE @[p]],
       !.legs = {l \in @ : l.paid > d}]

(* drop: take trades sold whole out of every book.  A market stays in use   *)
(* while another open trade holds it.                                       *)
FreedAll(b, gone) == {e.market : e \in {x \in b.until : x.trade \in gone}}
Freed(b, gone) == {e.market : e \in {x \in b.until : x.trade \in gone}}
                  \ {e.market : e \in {x \in b.until : x.trade \notin gone}}

Drop(b, gone) ==
  LET rows == {r \in b.rungs : r.trade \in gone}
  IN [b EXCEPT
       !.pending = {e \in @ : e.trade \notin gone},
       !.open = @ \ gone,
       !.active = @ \ Freed(b, gone),
       !.until = {e \in @ : e.trade \notin gone},
       !.ladders = Less(@, rows),
       !.rungs = @ \ rows,
       !.pairs = [p \in Pairs |->
         IF @[p].trades \subseteq gone THEN NotHeld
         ELSE [@[p] EXCEPT !.trades = @ \ gone,
                           !.own = Less(@, {r \in rows : b.trades[r.trade].pair = p})]],
       !.legs = {l \in @ : l.trade \notin gone}]

(* Open trades joined by a market, directly or through others, are one      *)
(* position: sold together or not at all.                                   *)
Joined(b, S, T) == \E t \in S, u \in T : LegsOf(b.trades[t].pair) \cap LegsOf(b.trades[u].pair) # {}
Positions(b, open) ==
  {S \in SUBSET open : /\ S # {}
                       /\ ~ Joined(b, S, open \ S)
                       /\ \A T \in SUBSET S : T # {} /\ T # S => Joined(b, T, S \ T)}

SoldCopy(trade, n, d) == [trade EXCEPT !.n = n, !.copy = [on |-> d, got |-> n * SaleUnit]]
PairOf(b, t) == b.trades[t].pair
MarketsOf(b, S) == UNION {LegsOf(PairOf(b, t)) : t \in S}

(* sell: whole positions, at the checkpoint of day d.                       *)
Sell(b, d, positions) ==
  LET gone == UNION positions
      paid == SumOf(gone, LAMBDA t : b.trades[t].n * SaleUnit)
  IN Drop([b EXCEPT
            !.cash = @ + paid,
            !.trades = [t \in DOMAIN @ |-> IF t \in gone THEN SoldCopy(@[t], @[t].n, d) ELSE @[t]],
            !.here = MarketsOf(b, gone),
            !.traded = @ \ {PairOf(b, t) : t \in gone}],
          gone)

(* What a trim may look at: positions of one exact pair, both markets still *)
(* to pay out, or the later one of a time-series pair alone.                *)
Trimmable(b, d, S) ==
  \E p \in Pairs :
    /\ \A t \in S : PairOf(b, t) = p
    /\ \/ \A m \in LegsOf(p) : Settles[m] > d
       \/ Kind[p] = "time_series" /\ Settles[Legs[p][1]] <= d /\ Settles[Legs[p][2]] > d

Held(b, S) == SumOf(S, LAMBDA t : b.trades[t].n)
LastBoughtFirst(b, S, k) ==
  [t \in S |-> LET later == Held(b, {u \in S : u > t})
               IN IF later >= k THEN 0 ELSE Min({b.trades[t].n, k - later})]

(* trim: "plan" says how many contract pairs each position sells.  A trade  *)
(* sold whole is replaced and dropped, one sold in part is split.           *)
PendingAsBought(b, sold) == b.pending
StillToCome(b, sold) ==
  {[e EXCEPT !.amount = @ - (IF e.trade \in DOMAIN sold
                             THEN sold[e.trade] * Pays[PairOf(b, e.trade)] ELSE 0)] :
   e \in b.pending}

Trim(b, d, plan) ==
  LET trimmed == UNION DOMAIN plan
      sold == [t \in trimmed |->
                 LET S == CHOOSE X \in DOMAIN plan : t \in X IN LastBoughtFirst(b, S, plan[S])[t]]
      touched == {t \in trimmed : sold[t] > 0}
      gone == {t \in touched : sold[t] = b.trades[t].n}
      emptied == {S \in DOMAIN plan : plan[S] = Held(b, S)}
  IN Drop([b EXCEPT
            !.cash = @ + SumOf(touched, LAMBDA t : sold[t] * SaleUnit),
            !.parts = @ \cup {SoldCopy(b.trades[t], sold[t], d) : t \in touched \ gone},
            !.trades = [t \in DOMAIN @ |->
                          IF t \in gone THEN SoldCopy(@[t], @[t].n, d)
                          ELSE IF t \in touched THEN [@[t] EXCEPT !.n = @ - sold[t]]
                          ELSE @[t]],
            !.pending = StillToCome(b, sold),
            !.here = @ \cup MarketsOf(b, touched),
            !.traded = @ \ {PairOf(b, t) : t \in UNION emptied}],
          gone)
-----------------------------------------------------------------------------
(* Purchases.                                                               *)

OnLadder(p) == LadderOf[Legs[p][1]] \cup LadderOf[Legs[p][2]]
ShareLadder(p) == LadderOf[Legs[p][1]] \cap LadderOf[Legs[p][2]] # {}
FirstNotJustSold(b, p) == Legs[p][1] \notin b.here
NotJustSold(b, p) == LegsOf(p) \cap b.here = {}
Unsettled(p, d) == \A m \in LegsOf(p) : Settles[m] > d

(* The held legs a new pair would add to: exactly one of its markets is in  *)
(* use, held on the same side, its partner paid out.                        *)
LoneLegs(b, p, d) ==
  LET used == {i \in {1, 2} : Legs[p][i] \in b.active}
      on(i) == {l \in b.legs : l.market = Legs[p][i]}
  IN IF Cardinality(used) = 1
        /\ \A i \in used : \A l \in on(i) :
             l.partner <= d /\ d < l.paid /\ l.side = Side(p, i)
     THEN UNION {on(i) : i \in used} ELSE {}

OwnRungs(b, legs) == [k \in Ladders |-> Cardinality({l \in legs : k \in LadderOf[l.market]})]
NoOtherOn(b, p, own) == /\ ShareLadder(p)
                        /\ \A k \in OnLadder(p) : b.ladders[k] <= own[k]

MayAdd(b, p, d) ==
  /\ opts.add /\ p \in b.traded
  /\ b.pairs[p].trades # {}
  /\ Unsettled(p, d)
  /\ NoOtherOn(b, p, b.pairs[p].own)

Fresh(b, p, d) == p \notin b.traded /\ (Kind[p] = "same_title" => d = First[p])

MayAddToLone(b, p, d) ==
  /\ opts.add /\ Fresh(b, p, d) /\ Unsettled(p, d)
  /\ LoneLegs(b, p, d) # {}
  /\ NoOtherOn(b, p, OwnRungs(b, LoneLegs(b, p, d)))

EarlierRungFree(b, p) ==
  Kind[p] = "time_series" => \A k \in LadderOf[Legs[p][1]] : b.ladders[k] = 0
NoRungInUse(b, p) == Kind[p] = "time_series" => \A k \in OnLadder(p) : b.ladders[k] = 0

MayOpen(b, p, d) ==
  /\ Fresh(b, p, d)
  /\ opts.add /\ Unsettled(p, d) => LoneLegs(b, p, d) = {}
  /\ LegsOf(p) \cap b.active = {}
  /\ NoRungInUse(b, p)

(* A purchase of n contract pairs, entered in every book.                   *)
Buy(b, p, d, n, add) ==
  LET t == Len(b.trades) + 1
      leg(i) == [market |-> Legs[p][i], trade |-> t]
  IN [b EXCEPT
       !.cash = @ - n * Unit[p],
       !.trades = Append(@, [pair |-> p, n |-> n, entry |-> d, exit |-> ExitDay(p),
                             add |-> add, copy |-> NoCopy]),
       !.pending = @ \cup {[on |-> ExitDay(p), amount |-> n * Pays[p], trade |-> t]},
       !.open = @ \cup {t},
       !.active = @ \cup LegsOf(p),
       !.until = @ \cup {[on |-> ExitDay(p), market |-> m, trade |-> t] : m \in LegsOf(p)},
       !.ladders = [k \in Ladders |->
          @[k] + Cardinality({i \in {1, 2} : k \in LadderOf[Legs[p][i]]})],
       !.rungs = @ \cup {[on |-> Settles[m], market |-> m, trade |-> t] : m \in LegsOf(p)},
       !.pairs = IF opts.add
                 THEN [@ EXCEPT ![p] =
                        [trades |-> @.trades \cup {t}, until |-> ExitDay(p),
                         own |-> [k \in Ladders |-> @.own[k] +
                            Cardinality({i \in {1, 2} : k \in LadderOf[Legs[p][i]]})]]]
                 ELSE @,
       !.legs = IF opts.add
                THEN @ \cup {[market |-> Legs[p][i], trade |-> t, side |-> Side(p, i),
                              paid |-> Settles[Legs[p][i]],
                              partner |-> Settles[Legs[p][3 - i]]] : i \in {1, 2}}
                ELSE @,
       !.traded = @ \cup {p}]

(* A candidate is bought when some rule lets it and some size fits the cash.*)
Considered(b, p, d) ==
  {b} \cup
  IF NotJustSold(b, p) /\ Len(b.trades) < MaxTrades
     /\ (MayAdd(b, p, d) \/ MayAddToLone(b, p, d) \/ MayOpen(b, p, d))
  THEN {Buy(b, p, d, n, ~ MayOpen(b, p, d)) : n \in {k \in 1..MaxPairs : k * Unit[p] <= b.cash}}
  ELSE {}
-----------------------------------------------------------------------------
(* The walk.                                                                *)

NextDay == /\ day < LastDay
           /\ day' = day + 1 /\ at' = "new" /\ seen' = {}
           /\ UNCHANGED <<opts, books>>

SalesAt(b) == IF opts.sell THEN SUBSET Positions(b, b.open) ELSE {{}}
PlansAt(b, d) ==
  IF opts.trim
  THEN UNION {{f \in [P -> 1..(MaxTrades * MaxPairs)] : \A S \in P : f[S] <= Held(b, S)} :
              P \in SUBSET {S \in Positions(b, b.open) : Trimmable(b, d, S)}}
  ELSE {<<>>}

(* The sales of a checkpoint, then its trims, on books already released.    *)
AfterSales(b, d) == {Sell(b, d, positions) : positions \in SalesAt(b)}
AfterTrims(b, d) == {Trim(b, d, plan) : plan \in PlansAt(b, d)}

(* A checkpoint with no candidate: with nothing to sell it touches no book  *)
(* (and is then no step here); otherwise it releases, sells and trims.      *)
Checkpoint ==
  /\ at = "new" /\ (opts.sell \/ opts.trim)
  /\ \E b \in AfterSales(Release(books, day), day) : \E c \in AfterTrims(b, day) :
       /\ c.parts # books.parts \/ c.open # Release(books, day).open
       /\ books' = c
  /\ at' = "done"
  /\ UNCHANGED <<opts, day, seen>>

(* The first candidate of a day comes after the day's sales and trims.      *)
FirstCandidate(p) ==
  /\ at = "new" /\ p \notin seen /\ day < Min({Settles[m] : m \in LegsOf(p)})
  /\ \E b \in AfterSales(Release(books, day), day) : \E c \in AfterTrims(b, day) :
       books' \in Considered(c, p, day)
  /\ at' = "candidates"
  /\ seen' = {p}
  /\ UNCHANGED <<opts, day>>

LaterCandidate(p) ==
  /\ at = "candidates" /\ p \notin seen /\ day < Min({Settles[m] : m \in LegsOf(p)})
  /\ books' \in Considered(Release(books, day), p, day)
  /\ seen' = seen \cup {p}
  /\ UNCHANGED <<opts, day, at>>

Init == /\ opts \in [add : BOOLEAN, sell : BOOLEAN, trim : BOOLEAN]
        /\ day = 0 /\ at = "new" /\ seen = {}
        /\ books = Opening

Next == \/ NextDay
        \/ Checkpoint
        \/ \E p \in Pairs : FirstCandidate(p)
        \/ \E p \in Pairs : LaterCandidate(p)

Spec == Init /\ [][Next]_vars
-----------------------------------------------------------------------------
(* The list the walk hands back: each trade as sold, if it was, and the     *)
(* parts sold off it.                                                       *)
Final == {books.trades[t] : t \in DOMAIN books.trades}
IsSold(r) == r.copy # NoCopy
OutOn(r) == IF IsSold(r) THEN r.copy.on ELSE r.exit
Receipt(r) == IF IsSold(r) THEN r.copy.got ELSE r.n * Pays[r.pair]

(* _build_equity_curve: the cash at the end of a day, from the list alone.  *)
CurveCash(d) ==
  LET rows == Final \cup books.parts
  IN Funds - SumOf(rows, LAMBDA r : r.n * Unit[r.pair])
           + SumOf({r \in rows : OutOn(r) <= d}, Receipt)

(* The equity curve, built again from the trades handed back (copies,       *)
(* splits and all), has on every day exactly the cash the walk had, payouts *)
(* it has not yet released included.                                        *)
CurveMatchesWalk == Release(books, day).cash = CurveCash(day)

(* Once released, every book tells the same story: the open trades are the  *)
(* bought ones neither sold nor paid out, the markets in use are theirs     *)
(* (each unsettled one at least), each ladder counts their unsettled legs,  *)
(* and the held pairs and legs list exactly them.                           *)
BooksAgree ==
  LET b == Release(books, day)
      live == {t \in DOMAIN b.trades : OutOn(b.trades[t]) > day}
      rungs == {<<t, m>> \in live \X Markets : m \in LegsOf(PairOf(b, t)) /\ Settles[m] > day}
  IN /\ b.open = live
     /\ b.active \subseteq MarketsOf(b, live)
     /\ {r[2] : r \in rungs} \subseteq b.active
     /\ {PairOf(b, t) : t \in live} \subseteq b.traded
     /\ \A k \in Ladders : b.ladders[k] = Cardinality({r \in rungs : k \in LadderOf[r[2]]})
     /\ opts.add =>
          /\ \A p \in Pairs : b.pairs[p].trades = {t \in live : PairOf(b, t) = p}
          /\ {<<l.trade, l.market>> : l \in b.legs} = rungs

(* A market sold at a day's checkpoint, whole or in part, is not bought     *)
(* that day.                                                                *)
SoldNotReboughtThatDay ==
  \A r \in Final \cup books.parts, t \in Final :
    IsSold(r) /\ r.copy.on = t.entry => LegsOf(r.pair) \cap LegsOf(t.pair) = {}

(* A time-series pair is opened only on ladders no open trade has an        *)
(* unsettled market on; an addition, only when the only such markets are    *)
(* its own.                                                                 *)
OneStakeOnALadder ==
  \A t, u \in DOMAIN books.trades :
    LET old == books.trades[t]
        new == books.trades[u]
    IN t < u /\ OutOn(old) > new.entry /\ (new.add \/ Kind[new.pair] = "time_series") =>
         \A m \in LegsOf(old.pair) :
           \/ Settles[m] <= new.entry
           \/ LadderOf[m] \cap OnLadder(new.pair) = {}
           \/ new.add /\ m \in LegsOf(new.pair)
===============================================================================
