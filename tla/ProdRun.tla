------------------------------- MODULE ProdRun -------------------------------
(***************************************************************************)
(* main._run_prod with real money: read the account, plan and send sales,   *)
(* read the account back, size on what is left, choose pairs, fund and buy  *)
(* them, and write everything down.  A sale and a purchase are one step     *)
(* each here, with the outcomes PairSale and PairTrade give them, and so is *)
(* funding, which may drop any pair (ShardCollateral).  Prices, dates and   *)
(* wording decide which positions qualify; any of them may.                 *)
(*                                                                          *)
(* A position is a number of contracts, YES above zero and NO below; 0 is a *)
(* market not held.  Orders cost and return one unit of cash a contract.    *)
(***************************************************************************)
EXTENDS Integers, FiniteSets, FiniteSetsExt

CONSTANTS
    Markets,
    Labels,     \* market -> its ladder labels (scanner.market_ladder_keys)
    Pairs,      \* pairs the finders may meet: [kind, yes, no]
    Accounts,   \* what the account may start with: [pos, cash]
    Values,     \* Kalshi's value of the open positions, as it may be read
    Unread,     \* no such value: not read, or refused
    MinBalance, \* config.MIN_BALANCE_CENTS
    Payout,     \* config.CONTRACT_PAYOUT_DOLLARS
    Rechecks,   \* config.V2_MAPPING_ZERO_RECHECK_DELAYS_SECONDS: its length
    MaxOutside  \* bound: positions opened elsewhere while this run sells

ASSUME ProdRunAssumption ==
    /\ Labels \in [Markets -> SUBSET UNION {Labels[m] : m \in Markets}]
    /\ Pairs \subseteq [kind : {"time_series", "same_title"}, yes : Markets,
                        no : Markets]
    /\ \A p \in Pairs : p.yes # p.no
    /\ IsFiniteSet(Markets)
    /\ Accounts \subseteq [pos : [Markets -> Int], cash : Nat]
    /\ Unread \notin Int /\ Values \subseteq Nat \cup {Unread}
    /\ {MinBalance, Payout, MaxOutside} \subseteq Nat
    /\ Rechecks \in Nat \ {0}

VARIABLES
    pc,
    settings,  \* [sell, rebalance]: LiveSettings.sell_at is set, .rebalance
    cash,      \* the cash last read
    value,     \* checked_value_cents: the value that counts, or Unread
    held,      \* held_positions: the positions last listed
    complete,  \* held_listing["complete"]
    before,    \* the listing read at the start
    holding,   \* held_tickers
    known,     \* held_ladders is not None
    plans, sales,
    reads,     \* listings read after the sales
    pauses,    \* re-reads decided on at the first of them
    addOns,    \* add_on_pairs: the markets of each
    portfolio,
    statuses,  \* of the purchases
    marked,    \* report.submission_started
    recorded,  \* what the trade log or its rescue dump holds
    exit,      \* the exit code, by name
    pos, led,  \* the account: what it holds, and what its ledger shows
    sold,      \* history: market -> contracts truly sold
    uneven,    \* history: markets of pairs truly left uneven
    outside    \* history: positions opened elsewhere

account == <<pos, led>>
history == <<sold, uneven, outside>>
listing == <<held, complete, before, holding, known>>
selling == <<plans, sales, reads, pauses>>
buying  == <<addOns, portfolio, statuses>>
report  == <<marked, recorded>>
vars == <<pc, settings, cash, value, held, complete, before, holding, known,
          plans, sales, reads, pauses, addOns, portfolio, statuses, marked,
          recorded, exit, pos, led, sold, uneven, outside>>

----------------------------------------------------------------------------
(* Positions.                                                               *)

Abs(n) == IF n < 0 THEN -n ELSE n
Less(n, k) == IF n > 0 THEN n - k ELSE n + k
Listed(h) == {m \in Markets : h[m] # 0}
Ladders(ms) == UNION {Labels[m] : m \in ms}
Total(f, S) == MapThenSumSet(LAMBDA m : f[m], S)
Contracts(h) == Total([m \in Markets |-> Abs(h[m])], Markets)

\* Groups of held markets joined by shared labels: the least closed sets.
Closed(h) == {g \in SUBSET Listed(h) \ {{}} :
                 Ladders(g) \cap Ladders(Listed(h) \ g) = {}}
Groups(h) == {g \in Closed(h) : \A k \in Closed(h) : k \subseteq g => k = g}

\* scanner.held_pairs: one market alone on its ladder, or two that balance.
HeldPairs(h) ==
    {g \in Groups(h) : \/ Cardinality(g) = 1
                       \/ /\ Cardinality(g) = 2
                          /\ Total(h, g) = 0}

\* A listing of ledger l: what a listing cut short leaves out is not in it.
Listings(l, full) ==
    {[m \in Markets |-> IF m \in cut THEN 0 ELSE l[m]] :
        cut \in IF full THEN {{}} ELSE SUBSET Listed(l)}

\* _checked_positions_value: a value the contracts listed can back.
Checked(v, h, full) ==
    IF v = 0 \/ (v # Unread /\ full /\ v <= Payout * Contracts(h))
    THEN v ELSE Unread

Counted(v) == IF v = Unread THEN 0 ELSE v

Init ==
    /\ pc = "start" /\ exit = "none"
    /\ settings \in [sell : BOOLEAN, rebalance : BOOLEAN]
    /\ \E a \in Accounts : pos = a.pos /\ cash = a.cash
    /\ led = pos /\ held = [m \in Markets |-> 0] /\ before = held
    /\ value = Unread /\ complete = FALSE /\ holding = {} /\ known = FALSE
    /\ plans = {} /\ sales = {} /\ reads = 0 /\ pauses = 0
    /\ addOns = {} /\ portfolio = {} /\ statuses = {}
    /\ marked = FALSE /\ recorded = {}
    /\ sold = [m \in Markets |-> 0] /\ uneven = {} /\ outside = 0

Exit(code) == pc' = "done" /\ exit' = code

----------------------------------------------------------------------------
(* Reading the account and the markets.                                     *)

\* The balance and the positions; the minimum is applied to the cash and the
\* value as checked, which is the lower of the two times the code applies it.
ReadAccount ==
    /\ pc = "start"
    /\ \E v \in Values, full \in BOOLEAN :
       \E h \in Listings(led, full) :
          /\ held' = h /\ before' = h /\ complete' = full
          /\ holding' = Listed(h)
          /\ value' = Checked(v, h, full)
    /\ IF cash + Counted(value') < MinBalance
       THEN Exit("low_balance") ELSE pc' = "scan" /\ UNCHANGED exit
    /\ UNCHANGED <<settings, cash, known, selling, buying, report, account,
                   history>>

\* The markets; then the ladder of every market held, if all can be looked up.
Scan ==
    /\ pc = "scan"
    /\ \/ Exit("blind") /\ UNCHANGED known
       \/ /\ pc' = "plan" /\ UNCHANGED exit
          /\ known' \in IF holding = {} THEN {TRUE} ELSE BOOLEAN
    /\ UNCHANGED <<settings, cash, value, held, complete, before, holding,
                   selling, buying, report, account, history>>

----------------------------------------------------------------------------
(* Sales.                                                                   *)

Count(g) == LET m == CHOOSE m \in g : TRUE IN Abs(held[m])

Whole(gs) == {[legs |-> g, count |-> Count(g)] : g \in gs}

\* One part sale for each position in gs.
Trims(gs) == {{[legs |-> g, count |-> n[g]] : g \in gs} :
                 n \in {f \in [gs -> UNION {1 .. Count(g) : g \in gs}] :
                           \A g \in gs : f[g] <= Count(g)}}

\* Mutant: only purchases are marked.
MarkedBuysOnly(ps) == marked

\* report.submission_started is set before the first sale order.
Marked(ps) == marked \/ ps # {}

\* plan_sales and plan_trims; a trim also needs every shard's cash, a value
\* that counts and no resting order, any of which may be missing.
PlanSales ==
    /\ pc = "plan"
    /\ \E gs \in SUBSET HeldPairs(held) :
       \E ts \in SUBSET (HeldPairs(held) \ gs) :
          /\ gs # {} => settings.sell
          /\ ts # {} => settings.rebalance /\ value \notin {Unread, 0}
          /\ gs \cup ts # {} => known /\ complete
          /\ \E t \in Trims(ts) : plans' = Whole(gs) \cup t
    /\ marked' = Marked(plans')
    /\ pc' = IF plans' = {} THEN "search" ELSE "sell"
    /\ UNCHANGED <<settings, cash, value, listing, sales, reads, pauses,
                   buying, recorded, exit, account, history>>

\* PairSale's verdict on the two numbers sold, of n asked for.
Verdict(first, other, n) ==
    IF first = 0 THEN "not_sold"
    ELSE IF other < first THEN "unbalanced"
    ELSE IF first < n THEN "partly_sold"
    ELSE "sold"

\* What selling plan p may come to: gone is what left the account, sold what
\* the sale says of each market.  The account, asked because a reply was lost,
\* may trail and say less; nothing is said of a number that cannot be told.
Outcome(p, gone, said, byAccount, status) ==
    [legs |-> p.legs, gone |-> gone, sold |-> said, byAccount |-> byAccount,
     status |-> status]

LoneOutcomes(p) ==
    UNION {
      {Outcome(p, [x \in p.legs |-> n], [x \in p.legs |-> r], r < n \/ b,
               Verdict(r, r, p.count)) : r \in 0 .. n, b \in BOOLEAN}
      \cup {Outcome(p, [x \in p.legs |-> n], <<>>, b, "manual_review") :
               b \in BOOLEAN}
      : n \in 0 .. p.count}

PairOutcomes(p, first, other) ==
    LET Two(i, j) == [x \in {first, other} |-> IF x = first THEN i ELSE j]
    IN  UNION {(UNION {UNION {
          \* Both numbers told.
          {Outcome(p, Two(i, j), Two(ri, rj), ri < i \/ rj < j \/ b,
                   Verdict(ri, rj, p.count)) : rj \in 0 .. j, b \in BOOLEAN}
          \* The second number cannot be told.
          \cup (IF ri = 0 THEN {}
                ELSE {Outcome(p, Two(i, j), [x \in {first} |-> ri], TRUE,
                              "manual_review")})
          : j \in 0 .. ri} : ri \in 0 .. i})
          \* The first cannot be told, or an order raises.
          \cup {Outcome(p, Two(i, 0), [x \in {other} |-> 0], TRUE,
                        "manual_review")}
          \cup {Outcome(p, Two(i, j), <<>>, FALSE, "manual_review") :
                   j \in 0 .. i}
          : i \in 0 .. p.count}

Outcomes(p) ==
    IF Cardinality(p.legs) = 1 THEN LoneOutcomes(p)
    ELSE UNION {PairOutcomes(p, m, CHOOSE x \in p.legs : x # m) : m \in p.legs}

NeedsPerson(s) == s.status \in {"unbalanced", "manual_review"}

\* _sold_tickers: what is kept out of every purchase for the rest of the run.
SoldTickers(ss) ==
    UNION {{m \in DOMAIN s.sold : s.sold[m] > 0}
              \cup (IF NeedsPerson(s) THEN s.legs ELSE {}) : s \in ss}

Planned(ss) == UNION {s.legs : s \in ss}

ReadBackDue(ss) == SoldTickers(ss) # {} \/ \E s \in ss : s.byAccount

SellOne ==
    /\ pc = "sell"
    /\ \E p \in plans : \E s \in Outcomes(p) :
          /\ p.legs \cap Planned(sales) = {}
          /\ sales' = sales \cup {s}
          /\ sold' = [m \in Markets |-> IF m \in s.legs THEN s.gone[m]
                                        ELSE sold[m]]
          /\ pos' = [m \in Markets |-> IF m \in s.legs
                                       THEN Less(pos[m], s.gone[m])
                                       ELSE pos[m]]
          /\ uneven' = uneven \cup
                (IF \E m, x \in s.legs : s.gone[m] # s.gone[x] THEN s.legs
                 ELSE {})
    /\ pc' = IF Cardinality(sales') < Cardinality(plans) THEN "sell"
             ELSE IF ReadBackDue(sales') THEN "read_back" ELSE "record"
    /\ UNCHANGED <<settings, cash, value, listing, plans, reads, pauses,
                   buying, report, exit, led, outside>>

----------------------------------------------------------------------------
(* Reading the account back.                                                *)

\* How much sold the listing shows on m, for the sales that may be compared.
Shown(m, h) == IF before[m] > 0 THEN before[m] - h[m] ELSE h[m] - before[m]

Compared(s, h, full) ==
    {m \in DOMAIN s.sold : /\ s.sold[m] > 0 \/ s.byAccount
                           /\ before[m] # 0 /\ (h[m] # 0 \/ full)}

\* _listing_misses_sales: the sales that do not show, and those showing more.
Late(ss, h, full) ==
    UNION {{m \in Compared(s, h, full) :
               \/ Shown(m, h) < s.sold[m]
               \/ Shown(m, h) > s.sold[m] /\ ~s.byAccount} : s \in ss}
More(ss, h, full) ==
    UNION {{m \in Compared(s, h, full) :
               Shown(m, h) > s.sold[m] /\ s.byAccount} : s \in ss}

\* _account_decided_short
Short(ss) == \E s \in ss : /\ s.byAccount /\ DOMAIN s.sold # {}
                           /\ s.status \in {"partly_sold", "not_sold",
                                            "unbalanced"}

Pauses(late, more) == IF Short(sales) THEN Rechecks
                      ELSE IF late \cup more # {} THEN 1 ELSE 0

\* Mutant: only a sale that shows more ends the reading.
LastReadMore(n, of, more) == n >= 1 /\ more # {}

\* Whether the n-th re-read, of so many, is the last.
LastRead(n, of, more) == n = of \/ (n >= 1 /\ more # {})

\* Mutant: the sales stand as they were recorded.
FlaggedNever(ss, more) == ss

\* _flag_sales_sold_more
Flagged(ss, more) ==
    {IF DOMAIN s.sold \cap more = {} THEN s
     ELSE [s EXCEPT !.status = "manual_review"] : s \in ss}

\* Mutant: a sale that does not show yet is no reason to refuse the value.
KeptLate(v, h, full, late, soldAny) ==
    IF soldAny /\ value # Unread /\ v # Unread /\ v > 0 /\ v >= value
    THEN Unread ELSE Checked(v, h, full)

\* _value_after_sales: refused while it may still count what was sold.
Kept(v, h, full, late, soldAny) ==
    IF /\ v \notin {Unread, 0}
       /\ late # {} \/ (soldAny /\ value # Unread /\ v >= value)
    THEN Unread ELSE Checked(v, h, full)

\* The ledger may trail the sales; what it has shown it goes on showing.
Trailing == {m \in Markets : led[m] # pos[m]}
Behind(m) == Abs(led[m] - pos[m])

\* _positions_after_sales, one listing a step; after the last of them the
\* balance, and everything that depends on what the sales left.
ReadBack ==
    /\ pc = "read_back"
    /\ \E full \in BOOLEAN,
         shows \in [Trailing -> UNION {0 .. Behind(m) : m \in Trailing}] :
          /\ \A m \in Trailing : shows[m] <= Behind(m)
          /\ led' = [m \in Markets |-> IF m \in Trailing
                                        THEN Less(led[m], shows[m]) ELSE led[m]]
          /\ complete' = full
          /\ held' \in Listings(led', full)
    /\ LET late == Late(sales, held', complete')
           more == More(sales, held', complete')
       IN  /\ reads' = reads + 1
           /\ pauses' = IF reads = 0 THEN Pauses(late, more) ELSE pauses
           /\ IF ~LastRead(reads, pauses', more)
              THEN UNCHANGED <<pc, sales, cash, value, holding, known>>
              ELSE /\ pc' = "record"
                   /\ sales' = Flagged(sales, more)
                   /\ cash' = cash + Total(sold, Markets)
                   /\ value' \in {Kept(v, held', complete', late,
                                       SoldTickers(sales') # {}) : v \in Values}
                   /\ holding' = Listed(held') \cup
                                    (IF complete' THEN {} ELSE holding)
                   /\ known' = (holding' \subseteq holding)
    /\ UNCHANGED <<settings, before, plans, buying, report, exit, pos,
                   history>>

\* A reading raises: the sales go on record and the error stops the run.
ReadBackRaises ==
    /\ pc = "read_back"
    /\ recorded' = recorded \cup {"sales"} /\ Exit("raised")
    /\ UNCHANGED <<settings, cash, value, listing, selling, buying, marked,
                   account, history>>

\* _record_sales: written, or dumped to the log and the run stopped.
RecordSales ==
    /\ pc = "record"
    /\ recorded' = recorded \cup {"sales"}
    /\ \/ pc' = "search" /\ UNCHANGED exit
       \/ Exit("raised")
    /\ UNCHANGED <<settings, cash, value, listing, selling, buying, marked,
                   account, history>>

----------------------------------------------------------------------------
(* What may be bought.                                                      *)

\* Mutant: only what was truly sold is kept from being added to.
MayAddSold(g, h) == g \in HeldPairs(h) /\ g \cap SoldTickers(sales) = {}

\* held_pairs, less every position picked for a sale, whatever came of it.
MayAdd(g, h) ==
    /\ g \in HeldPairs(h)
    /\ g \cap (Planned(sales) \cup SoldTickers(sales)) = {}

\* The positions that may be added to; prices and waits may leave any out.
Search ==
    /\ pc = "search" /\ pc' = "pick"
    /\ addOns' \in
          IF /\ settings.rebalance /\ known /\ complete
             /\ Listed(held) = {} \/ value # Unread
          THEN SUBSET {g \in SUBSET Listed(held) : MayAdd(g, held)}
          ELSE {{}}
    /\ UNCHANGED <<settings, cash, value, listing, selling, portfolio,
                   statuses, report, exit, account, history>>

AddOnMarkets == UNION addOns
Blocked == (holding \ AddOnMarkets) \cup SoldTickers(sales)
Both(p) == {p.yes, p.no}

\* scanner._add_on_for: the markets of the position pair p would add to, or {}.
AddOnFor(p) ==
    LET lone == {m \in Both(p) : {m} \in addOns}
    IN  IF Both(p) \in addOns THEN Both(p)
        ELSE IF Cardinality(lone) = 1 /\ (Both(p) \ lone) \cap AddOnMarkets = {}
             THEN lone ELSE {}

\* A time-series pair adds to a lone leg only if its new market is on no ladder
\* but that leg's.
AddsTo(p) ==
    LET g == AddOnFor(p)
    IN  IF /\ p.kind = "time_series" /\ Cardinality(g) = 1
           /\ Ladders(Both(p) \ g) \cap (Ladders(holding) \ Ladders(g)) # {}
        THEN {} ELSE g

\* Mutant: the sides of an add-on are not compared with what is held.
SidesAny(p, g) == TRUE

\* HeldPair.matches: each held market bought on the side it is held on.
SidesMatch(p, g) == \A m \in g : (held[m] > 0) = (m = p.yes)

\* find_time_series_pairs and find_same_title_pairs, after the held and the
\* sold markets are dropped.
Found(p) ==
    LET g == AddsTo(p)
    IN  /\ Both(p) \cap Blocked = {}
        /\ SidesMatch(p, g)
        /\ g = {} => Both(p) \cap AddOnMarkets = {}
        /\ p.kind = "time_series" =>
              /\ known
              /\ g = {} => Ladders(Both(p)) \cap Ladders(holding) = {}

Picked == UNION {Both(p) : p \in portfolio}

\* Mutant: the ladders held are all that block a pair.
BlockingHeld(p) == IF AddsTo(p) # {} THEN {} ELSE Ladders(holding)

\* select_portfolio: the ladders on which a time-series pair may not be.
Blocking(p) ==
    LET g == AddsTo(p)
    IN  Ladders(Picked) \cup
            IF g = {} THEN Ladders(holding)
            ELSE IF Cardinality(g) = 1 THEN Ladders(holding) \ Ladders(g)
            ELSE {}

\* select_portfolio's loop: the pairs come best first, in any order here, and
\* each is taken if its markets and ladders are free and the cash is there.
Pick ==
    /\ pc = "pick"
    /\ \E p \in Pairs \ portfolio :
          /\ Found(p) /\ Both(p) \cap Picked = {}
          /\ p.kind = "time_series" =>
                Ladders(Both(p)) \cap Blocking(p) = {}
          /\ Cardinality(portfolio) < cash
          /\ portfolio' = portfolio \cup {p}
    /\ UNCHANGED <<pc, settings, cash, value, listing, selling, addOns,
                   statuses, report, exit, account, history>>

\* The exit code of every return that finds nothing wrong with the purchases.
CleanExit == IF \E s \in sales : NeedsPerson(s) THEN "attention"
             ELSE IF known THEN "ok" ELSE "no_time_series"

\* pre_execution_check and ensure_shard_collateral drop any of the pairs; with
\* none left the run ends, else report.submission_started is set.
Fund ==
    /\ pc = "pick"
    /\ portfolio' \in SUBSET portfolio
    /\ IF portfolio' = {}
       THEN Exit(CleanExit) /\ UNCHANGED marked
       ELSE marked' = TRUE /\ pc' = "buy" /\ UNCHANGED exit
    /\ UNCHANGED <<settings, cash, value, listing, selling, addOns, statuses,
                   recorded, account, history>>

\* PairTrade's results: the status, and the markets on which it bought.
Results(p) ==
    {<<"executed", Both(p)>>, <<"failed", {}>>, <<"rolled_back", {}>>,
     <<"rollback_failed", {p.no}>>}
        \cup {<<"manual_review", b>> : b \in SUBSET Both(p)}

Buy ==
    /\ pc = "buy" /\ pc' = "log"
    /\ \E r \in [portfolio -> UNION {Results(p) : p \in portfolio}] :
          /\ \A p \in portfolio : r[p] \in Results(p)
          /\ statuses' = {r[p][1] : p \in portfolio}
          /\ pos' = [m \in Markets |->
                        pos[m]
                        + Cardinality({p \in portfolio : m = p.yes /\ m \in r[p][2]})
                        - Cardinality({p \in portfolio : m = p.no /\ m \in r[p][2]})]
          /\ uneven' = uneven \cup
                UNION {Both(p) : p \in {q \in portfolio :
                                           Cardinality(r[q][2]) = 1}}
    /\ UNCHANGED <<settings, cash, value, listing, selling, addOns, portfolio,
                   report, exit, led, sold, outside>>

\* The trade log, or its rescue dump before the error stops the run.
Log ==
    /\ pc = "log"
    /\ recorded' = recorded \cup {"trades"}
    /\ \/ Exit("raised")
       \/ Exit(IF statuses \cap {"rollback_failed", "manual_review"} # {}
               THEN "attention" ELSE CleanExit)
    /\ UNCHANGED <<settings, cash, value, listing, selling, buying, marked,
                   account, history>>

----------------------------------------------------------------------------
(* What may happen around the run.                                          *)

\* A request fails for good where nothing catches it.
Raise ==
    /\ pc \in {"start", "scan", "plan", "search", "pick"}
    /\ Exit("raised")
    /\ UNCHANGED <<settings, cash, value, listing, selling, buying, report,
                   account, history>>

\* Ctrl-C.
Interrupt ==
    /\ pc # "done" /\ Exit("interrupted")
    /\ UNCHANGED <<settings, cash, value, listing, selling, buying, report,
                   account, history>>

\* Someone opens a position on a market not held, while this run sells.
OutsideTrade ==
    /\ pc = "sell" /\ outside < MaxOutside
    /\ \E m \in {x \in Markets : before[x] = 0 /\ pos[x] = 0} :
          pos' = [pos EXCEPT ![m] = 1] /\ led' = [led EXCEPT ![m] = 1]
    /\ outside' = outside + 1
    /\ UNCHANGED <<pc, settings, cash, value, listing, selling, buying,
                   report, exit, sold, uneven>>

Finished == pc = "done" /\ UNCHANGED vars

Next == \/ ReadAccount \/ Scan \/ PlanSales \/ SellOne \/ ReadBack
        \/ ReadBackRaises \/ RecordSales \/ Search \/ Pick \/ Fund \/ Buy \/ Log
        \/ Raise \/ Interrupt \/ OutsideTrade \/ Finished
Spec == Init /\ [][Next]_vars

----------------------------------------------------------------------------
(* Properties.                                                              *)

TypeOK ==
    /\ pc \in {"start", "scan", "plan", "sell", "read_back", "record",
               "search", "pick", "buy", "log", "done"}
    /\ exit \in {"none", "ok", "no_time_series", "attention", "low_balance",
                 "blind", "raised", "interrupted"}
    /\ value \in Values \cup {Unread} /\ cash \in Nat
    /\ holding \subseteq Markets /\ {known, complete, marked} \subseteq BOOLEAN
    /\ reads \in 0 .. Rechecks + 1 /\ pauses \in 0 .. Rechecks
    /\ addOns \subseteq SUBSET Markets /\ portfolio \subseteq Pairs
    /\ recorded \subseteq {"sales", "trades"}
    /\ \A m \in Markets : sold[m] \in 0 .. Abs(before[m])

Buying == pc \in {"pick", "buy"}

\* A market this run sold anything on is never bought on again, whatever the
\* sale was taken to have sold and however late the ledger is.
NeverRebuysSold == Buying => \A m \in Picked : sold[m] = 0

\* The account is as this run read it, but for what the run itself did.
Read == outside = 0 /\ \A m \in Markets : Abs(before[m]) = sold[m] + Abs(pos[m])

\* No purchase takes the opposite side of a position, which would close it.
NeverTradesAgainstHolding ==
    Buying /\ Read => \A p \in portfolio : pos[p.yes] >= 0 /\ pos[p.no] <= 0

\* A time-series purchase shares no ladder with another position held or with
\* another time-series purchase: one bet on each question.
OneStakePerLadder ==
    Buying /\ Read =>
        \A p \in portfolio : p.kind = "time_series" =>
            \A m \in Markets \ Both(p) :
                \/ pos[m] # 0
                \/ \E q \in portfolio : q.kind = "time_series" /\ m \in Both(q)
                => Labels[m] \cap Ladders(Both(p)) = {}

\* Purchases are on no ladder, and against no position, that the account holds.
PurchasesFitHoldings ==
    TypeOK /\ NeverTradesAgainstHolding /\ OneStakePerLadder

\* Every sale says what left the account, or the ledger shows it.
Settled == \/ led = pos
           \/ \A s \in sales : s.sold = s.gone

\* The purchases are sized on a value of the positions that the contracts still
\* held can pay: what was sold is not counted beside the cash it brought.
ValueBackedByContracts ==
    Buying /\ Settled => Counted(value) <= Payout * Contracts(pos)

\* However the run ends, the result says so when orders may have been sent, and
\* unless it was interrupted every sale and purchase is on record; nothing is
\* bought before the sales are.
EveryOrderAccountedFor ==
    LET sent == \E m \in Markets : sold[m] > 0
    IN  /\ sent \/ statuses # {} => marked
        /\ pc = "done" /\ exit # "interrupted" =>
              /\ sent => "sales" \in recorded
              /\ statuses # {} => "trades" \in recorded
        /\ pc = "buy" /\ sent => "sales" \in recorded

\* A run that ends as nothing amiss left no pair uneven, once its last listing
\* was whole and the ledger had caught up.
NoSilentImbalance ==
    /\ exit \in {"ok", "no_time_series"} /\ complete /\ outside = 0
    /\ reads > 0 => led = [m \in Markets |->
                              IF m \in Planned(sales)
                              THEN Less(before[m], sold[m]) ELSE led[m]]
    => uneven = {}
=============================================================================
