----------------------------- MODULE PairSizing -----------------------------
(***************************************************************************)
(* From the pairs the scan found to the orders: pricing each on the books   *)
(* of its two markets (enrich_with_orderbook_prices), sizing it by Kelly    *)
(* (compute_trade), choosing what the cash pays for (select_portfolio), and *)
(* looking at the books once more before the orders (pre_execution_check).  *)
(*                                                                           *)
(* Prices are in ticks of a contract's payout, contracts are whole, and a   *)
(* book has one price for each contract on offer.  What n contracts cost at *)
(* their average price is kept as the two sums paid; fractions [n, d] are   *)
(* compared by multiplication, so the slack for rounding is left out.       *)
(***************************************************************************)
EXTENDS Integers, Sequences, FiniteSets, SequencesExt, FiniteSetsExt

CONSTANTS
    None,
    Payout,
    TakerFee,  \* the fee rate
    Coarse, Fine, Edge,  \* tick sizes: Coarse, but 1 within Edge of 0 or the payout in Fine
    Slippage,
    Worlds,    \* [pairs: a sequence of pairs, held: the ladders held]
    Discount,  \* k
    SizeCap, SameTitleCap, SameTitleChance,
    Floor, Ceiling,  \* of pB - pA
    SameTitleDiff,
    Replies,   \* what each market's book may be asked to: [under, sides], or None for a failure
    Values, Cashes

VARIABLES
    world,
    books,   \* each market's reply, when it is asked
    account, \* [value, cash]
    stage,   \* "scanned", "sized", "picked", "moved" or "checked"
    specs,   \* a trade for each pair that has one
    chosen   \* those picked, in order; at the end those that passed the last look

vars == <<world, books, account, stage, specs, chosen>>

Leg == {"a", "b"}
Side(pair, leg) == IF (pair.kind = "time_series") = (leg = "a") THEN "yes" ELSE "no"
Other(side) == IF side = "yes" THEN "no" ELSE "yes"

Leq(x, y) == x.n * y.d <= y.n * x.d
Least(x, y) == IF Leq(x, y) THEN x ELSE y
CeilDiv(x, y) == (x + y - 1) \div y
SumOf(seq) == FoldLeft(LAMBDA x, y : x + y, 0, seq)

-----------------------------------------------------------------------------
(* The books.                                                               *)

\* The generations of keys are not mixed: the container says which sides may be
\* under it, dollars before cents; an empty container is a book without bids.
FetchOrderbook(reply) ==
    LET known == IF reply.under = "orderbook_fp" THEN {"dollars"} ELSE {"dollars", "cents"}
        Whole(bids) == SelectSeq(bids, LAMBDA x : 0 < x /\ x < Payout)
        cents == reply.sides["cents"]
    IN  IF reply = None THEN None
        ELSE IF DOMAIN reply.sides = {} THEN [yes |-> <<>>, no |-> <<>>]
        ELSE IF known \cap DOMAIN reply.sides = {} THEN None
        ELSE IF "dollars" \in DOMAIN reply.sides THEN reply.sides["dollars"]
        ELSE [yes |-> Whole(cents.yes), no |-> Whole(cents.no)]

Read(replies) == [m \in DOMAIN replies |-> FetchOrderbook(replies[m])]

\* A bid for one side is an ask for the other; prices nobody can pay are dropped.
Asks(bids) ==
    LET Usable(x) == 0 < x /\ x < Payout
    IN  SortSeq(SelectSeq([i \in DOMAIN bids |-> Payout - bids[i]], Usable), <)

LegAsks(pair, leg, bk) == Asks(bk[pair[leg]][Other(Side(pair, leg))])

\* The i-th contract of one leg with the i-th of the other.
PairOrderbooks(pair, bk) ==
    LET a == LegAsks(pair, "a", bk)
        b == LegAsks(pair, "b", bk)
    IN  [i \in 1 .. Min({Len(a), Len(b)}) |-> [a |-> a[i], b |-> b[i]]]

\* What the first n pairs of contracts cost; None beyond the levels.
PrefixFill(levels, n) ==
    IF n < 1 \/ n > Len(levels) THEN None
    ELSE [l \in Leg |-> SumOf([i \in 1 .. n |-> levels[i][l]])]

Cost(fill) == fill.a + fill.b

\* Fees of n pairs before rounding, and everything to be compared with them, times Scale(n).
Scale(n) == n * Payout * TakerFee.d
FeeApprox(pair, fill, n) ==
    TakerFee.n * (pair.mult.a * fill.a * (Payout * n - fill.a)
                    + pair.mult.b * fill.b * (Payout * n - fill.b))
NetSpread(pair, fill, n) == (Payout * n - Cost(fill)) * Scale(n) - FeeApprox(pair, fill, n)

\* The fee of n contracts of a leg at the average price sum / of, rounded up.
FeeAt(pair, leg, n, sum, of) ==
    CeilDiv(TakerFee.n * pair.mult[leg] * n * sum * (Payout * of - sum),
            of * of * Payout * TakerFee.d)
FeesAt(pair, n, fill, of) == FeeAt(pair, "a", n, fill.a, of) + FeeAt(pair, "b", n, fill.b, of)
CostWithFees(pair, fill, n) == Cost(fill) + FeesAt(pair, n, fill, n)
MinPayoff(pair, fill, n) == Payout * n - CostWithFees(pair, fill, n)

-----------------------------------------------------------------------------
(* The limit an order carries.                                              *)

TickSize(market, sum, n) ==
    IF market \in Fine /\ 0 <= sum /\ sum <= Payout * n
         /\ (sum <= Edge * n \/ sum >= (Payout - Edge) * n)
    THEN 1 ELSE Coarse

CeilToTick(sum, n, tick) == CeilDiv(sum, n * tick) * tick

LimitPrice(market, side, sum, n) ==
    LET tick  == TickSize(market, sum, n)
        cap   == CeilToTick(sum, n, tick) + Slippage * tick
        price == IF side = "no" THEN Payout - cap ELSE cap
        onTick == CeilToTick(price, 1, TickSize(market, price, 1))
    IN  Min({Max({onTick, TickSize(market, 0, 1)}), Payout - TickSize(market, Payout, 1)})

EffectiveCap(market, side, sum, n) ==
    IF side = "no" THEN Payout - LimitPrice(market, side, sum, n)
    ELSE LimitPrice(market, side, sum, n)

Limits(pair, fill, n) == [l \in Leg |-> EffectiveCap(pair[l], Side(pair, l), fill[l], n)]

Within(level, limits) == level.a <= limits.a /\ level.b <= limits.b
Reachable(pair, levels, fill, n) ==
    Len(SelectSeq(levels, LAMBDA level : Within(level, Limits(pair, fill, n))))

-----------------------------------------------------------------------------
(* Pricing a pair on its books.                                             *)

MaxSum(pair) == Payout - (IF pair.kind = "time_series" THEN Floor ELSE SameTitleDiff)

EveryLevel(pair, bk) == PairOrderbooks(pair, bk)
\* The contracts whose price leaves the gap, up to the first with no edge after fees.
QualifyingLevels(pair, bk) ==
    LET gap == SelectSeq(PairOrderbooks(pair, bk), LAMBDA l : l.a + l.b <= MaxSum(pair))
        bad == {i \in DOMAIN gap : NetSpread(pair, gap[i], 1) <= 0}
    IN  SubSeq(gap, 1, Min(bad \cup {Len(gap) + 1}) - 1)

\* The YES ask of the later market, which prices the forecast.
ReferenceAsk(pair, bk) == LET asks == Asks(bk[pair.b].no) IN IF asks = <<>> THEN None ELSE asks[1]

SizeCapOf(pair) == IF pair.kind = "time_series" THEN SizeCap ELSE Least(SizeCap, SameTitleCap)
MaxKellyFraction(pair) ==
    Least(SizeCapOf(pair), IF pair.kind = "time_series"
                           THEN [n |-> Discount.d - Discount.n, d |-> Discount.d] ELSE SameTitleChance)

\* How many contract pairs of a price a budget (of ticks, [n, d]) and the cash pay for.
Affordable(budget, fill, n) ==
    Min({(budget.n * n) \div (budget.d * Cost(fill)), (account.cash * n) \div Cost(fill)})

\* A book whose YES ask lies below its own YES bid.
Crossed(yesAsk, noAsk) == yesAsk + noAsk < Payout
NothingCrossed(pair, bk) ==
    LET noAsks == Asks(bk[pair.a].yes)
    IN  /\ ~Crossed(ReferenceAsk(pair, bk), LegAsks(pair, "b", bk)[1])
        /\ ~Crossed(LegAsks(pair, "a", bk)[1], IF noAsks = <<>> THEN Payout ELSE noAsks[1])

\* pB - pA, times n: positive, not under the floor, not over the ceiling.
SpreadTaken(spread, n) == 0 < spread /\ Floor * n <= spread /\ spread <= Ceiling * n

\* For a time-series pair: the later market still prices above the YES leg.
DirectionOk(pair, bk, levels, fill, n) ==
    LET ref == ReferenceAsk(pair, bk)
    IN  /\ ref # None
        /\ NothingCrossed(pair, bk)
        /\ SpreadTaken(ref * n - fill.a, n)
        /\ SpreadTaken(ref - levels[1].a, 1)

\* Twice the distance between the two markets' midpoints.
MidSpread(pair, bk) ==
    LET noAsks == Asks(bk[pair.a].yes)
        yesA   == LegAsks(pair, "a", bk)[1]
        noA    == IF noAsks = <<>> THEN Payout ELSE noAsks[1]
        yesB   == ReferenceAsk(pair, bk)
        noB    == LegAsks(pair, "b", bk)[1]
    IN  2 * (yesB - yesA) - ((yesB + noB) - (yesA + noA))

\* [levels, most, mid], or None when the pair cannot be traded.
EnrichPair(pair, bk) ==
    IF bk[pair.a] = None \/ bk[pair.b] = None THEN None
    ELSE LET levels == QualifyingLevels(pair, bk)
             bound  == MaxKellyFraction(pair)
             most   == IF levels = <<>> THEN 0
                       ELSE Min({Len(levels),
                                 Affordable([n |-> account.value * bound.n, d |-> bound.d], levels[1], 1)})
             fill   == PrefixFill(levels, most)
         IN  IF fill = None \/ NetSpread(pair, fill, most) <= 0 THEN None
             ELSE IF pair.kind # "time_series" THEN [levels |-> levels, most |-> most, mid |-> 0]
             ELSE IF DirectionOk(pair, bk, levels, fill, most)
             THEN [levels |-> levels, most |-> most, mid |-> MidSpread(pair, bk)] ELSE None

-----------------------------------------------------------------------------
(* Sizing it.                                                               *)

KellyP(pair, e) ==
    IF pair.kind = "time_series"
    THEN [n |-> 2 * Payout * Discount.d - Discount.n * Max({0, e.mid}), d |-> 2 * Payout * Discount.d]
    ELSE SameTitleChance

\* p - q / b, for n pairs at what they cost; to be read only with an edge.
KellyFraction(pair, e, fill, n) ==
    LET p   == KellyP(pair, e)
        net == NetSpread(pair, fill, n)
        out == Cost(fill) * Scale(n) + FeeApprox(pair, fill, n)
    IN  [n |-> p.n * net - (p.d - p.n) * out, d |-> p.d * net]

BudgetWithoutStake(pair, e, fill, n) ==
    LET share == Least(SizeCapOf(pair), KellyFraction(pair, e, fill, n))
    IN  [n |-> account.value * share.n, d |-> share.d]
\* What may be spent on n pairs: the Kelly share of the value less what is held of the pair.
Budget(pair, e, fill, n) ==
    LET share == Least(SizeCapOf(pair), KellyFraction(pair, e, fill, n))
    IN  [n |-> account.value * share.n - pair.stake * share.d, d |-> share.d]

\* _evaluate_size: n pairs can be bought within their limits and are worth having.
WorthHaving(pair, e, n) ==
    LET fill == PrefixFill(e.levels, n)
    IN  /\ fill # None
        /\ Reachable(pair, e.levels, fill, n) >= n
        /\ NetSpread(pair, fill, n) > 0
        /\ KellyFraction(pair, e, fill, n).n > 0
        /\ Budget(pair, e, fill, n).n > 0

Fits(pair, e, n) ==
    /\ WorthHaving(pair, e, n)
    /\ LET fill == PrefixFill(e.levels, n)
       IN  n <= Min({Affordable(Budget(pair, e, fill, n), fill, n), e.most})

\* _solve_marginal_size.
SolveMarginalSize(pair, e) ==
    LET From[low \in 1 .. e.most + 1, high \in 0 .. e.most] ==
            LET middle == (low + high) \div 2
            IN  IF low > high THEN 0
                ELSE IF Fits(pair, e, middle) THEN Max({middle, From[middle + 1, high]})
                ELSE From[low, middle - 1]
    IN  From[1, e.most]

\* The most pairs, at the price of `of` pairs, that a budget pays for with exact fees.
PaidFor(pair, fill, of, budget) ==
    Max({0} \cup {n \in 1 .. of :
            n * Cost(fill) * budget.d + FeesAt(pair, n, fill, of) * of * budget.d <= budget.n * of})

SolvedCount(pair, e, solved) == solved
\* compute_trade: fewer pairs cost less each, so each trim is priced again.
FinalCount(pair, e, solved) ==
    LET budget == Budget(pair, e, PrefixFill(e.levels, solved), solved)
        Reach[n \in 0 .. solved] ==
            IF n = 0 THEN 0
            ELSE LET reach == Reachable(pair, e.levels, PrefixFill(e.levels, n), n)
                 IN  IF reach >= n THEN n ELSE Reach[reach]
        Settle[n \in 0 .. solved] ==
            LET paid == PaidFor(pair, PrefixFill(e.levels, n), n,
                                Least(budget, [n |-> account.cash, d |-> 1]))
            IN  IF n = 0 \/ paid = n THEN n ELSE Settle[Reach[paid]]
    IN  Settle[solved]

NeedAtAverage(pair, fill, n) == CostWithFees(pair, fill, n)
\* _order_cash_cents: both orders at their limits, with the highest fee on the way there.
CashNeed(pair, fill, n) ==
    LET Need(l) ==
            LET limit == n * Limits(pair, fill, n)[l]
                low   == Min({limit, fill[l]})
                high  == Max({limit, fill[l]})
                worst == Min({Max({(Payout * n) \div 2, low}), high})
            IN  high + FeeAt(pair, l, n, worst, n)
    IN  Need("a") + Need("b")

Spec(pair, e, n) ==
    [pair |-> pair, x |-> n, of |-> n, enriched |-> e, need |-> CashNeed(pair, PrefixFill(e.levels, n), n)]

ComputeTrade(pair, e) ==
    LET solved == IF e = None THEN 0 ELSE SolveMarginalSize(pair, e)
        n      == IF solved = 0 THEN 0 ELSE FinalCount(pair, e, solved)
    IN  IF n = 0 THEN None
        ELSE IF MinPayoff(pair, PrefixFill(e.levels, n), n) <= 0 THEN None ELSE Spec(pair, e, n)

-----------------------------------------------------------------------------
(* Choosing what the cash pays for.                                         *)

\* _spec_at_count: fewer pairs of a trade still reach, pay and are worth having.
StillPays(spec, n) ==
    LET pair == spec.pair
        fill == PrefixFill(spec.enriched.levels, n)
        p    == KellyP(pair, spec.enriched)
    IN  /\ Reachable(pair, spec.enriched.levels, fill, n) >= n
        /\ MinPayoff(pair, fill, n) > 0
        /\ p.n * MinPayoff(pair, fill, n) > (p.d - p.n) * CostWithFees(pair, fill, n)

NeedAt(spec, n) == CashNeed(spec.pair, PrefixFill(spec.enriched.levels, n), n)

ShrinkToCash(spec, left) ==
    LET upper == Min({spec.x - 1, left \div Cost(spec.enriched.levels[1])})
        fits  == {n \in 1 .. upper : StillPays(spec, n) /\ NeedAt(spec, n) <= left}
    IN  IF fits = {} THEN None
        ELSE [spec EXCEPT !.x = Max(fits), !.need = NeedAt(spec, Max(fits))]

Tickers(spec) == {spec.pair.a, spec.pair.b}

BlockingWithoutPicked(pair, picked) ==
    CASE pair.adds = "no"   -> world.held
      [] pair.adds = "pair" -> {}
      [] pair.adds = "lone" -> world.held \ pair.lone
\* The ladders that keep a pair out: an add-on's own may be held, a new pair's not.
Blocking(pair, picked) ==
    CASE pair.adds = "no"   -> world.held \cup picked
      [] pair.adds = "pair" -> picked
      [] pair.adds = "lone" -> picked \cup (world.held \ pair.lone)

\* One turn of select_portfolio's loop; p: [left, chosen, tickers, picked].
Take(p, spec) ==
    LET paid == IF spec.need <= p.left THEN spec ELSE ShrinkToCash(spec, p.left)
    IN  IF \/ Tickers(spec) \cap p.tickers # {}
           \/ spec.pair.kind = "time_series" /\ spec.pair.labels \cap Blocking(spec.pair, p.picked) # {}
           \/ paid = None
        THEN p
        ELSE [left |-> p.left - paid.need, chosen |-> Append(p.chosen, paid),
              tickers |-> p.tickers \cup Tickers(spec), picked |-> p.picked \cup spec.pair.labels]

SelectPortfolio(order) ==
    FoldLeft(Take, [left |-> account.cash, chosen |-> <<>>, tickers |-> {}, picked |-> {}], order).chosen

-----------------------------------------------------------------------------
(* The last look.                                                           *)

ValidatePairPrice(spec, bk) ==
    LET pair   == spec.pair
        levels == QualifyingLevels(pair, bk)
        fill   == PrefixFill(spec.enriched.levels, spec.x)
    IN  /\ bk[pair.a] # None /\ bk[pair.b] # None
        /\ levels # <<>>
        /\ pair.kind = "time_series" =>
             /\ ReferenceAsk(pair, bk) # None
             /\ ReferenceAsk(pair, bk) - levels[1].a <= Ceiling
        /\ Len(SelectSeq(levels, LAMBDA l : Within(l, Limits(pair, fill, spec.x)))) >= spec.x

-----------------------------------------------------------------------------
Init ==
    /\ world \in Worlds
    /\ books \in [DOMAIN Replies -> UNION {Replies[m] : m \in DOMAIN Replies}]
    /\ \A m \in DOMAIN Replies : books[m] \in Replies[m]
    /\ account \in [value : Values, cash : Cashes]
    /\ stage = "scanned" /\ specs = {} /\ chosen = <<>>

\* Every pair on the books read for it, then its trade.
Size ==
    /\ stage = "scanned" /\ stage' = "sized"
    /\ specs' = {ComputeTrade(world.pairs[i], EnrichPair(world.pairs[i], Read(books))) :
                    i \in DOMAIN world.pairs} \ {None}
    /\ UNCHANGED <<world, books, account, chosen>>

\* The trades are tried by their profit a month: any order, here.
Select ==
    /\ stage = "sized" /\ stage' = "picked"
    /\ \E order \in SetToSeqs(specs) : chosen' = SelectPortfolio(order)
    /\ UNCHANGED <<world, books, account, specs>>

\* A market is traded, or its book cannot be read any more.
BookMoves ==
    /\ stage = "picked" /\ stage' = "moved"
    /\ \E m \in DOMAIN Replies : \E b \in Replies[m] : books' = [books EXCEPT ![m] = b]
    /\ UNCHANGED <<world, account, specs, chosen>>

PreExecutionCheck ==
    /\ stage \in {"picked", "moved"} /\ stage' = "checked"
    /\ chosen' = SelectSeq(chosen, LAMBDA spec : ValidatePairPrice(spec, Read(books)))
    /\ UNCHANGED <<world, books, account, specs>>

Finished == stage = "checked" /\ UNCHANGED vars

Next == Size \/ Select \/ BookMoves \/ PreExecutionCheck \/ Finished

-----------------------------------------------------------------------------
(* A trade's size is right at the price of that very size: its orders reach *)
(* it, it pays after exact fees, and with what is held of the pair it stays *)
(* within the pair's Kelly share, which is never more than the bound the    *)
(* depth was cut at.                                                        *)
SizedAtItsPrice ==
    \A spec \in specs \cup {chosen[i] : i \in DOMAIN chosen} :
        LET pair  == spec.pair
            fill  == PrefixFill(spec.enriched.levels, spec.x)
            share == Least(SizeCapOf(pair), KellyFraction(pair, spec.enriched, fill, spec.x))
        IN  /\ \A i \in 1 .. spec.x : Within(spec.enriched.levels[i], Limits(pair, fill, spec.x))
            /\ MinPayoff(pair, fill, spec.x) > 0
            /\ (CostWithFees(pair, fill, spec.x) + pair.stake) * share.d <= account.value * share.n
            /\ Leq(share, MaxKellyFraction(pair))

\* The most a leg may cost: n contracts at any prices up to the limit.
WorstCost(spec, l) ==
    LET limit == Limits(spec.pair, PrefixFill(spec.enriched.levels, spec.x), spec.x)[l]
    IN  Max({s + FeeAt(spec.pair, l, spec.x, s, spec.x) : s \in spec.x .. spec.x * limit})

(* The cash pays for every order picked, whatever it fills at, no two share *)
(* a market or a ladder, and what was cut to fit could not be cut less.     *)
CashCovers ==
    /\ SumOf([i \in DOMAIN chosen |-> WorstCost(chosen[i], "a") + WorstCost(chosen[i], "b")])
         <= account.cash
    /\ \A i \in DOMAIN chosen : LET pair == chosen[i].pair
                                IN  pair.kind = "time_series" /\ pair.adds # "pair" =>
                                        pair.labels \cap world.held \subseteq pair.lone
    /\ \A i, j \in DOMAIN chosen : i # j =>
         /\ Tickers(chosen[i]) \cap Tickers(chosen[j]) = {}
         /\ chosen[i].pair.kind = "time_series" /\ chosen[j].pair.kind = "time_series" =>
                chosen[i].pair.labels \cap chosen[j].pair.labels = {}
    /\ stage = "picked" => \A i \in DOMAIN chosen :
         LET left == account.cash - SumOf([j \in 1 .. i - 1 |-> chosen[j].need])
         IN  \A n \in chosen[i].x + 1 .. chosen[i].of :
                 NeedAt(chosen[i], n) > left \/ ~StillPays(chosen[i], n)

(* A pair that passed the last look fills in full on the books looked at,   *)
(* within its limits, and every contract keeps the gap and an edge.         *)
LookedAtFills ==
    stage = "checked" => \A i \in DOMAIN chosen :
        LET spec  == chosen[i]
            limit == Limits(spec.pair, PrefixFill(spec.enriched.levels, spec.x), spec.x)
            asks  == [l \in Leg |-> LegAsks(spec.pair, l, Read(books))]
        IN  \A k \in 1 .. spec.x :
              /\ \A l \in Leg : k <= Len(asks[l]) /\ asks[l][k] <= limit[l]
              /\ asks["a"][k] + asks["b"][k] <= MaxSum(spec.pair)
              /\ NetSpread(spec.pair, [l \in Leg |-> asks[l][k]], 1) > 0
=============================================================================
