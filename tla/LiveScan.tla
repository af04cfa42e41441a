------------------------------ MODULE LiveScan ------------------------------
(***************************************************************************)
(* A run's search of the open markets: which shards trade, the pages of the *)
(* two listings, whether they cover the shards, the ladders the account is  *)
(* on, and the pairs handed on to be priced (main._run_prod with scanner's  *)
(* fetch_shard_statuses, fetch_open_events_with_markets,                    *)
(* check_shard_coverage, resolve_held_ladders, find_time_series_pairs and   *)
(* find_same_title_pairs).  What wording means, and that the backtest finds *)
(* the same pairs, is PairScan's: here a market says a deadline or does     *)
(* not, and the account is not empty.                                       *)
(*                                                                           *)
(* Prices are cents.                                                         *)
(***************************************************************************)
EXTENDS Integers, Sequences, FiniteSets, FiniteSetsExt

CONSTANTS
    None,
    Runs,       \* what a run may find: [status, funds, account, rule, series, horizon, pages]
    MaxPages, MaxBarren,
    Confirmed,  \* the multipliers a fee may be lowered by
    MaxGap, ShortGap, Apart, TwinDiff

Full == 2       \* multipliers are in halves of the full fee

Indexes(status) == {status[k].index : k \in DOMAIN status} \ {None}
Listable(run) == UNION {{p.markets[k] : k \in DOMAIN p.markets} : p \in run.pages.open \cup run.pages.mve}
Looked(run) == {run.account.looked[t] : t \in run.account.held} \ {None}

Offs == {"false", "0", "off", "empty"}
Flags == {"true", "1", "on", "null", "maybe"} \cup Offs

\* While a run looks, a ticker is one market's, under one event and in one
\* wording; times are numbers, and None is neither a number nor an answer.
ScanAssumption ==
    /\ None \notin Int \cup BOOLEAN /\ Confirmed \subseteq 0 .. Full
    /\ \A run \in Runs :
        /\ run.status = None
           \/ /\ run.status \in Seq([index : Int \cup {None}, active : Flags])
              /\ None \notin [Indexes(run.status) -> BOOLEAN \cup {None}]
        /\ \A p \in run.pages.open \cup run.pages.mve : p.markets \in Seq(Listable(run))
        /\ \A m \in Listable(run) :
              m # None /\ m.close \in Int \cup {None} /\ m.states \in Int \cup {None}
        /\ \A m, n \in Listable(run) \cup Looked(run) :
              m.ticker = n.ticker => m.event = n.event /\ m.about = n.about /\ m.text = n.text
        /\ \A t \in run.account.held : run.account.looked[t] = None \/ run.account.looked[t].ticker = t
        /\ \A sides \in run.account.addOns : DOMAIN sides \subseteq run.account.held

VARIABLES
    found,  \* one of Runs; its account is [held, sold, looked, addOns], its pages
            \* are what a request of either listing may return: [markets, cursor]
    walk,   \* the paging: [phase, cursor, seen, pages, barren, cut]
    served, \* the markets the exchange put on the pages read, in order
    listed, \* the places of those taken from them
    claims, \* what is said of the shards: [critical, warned, full]
    ladders,\* the account's, or None when one could not be found out
    offers, \* the pairs to be priced
    stage   \* "listing", "covered", "blind", "resolved" or "scanned"

vars == <<found, walk, served, listed, claims, ladders, offers, stage>>

-----------------------------------------------------------------------------
(* The shards.                                                              *)

\* A flag as the exchange spells it; what nobody can read halts only if it is
\* empty, and a flag that is not there halts nothing.
StatusFlag(raw) ==
    CASE raw \in {"true", "1", "on"}    -> TRUE
      [] raw \in Offs                   -> FALSE
      [] raw \in {"null", "maybe"}      -> None

\* found.status: None, or entries [index, active] of which some have no index;
\* the last one of an index counts.
FetchShardStatuses(status) ==
    LET entries == IF status = None THEN {} ELSE {k \in DOMAIN status : status[k].index # None}
        OfIndex(i) == {k \in entries : status[k].index = i}
    IN  IF entries = {} THEN None
        ELSE [i \in {status[k].index : k \in entries} |-> StatusFlag(status[Max(OfIndex(i))].active)]

Statuses == FetchShardStatuses(found.status)
Advertised == IF Statuses = None THEN {} ELSE DOMAIN Statuses
NotSaidToTrade == {i \in Advertised : Statuses[i] # TRUE}
InactiveShardIndexes == {i \in Advertised : Statuses[i] = FALSE}

CheckShardCoverage(shards) ==
    LET missing == (Advertised \ InactiveShardIndexes) \ shards
        foreign == shards \ Advertised
        stray   == found.funds \ Advertised
    IN  IF Statuses = None THEN [critical |-> {}, warned |-> {}]
        ELSE [critical |-> (missing \cap found.funds) \cup foreign,
              warned   |-> (missing \ found.funds) \cup stray]
LogShardCoverage(shards) ==
    LET told == CheckShardCoverage(shards)
    IN  [critical |-> told.critical, warned |-> told.warned,
         full |-> /\ Statuses # None /\ Advertised # InactiveShardIndexes
                  /\ told.critical \cup told.warned = {}]

-----------------------------------------------------------------------------
(* The listings.                                                            *)

\* A market that names no shard it can be read from is on the first.
Shard(m) == IF m.shard = None THEN 0 ELSE m.shard
Usable(markets) ==
    {k \in DOMAIN markets : markets[k].active /\ Shard(markets[k]) \notin InactiveShardIndexes}

NewWalk(phase, cut) ==
    [phase |-> phase, cursor |-> None, seen |-> {}, pages |-> 0, barren |-> 0, cut |-> cut]

\* A cursor that was followed before, and the limit of pages, end a listing
\* early; so do pages without a market in the listing of multivariate events.
Walked(page) ==
    LET pages  == walk.pages + 1
        barren == IF Usable(page.markets) = {} THEN walk.barren + 1 ELSE 0
        tired  == walk.phase = "mve" /\ barren >= MaxBarren
        cut    == page.cursor # None /\ (page.cursor \in walk.seen \/ pages >= MaxPages)
    IN  IF page.cursor # None /\ ~cut /\ ~tired
        THEN [walk EXCEPT !.cursor = page.cursor, !.seen = @ \cup {page.cursor},
                          !.pages = pages, !.barren = barren]
        ELSE NewWalk(IF walk.phase = "open" THEN "mve" ELSE "done",
                     walk.cut \/ page.cursor # None)

-----------------------------------------------------------------------------
(* What is held.                                                            *)

LadderKeys(m) == {m.event, m.about} \ {""}

\* Of a market held: as the run's listing has it, else looked up.
HeldMarket(t) ==
    LET here == {i \in listed : served[i].ticker = t}
    IN  IF here = {} THEN found.account.looked[t] ELSE served[Max(here)]
ResolveHeldLadders ==
    IF \E t \in found.account.held : HeldMarket(t) = None THEN None
    ELSE UNION {LadderKeys(HeldMarket(t)) : t \in found.account.held}

\* A held pair, or a market held alone: [sides, labels].
AddOn(sides) ==
    [sides |-> sides, labels |-> UNION {LadderKeys(HeldMarket(t)) : t \in DOMAIN sides}]
AddOnPairs == IF ladders = None THEN {} ELSE {AddOn(sides) : sides \in found.account.addOns}
AddOnTickers == UNION {DOMAIN held.sides : held \in AddOnPairs}
HeldOtherwise == found.account.held \ AddOnTickers
BlockedTickers == HeldOtherwise \cup found.account.sold
Lone(held) == Cardinality(DOMAIN held.sides) = 1

\* The pair itself, or else the lone one of the two markets, if the other is in none.
AddOnFor(m, n) ==
    LET whole == {h \in AddOnPairs : ~Lone(h) /\ DOMAIN h.sides = {m.ticker, n.ticker}}
        HeldAlone(x) == {h \in AddOnPairs : DOMAIN h.sides = {x.ticker}}
    IN  CASE whole # {} -> CHOOSE h \in whole : TRUE
          [] whole = {} /\ HeldAlone(m) # {} /\ n.ticker \notin AddOnTickers ->
                CHOOSE h \in HeldAlone(m) : TRUE
          [] whole = {} /\ HeldAlone(n) # {} /\ m.ticker \notin AddOnTickers ->
                CHOOSE h \in HeldAlone(n) : TRUE
          [] OTHER -> None

SameMarkets(held, kind, a, b) == DOMAIN held.sides \subseteq {a.ticker, b.ticker}

\* It buys the sides that are held.
Matches(held, kind, a, b) ==
    LET bought == [t \in {a.ticker, b.ticker} |->
                     IF (t = a.ticker) = (kind = "time_series") THEN "yes" ELSE "no"]
    IN  a.ticker # b.ticker
        /\ IF Lone(held) THEN \A t \in DOMAIN held.sides :
                                  t \in DOMAIN bought /\ held.sides[t] = bought[t]
           ELSE held.sides = bought

-----------------------------------------------------------------------------
(* Fees.                                                                    *)

\* An event may override its series' multiplier.
Unknown == -1
Valid(raw) == IF raw \in 0 .. Full THEN raw ELSE None
EventFeeOverride(m) ==
    CASE ~m.quadratic      -> Unknown
      [] m.quadratic /\ m.override = None -> None
      [] OTHER -> IF Valid(m.override) = None THEN Unknown ELSE m.override
ListedFeeMultiplier(series, override) ==
    LET value == Valid(IF override = None THEN series ELSE override)
    IN  IF value = None THEN Full ELSE value
ListedMultiplier(m) ==
    ListedFeeMultiplier(IF m.series \in DOMAIN found.series THEN found.series[m.series] ELSE Full,
                        EventFeeOverride(m))
FeeMultiplier(m) == IF ListedMultiplier(m) \in Confirmed THEN ListedMultiplier(m) ELSE Full

FeeAt(mult, p) == 7 * mult * p * (100 - p)
BeatsFee(a, p, b, q) ==
    20000 * (100 - p - q) > FeeAt(FeeMultiplier(a), p) + FeeAt(FeeMultiplier(b), q)

-----------------------------------------------------------------------------
(* The candidates of a group of listed markets.                             *)

\* The competition an event names: "" for none, None where it cannot be read.
EventCompetition(m) ==
    CASE m.meta = "absent" -> ""
      [] m.meta = "odd"    -> None
      [] OTHER             -> m.meta

Active(places) ==
    {i \in places : /\ served[i].ticker \notin BlockedTickers
                    /\ served[i].close # None /\ served[i].yes \in 1 .. 99}

WithinHorizon(places) ==
    IF found.horizon = None THEN places
    ELSE {i \in places : served[i].close # None /\ served[i].close <= found.horizon}

Markets == Active(WithinHorizon({i \in listed : served[i].ticker \notin BlockedTickers}))

SameSeries(m, n) == m.series = "" \/ n.series = "" \/ m.series = n.series
TwoDeadlines(m, n) == m.says # None /\ n.says # None /\ m.says # n.says
Distance(s, t) == IF s < t THEN t - s ELSE s - t

ByCloses(m, n) == <<m, n>>

\* Two markets of one event are ordered by what they state, others by their closes.
Ordered(m, n) ==
    IF m.event = n.event /\ m.states # None /\ n.states # None /\ n.states < m.states
    THEN <<n, m>> ELSE <<m, n>>
GapDays(m, n) == IF m.event = n.event THEN Distance(m.states, n.states) ELSE Distance(m.close, n.close)

IsLadder(m, n) ==
    /\ m.event = n.event /\ m.event # "" /\ m.text # n.text /\ TwoDeadlines(m, n)
    /\ m.states # None /\ n.states # None /\ m.states # n.states
IsTwoEvents(m, n) ==
    /\ m.event # n.event /\ ~(m.text = n.text /\ SameSeries(m, n)) /\ TwoDeadlines(m, n)

BoughtAlready(m) == m.ticker \in found.account.held
OnHeldLadder(m) == LadderKeys(m) \cap ladders # {} \/ m.ticker \in AddOnTickers

\* What a time-series pair would add to; a lone market's partner may be on no
\* other ladder that is held.
SeriesAddOn(m, n) ==
    LET held == AddOnFor(m, n)
        new  == IF held # None /\ m.ticker \in DOMAIN held.sides THEN n ELSE m
    IN  IF held # None /\ Lone(held) /\ LadderKeys(new) \cap (ladders \ held.labels) # {}
        THEN None ELSE held

\* pB - pA: positive, not under its tier's floor, not over the ceiling.
SpreadTaken(m, n) ==
    LET spread == n.yes - m.yes
    IN  /\ 0 < spread
        /\ spread >= found.rule.floor[GapDays(m, n) > ShortGap]
        /\ spread <= found.rule.ceiling

Pair(kind, a, b, p, q, held) ==
    [kind |-> kind, a |-> a, b |-> b, pays |-> <<p, q>>, held |-> held,
     spread |-> Distance(a.yes, b.yes), tradeable |-> BeatsFee(a, p, b, q)]

SeriesCandidate(m, n) ==
    LET a    == Ordered(m, n)[1]
        b    == Ordered(m, n)[2]
        held == SeriesAddOn(m, n)
    IN  IF /\ held # None \/ (~OnHeldLadder(m) /\ ~OnHeldLadder(n))
           /\ IsLadder(m, n) \/ IsTwoEvents(m, n)
           /\ GapDays(m, n) <= MaxGap
           /\ a.no # None /\ b.no # None
           /\ SpreadTaken(a, b)
           /\ a.yes + b.no < 100
           /\ held = None \/ Matches(held, "time_series", a, b)
        THEN Pair("time_series", a, b, a.yes, b.no, held) ELSE None

ClosesApart(m, n) == Distance(m.close, n.close) > Apart

TwinCandidate(m, n) ==
    LET a    == IF m.yes >= n.yes THEN m ELSE n
        b    == IF m.yes >= n.yes THEN n ELSE m
        held == AddOnFor(m, n)
    IN  IF /\ held # None \/ {m.ticker, n.ticker} \cap AddOnTickers = {}
           /\ m.event # n.event /\ ~SameSeries(m, n)
           /\ ~ClosesApart(m, n)
           /\ m.label = n.label
           /\ EventCompetition(m) # None /\ EventCompetition(m) = EventCompetition(n)
           /\ a.yes - b.yes >= TwinDiff
           /\ held = None \/ Matches(held, "same_title", a, b)
           /\ a.no # None
        THEN Pair("same_title", a, b, a.no, b.yes, held) ELSE None

\* One market is looked at before another: by their closes, else as listed.
ByClose(i, j) ==
    \/ served[i].close < served[j].close
    \/ served[i].close = served[j].close /\ i < j
Before(kind, i, j) == IF kind = "time_series" THEN ByClose(i, j) ELSE i < j

Candidate(kind, c) ==
    IF kind = "time_series" THEN SeriesCandidate(served[c[1]], served[c[2]])
    ELSE TwinCandidate(served[c[1]], served[c[2]])
Candidates(kind, group) ==
    {c \in group \X group : Before(kind, c[1], c[2]) /\ Candidate(kind, c) # None}

Wider(p, q) == p.spread > q.spread

\* A group offers its best: one worth its fee first, then the widest spread,
\* then the first that was looked at.
Better(p, q) == (p.tradeable /\ ~q.tradeable) \/ (p.tradeable = q.tradeable /\ p.spread > q.spread)
Sooner(kind, c, d) == Before(kind, c[1], d[1]) \/ (c[1] = d[1] /\ Before(kind, c[2], d[2]))
BestOf(kind, group) ==
    LET all == Candidates(kind, group)
    IN  {Candidate(kind, c) : c \in {c \in all : \A d \in all :
            /\ ~Better(Candidate(kind, d), Candidate(kind, c))
            /\ Sooner(kind, d, c) => Better(Candidate(kind, c), Candidate(kind, d))}}

\* Markets are grouped by the question they ask, or by their text.
GroupKey(kind, m) == IF kind = "time_series" THEN m.question ELSE m.text
GroupKeys(kind) == {GroupKey(kind, served[i]) : i \in Markets} \ {""}
Group(kind, key) == {i \in Markets : GroupKey(kind, served[i]) = key}
BestPairs(kind) == UNION {BestOf(kind, Group(kind, key)) : key \in GroupKeys(kind)}

FindTimeSeriesPairs == IF ladders = None THEN {} ELSE BestPairs("time_series")
FindSameTitlePairs == BestPairs("same_title")

Tickers(p) == {p.a.ticker, p.b.ticker}
DedupPairs(primary, secondary) ==
    primary \cup {p \in secondary : \A q \in primary : Tickers(p) # Tickers(q)}

-----------------------------------------------------------------------------
Init ==
    /\ found \in Runs
    /\ walk = NewWalk("open", FALSE) /\ served = <<>> /\ listed = {}
    /\ claims = [critical |-> {}, warned |-> {}, full |-> FALSE]
    /\ ladders = {} /\ offers = {} /\ stage = "listing"

\* One page; between two the listing may change, and repeat a market or miss it.
FetchPage(page) ==
    /\ stage = "listing" /\ walk.phase # "done"
    /\ page \in found.pages[walk.phase]
    /\ walk' = Walked(page)
    /\ served' = served \o page.markets
    /\ listed' = listed \cup {Len(served) + k : k \in Usable(page.markets)}
    /\ UNCHANGED <<found, claims, ladders, offers, stage>>

Cover ==
    /\ stage = "listing" /\ walk.phase = "done"
    /\ claims' = LogShardCoverage({Shard(served[i]) : i \in listed})
    /\ stage' = IF (Statuses # None /\ InactiveShardIndexes = Advertised) \/ listed = {}
                THEN "blind" ELSE "covered"
    /\ UNCHANGED <<found, walk, served, listed, ladders, offers>>

Resolve ==
    /\ stage = "covered" /\ stage' = "resolved"
    /\ ladders' = ResolveHeldLadders
    /\ UNCHANGED <<found, walk, served, listed, claims, offers>>

Search ==
    /\ stage = "resolved" /\ stage' = "scanned"
    /\ offers' = DedupPairs(FindSameTitlePairs, FindTimeSeriesPairs)
    /\ UNCHANGED <<found, walk, served, listed, claims, ladders>>

Finished == stage \in {"blind", "scanned"} /\ UNCHANGED vars

Next ==
    \/ \E page \in found.pages.open \cup found.pages.mve : FetchPage(page)
    \/ Cover
    \/ Resolve
    \/ Search
    \/ Finished

Spec == Init /\ [][Next]_vars

-----------------------------------------------------------------------------
(* Nothing is scanned on a shard said to be halted, and everything served    *)
(* elsewhere is, unless a listing was cut short.  Full coverage is claimed   *)
(* only if every shard that may trade gave a market and no funds lie         *)
(* elsewhere; funds on a shard that gave none are critical.  A run offers    *)
(* nothing if, and only if, there was nothing to scan                        *)
(* (fetch_open_events_with_markets, _log_shard_coverage, _blind_run_reason). *)
Halted(i) ==
    found.status # None /\ \E k \in DOMAIN found.status :
        /\ found.status[k].index = i
        /\ found.status[k].active \in Offs
        /\ \A l \in k + 1 .. Len(found.status) : found.status[l].index # i
Named == IF found.status = None THEN {} ELSE Indexes(found.status)
Gave(s) == \E i \in DOMAIN served : served[i].active /\ Shard(served[i]) = s

ListingIsHonest ==
    stage # "listing" =>
        /\ listed = {i \in DOMAIN served : served[i].active /\ ~Halted(Shard(served[i]))}
        /\ claims.full => /\ \A i \in Named : ~Halted(i) => Gave(i)
                          /\ \E i \in Named : ~Halted(i)
                          /\ found.funds \subseteq Named
        /\ \A i \in Named \cap found.funds : ~Halted(i) /\ ~Gave(i) => i \in claims.critical
        /\ stage = "blind" <=>
              \/ Named # {} /\ \A i \in Named : Halted(i)
              \/ \A i \in DOMAIN served : served[i].active => Halted(Shard(served[i]))

(* A pair that is offered for pricing is of two markets the run saw open,    *)
(* none sold by it or held otherwise than in what the pair adds to, which it *)
(* buys on the sides held; no new market of a time-series pair is on a       *)
(* ladder the account is on, and one that could not be found out ends their  *)
(* search; the deadline bought YES comes first; what is called tradeable     *)
(* beats the fee that is sure; and the offer is the best of its group        *)
(* (find_time_series_pairs, find_same_title_pairs, resolve_held_ladders).    *)
Version(t) ==
    {m \in {served[i] : i \in listed} : m.ticker = t} \cup ({found.account.looked[t]} \ {None})
KeysOf(held) == UNION {UNION {LadderKeys(m) : m \in Version(t)} : t \in held}
Bought(p) == [t \in Tickers(p) |-> IF (t = p.a.ticker) = (p.kind = "time_series") THEN "yes" ELSE "no"]
AddsTo(p) == IF p.held = None THEN {} ELSE DOMAIN p.held.sides
NewMarkets(p) == {m \in {p.a, p.b} : m.ticker \notin AddsTo(p)}
SureMultiplier(m) ==
    LET sure == IF m.quadratic /\ m.override = None THEN
                    IF m.series \in DOMAIN found.series THEN found.series[m.series] ELSE Full
                ELSE IF m.quadratic THEN m.override ELSE Full
    IN  IF sure \in Confirmed THEN sure ELSE Full
Earns(p) ==
    20000 * (100 - p.pays[1] - p.pays[2])
        > FeeAt(SureMultiplier(p.a), p.pays[1]) + FeeAt(SureMultiplier(p.b), p.pays[2])
Rivals(p) ==
    {Candidate(p.kind, c) : c \in Candidates(p.kind, Group(p.kind, GroupKey(p.kind, p.a)))}

IsDue(p) ==
    /\ p.a.ticker # p.b.ticker
    /\ {p.a, p.b} \subseteq {served[i] : i \in listed}
    /\ Tickers(p) \cap found.account.sold = {}
    /\ Tickers(p) \cap found.account.held = AddsTo(p)
    /\ \A t \in AddsTo(p) : p.held.sides[t] = Bought(p)[t]
    /\ p.kind = "time_series" =>
          /\ \A t \in found.account.held : Version(t) # {}
          /\ \A m \in NewMarkets(p) :
                LadderKeys(m) \cap (KeysOf(found.account.held) \ KeysOf(AddsTo(p))) = {}
          /\ IF p.a.event = p.b.event THEN p.a.states < p.b.states ELSE p.a.close <= p.b.close
    /\ p.tradeable = Earns(p)
IsBest(p) ==
    \A q \in Rivals(p) :
        /\ q.tradeable => p.tradeable
        /\ q.tradeable = p.tradeable => q.spread <= p.spread

OffersAreDue == \A p \in offers : IsDue(p) /\ IsBest(p)

ScanIsTrue == ListingIsHonest /\ OffersAreDue
=============================================================================
