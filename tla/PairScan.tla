------------------------------ MODULE PairScan ------------------------------
(* Which pairs the live scan offers (scanner.find_time_series_pairs and         *)
(* find_same_title_pairs) and which ones the backtest enters (backtester:        *)
(* _index_eligible_keys, _materialize_groupable, _extract_pairs, _find_entry),   *)
(* two programs written apart that promise one rule.                             *)
(*                                                                               *)
(* A market's wording is three fields, each with the shape of deadline it names  *)
(* and the deadline phrases ("spans") it spells out; a span names a day, or none *)
(* that can be placed.  Prices are tenths of a dollar, moments are ticks: Day of *)
(* them to a day, Period to a candle, the weekly run Run ticks into its day.     *)
(* What the account holds, sizes and order books come later (ProdRun).           *)
EXTENDS Integers, Sequences, FiniteSets, SequencesExt, FiniteSetsExt

CONSTANTS
    Corpora,   \* the settled markets a run may find: sequences of markets
    Rewritten, \* what may replace the file between the two readings
    Day, Period, Run, Week,
    MaxGap,    \* the most whole days between two deadlines
    ShortGap,  \* the longest gap of the lower tier
    Tier,      \* Tier[FALSE], Tier[TRUE]: the floors of a short and a long gap
    TwinDiff,  \* the least price difference of a same-title pair
    Apart,     \* the most ticks between the closes of one question listed twice
    Start,     \* the first day of the backtest
    Lookback,  \* the days _find_entry looks back from a pair's last day
    None

VARIABLES corpus, keep, known, groupable, stage

vars == <<corpus, keep, known, groupable, stage>>

DateOf(t) == t \div Day
Moment(d) == d * Day + Run
\* The last candle that can be finished at the run's moment ends here.
Floor(d) == Moment(d) - (Moment(d) % Period)
IsRunDay(d) == d % Week = 0

-----------------------------------------------------------------------------
(* Wording. *)

\* The first field that names a deadline shape decides what the market asks.
Fields(w) == <<w.subtitle, w.title, w.event>>
Deciding(w) == LET said == SelectSeq(Fields(w), LAMBDA f : f.shape # "none")
               IN IF said = <<>> THEN [shape |-> "unknown", spans |-> {}] ELSE Head(said)

TwoDeadlines(v, w) ==
    LET p == Deciding(v)
        q == Deciding(w)
    IN /\ p.shape = "cumulative" /\ q.shape = "cumulative"
       /\ p.spans # {} /\ q.spans # {}
       /\ p.spans # q.spans

\* The last day a span includes; "before" a day ends the day before it.
LastDay(s) == IF s.day = None THEN None ELSE IF s.before THEN s.day - 1 ELSE s.day
SpanDays(s) == {LastDay(s), s.day} \ {None}

\* The deciding field must name one day, and no field a span of another day.
StatedDeadline(w) ==
    LET p    == Deciding(w)
        days == {LastDay(s) : s \in p.spans}
        mine == UNION {SpanDays(s) : s \in p.spans}
        Fits(s) == SpanDays(s) = {} \/ SpanDays(s) \cap mine # {}
    IN IF /\ p.shape = "cumulative"
          /\ Cardinality(days) = 1 /\ None \notin days
          /\ \A f \in {w.subtitle, w.title, w.event} : \A s \in f.spans : Fits(s)
       THEN CHOOSE d \in days : TRUE
       ELSE None

\* Two places of a listing, either order.
Couples(ms) == {p \in (DOMAIN ms) \X (DOMAIN ms) : p[1] # p[2]}
Named(kind, p) == [kind |-> kind, a |-> p[1], b |-> p[2]]

SameSeries(m, n) == m.series = "" \/ n.series = "" \/ m.series = n.series
OneQuestion(m, n) == m.words.question # "" /\ m.words.question = n.words.question
Gap(s, t) == (IF s < t THEN t - s ELSE s - t) \div Day
ThresholdFor(gap) == Tier[gap > ShortGap]
\* The fee of one contract on each side is 7% of p(1 - p), on tenths of a dollar.
BeatsFee(p, q) == (10 - p - q) * 1000 > 7 * (p * (10 - p) + q * (10 - q))

Rungs(m, n) == m.event # "" /\ m.event = n.event
\* Two markets of one event, ordered and gapped on the deadlines they state.
Ladder(m, n) ==
    /\ m.words.text # n.words.text
    /\ TwoDeadlines(m.words, n.words)
    /\ LET a == StatedDeadline(m.words)
           b == StatedDeadline(n.words)
       IN a # None /\ b # None /\ a < b /\ b - a <= MaxGap
LadderGap(m, n) == StatedDeadline(n.words) - StatedDeadline(m.words)

\* Two events, one question: not two fixtures of a series worded alike.
TwoEvents(m, n) ==
    /\ m.event # n.event
    /\ ~(m.words.text = n.words.text /\ SameSeries(m, n))
    /\ TwoDeadlines(m.words, n.words)

OneSubject(m, n) ==
    /\ m.label # None /\ m.label = n.label
    /\ m.competition # None /\ m.competition = n.competition
FarApart(s, t) == s - t > Apart \/ t - s > Apart

-----------------------------------------------------------------------------
(* The live scan, on the markets open at a moment, with their scheduled closes. *)

Active(m) == m.yes \in 1 .. 9

SeriesOffer(m, n, gap) ==
    /\ n.yes > m.yes
    /\ n.yes - m.yes >= ThresholdFor(gap)
    /\ m.yes + n.no < 10

\* YES on the market that closes first (ties as listed), or on the earlier rung.
EarlierCloses(ms, i, j) == ms[i].close < ms[j].close \/ (ms[i].close = ms[j].close /\ i < j)
SeriesPairs(ms) ==
    {p \in Couples(ms) :
        LET m == ms[p[1]]
            n == ms[p[2]]
        IN /\ Active(m) /\ Active(n) /\ OneQuestion(m, n)
           /\ \/ Rungs(m, n) /\ Ladder(m, n) /\ SeriesOffer(m, n, LadderGap(m, n))
              \/ /\ TwoEvents(m, n) /\ EarlierCloses(ms, p[1], p[2])
                 /\ Gap(m.close, n.close) <= MaxGap
                 /\ SeriesOffer(m, n, Gap(m.close, n.close))}

\* NO on the dearer of two markets that share every word.
TwinPairs(ms) ==
    {p \in Couples(ms) :
        LET m == ms[p[1]]
            n == ms[p[2]]
        IN /\ Active(m) /\ Active(n) /\ m.words.text = n.words.text
           /\ m.event # n.event /\ ~SameSeries(m, n)
           /\ ~FarApart(m.close, n.close) /\ OneSubject(m, n)
           /\ \/ m.yes > n.yes \/ (m.yes = n.yes /\ p[1] < p[2])
           /\ m.yes - n.yes >= TwinDiff}

\* What each leg pays for: YES on A and NO on B, or NO on A and YES on B.
Pays(kind, m, n) == IF kind = "series" THEN <<m.yes, n.no>> ELSE <<m.no, n.yes>>
Tradeable(kind, m, n) == BeatsFee(Pays(kind, m, n)[1], Pays(kind, m, n)[2])

Offered(ms, d) ==
    LET Open(m) == m.open <= Moment(d) /\ Moment(d) < m.realized
        As(kind, pairs) == {Named(kind, <<ms[p[1]], ms[p[2]]>>) : p \in pairs}
    IN {o \in As("series", SeriesPairs(ms)) \cup As("twins", TwinPairs(ms)) :
            Open(o.a) /\ Open(o.b)}

-----------------------------------------------------------------------------
(* Which kind of pair two held markets are, YES on y and NO on n, read back from *)
(* their wording and closes (held_pair_kind).                                    *)

HeldTwins(y, n) ==
    /\ y.words.text = n.words.text
    /\ y.event # n.event /\ ~SameSeries(y, n) /\ ~FarApart(y.close, n.close)
    /\ OneSubject(y, n)

Stated(y, n) == None \notin {StatedDeadline(y.words), StatedDeadline(n.words)}
StatedEarlier(y, n) == Stated(y, n) /\ StatedDeadline(y.words) < StatedDeadline(n.words)
ClosesEarlier(y, n) == StatedEarlier(y, n) \/ ~Stated(y, n)
ShownEarlier(y, n) == StatedEarlier(y, n) \/ (~Stated(y, n) /\ FarApart(y.close, n.close))
HeldSeries(y, n) ==
    /\ y.words.text # n.words.text
    /\ OneQuestion(y, n) /\ TwoDeadlines(y.words, n.words)
    /\ IF y.event = n.event THEN StatedEarlier(y, n)
       ELSE ShownEarlier(y, n) /\ y.close < n.close

HeldPairKind(y, n) ==
    {k \in {Named("twins", <<n, y>>), Named("series", <<y, n>>)} :
        /\ y.event # "" /\ n.event # ""
        /\ IF k.kind = "twins" THEN HeldTwins(y, n) ELSE HeldSeries(y, n)}

-----------------------------------------------------------------------------
(* The backtest, on the settled markets, whose recorded close is the realized    *)
(* one; the scheduled close is known where a rule for it was learned.            *)

\* The days to the first run at which the market has a finished candle.
DaysToRun(m, first) ==
    LET ahead == (Week - (first % Week)) % Week
    IN IF ahead = 0 /\ first = DateOf(m.open) /\ m.open >= Floor(first) THEN Week ELSE ahead
CanEverEnterIfTraded(m) ==
    LET first == Max({DateOf(m.open) + 1, Start})
    IN DaysToRun(m, first) <= DateOf(m.realized) - first - 1
CanEverEnter(m) ==
    LET first == Max({DateOf(m.open), Start})
    IN DaysToRun(m, first) <= DateOf(m.realized) - first - 1

Eligible(ms) == SelectSeq(ms, CanEverEnter)
Identity(m) == <<m.ticker, m.words.text>>
SharesKey(ms, i) ==
    \E j \in DOMAIN ms \ {i} : OneQuestion(ms[i], ms[j]) \/ ms[i].words.text = ms[j].words.text

Maturity(m) == IF m.ruled THEN m.close ELSE m.realized

\* Members of a group in the order of their realized close dates, a window wide.
EarlierDate(ms, i, j) == \/ DateOf(ms[i].realized) < DateOf(ms[j].realized)
                         \/ DateOf(ms[i].realized) = DateOf(ms[j].realized) /\ i < j
InWindowTight(m, n) == DateOf(n.realized) - DateOf(m.realized) <= MaxGap
InWindow(m, n) == DateOf(n.realized) - DateOf(m.realized) <= MaxGap + 1
Swept(ms) ==
    {<<ms[p[1]], ms[p[2]]>> : p \in
        {p \in Couples(ms) :
            /\ EarlierDate(ms, p[1], p[2])
            /\ OneQuestion(ms[p[1]], ms[p[2]]) /\ InWindow(ms[p[1]], ms[p[2]])
            /\ TwoEvents(ms[p[1]], ms[p[2]])}}
RungPairs(ms) ==
    {p \in ToSet(ms) \X ToSet(ms) :
        p[1] # p[2] /\ OneQuestion(p[1], p[2]) /\ Rungs(p[1], p[2]) /\ Ladder(p[1], p[2])}
Twins(ms) ==
    {<<ms[p[1]], ms[p[2]]>> : p \in
        {p \in Couples(ms) :
            LET m == ms[p[1]]
                n == ms[p[2]]
            IN /\ p[1] < p[2] /\ m.words.text = n.words.text
               /\ m.event # n.event /\ ~SameSeries(m, n)
               /\ ~FarApart(Maturity(m), Maturity(n)) /\ OneSubject(m, n)}}

\* Market A is the one that matures first; the sweep's order stands on a tie.
OrderedByDate(p) == IF DateOf(Maturity(p[2])) < DateOf(Maturity(p[1])) THEN <<p[2], p[1]>> ELSE p
Ordered(p) == IF Maturity(p[2]) < Maturity(p[1]) THEN <<p[2], p[1]>> ELSE p
\* Market A is the dearer one; the extracted order stands on a tie.
Dearer(p) == IF p[1].yes >= p[2].yes THEN p ELSE <<p[2], p[1]>>

Window(p) ==
    LET last == Min({DateOf(p[1].realized), DateOf(p[2].realized)}) - 1
    IN {d \in Max({Start, last - Lookback}) .. last : IsRunDay(d)}
Quoted(p, d) == \A i \in 1 .. 2 : p[i].open < Floor(d) /\ Active(p[i])
Buyable(kind, p, least) ==
    LET cost == Pays(kind, p[1], p[2])
    IN /\ cost[1] \in 1 .. 9 /\ cost[2] \in 1 .. 9
       /\ cost[1] + cost[2] <= 10 - least
       /\ BeatsFee(cost[1], cost[2])

SeriesEntry(p, gap) ==
    /\ gap <= MaxGap
    /\ p[2].yes > p[1].yes /\ p[2].yes - p[1].yes >= ThresholdFor(gap)
    /\ Buyable("series", p, ThresholdFor(gap))
TwinEntry(p) == p[1].yes - p[2].yes >= TwinDiff /\ Buyable("twins", p, TwinDiff)

Raw(ms, d) ==
    LET Here(p) == d \in Window(p) /\ Quoted(p, d)
        series == {Ordered(q) : q \in Swept(ms)}
        twins  == {Dearer(q) : q \in Twins(ms)}
    IN {Named("series", p) : p \in {q \in series :
            Here(q) /\ SeriesEntry(q, Gap(Maturity(q[1]), Maturity(q[2])))}}
       \cup {Named("series", p) : p \in {q \in RungPairs(ms) :
            Here(q) /\ SeriesEntry(q, LadderGap(q[1], q[2]))}}
       \cup {Named("twins", p) : p \in {q \in twins : Here(q) /\ TwinEntry(q)}}
\* A time-series pair that a same-title pair covers is dropped.
Entered(ms, d) ==
    {e \in Raw(ms, d) : ~(e.kind = "series" /\
        \E f \in Raw(ms, d) : f.kind = "twins" /\ {f.a, f.b} = {e.a, e.b})}

-----------------------------------------------------------------------------
(* The corpus is read twice: the first reading marks by position the markets     *)
(* that share a question with another, the second takes them.                    *)

Init == /\ corpus \in Corpora
        /\ keep = {} /\ known = <<>> /\ groupable = <<>> /\ stage = "first"

Index ==
    /\ stage = "first"
    /\ LET ms == Eligible(corpus)
       IN /\ known' = [i \in DOMAIN ms |-> Identity(ms[i])]
          /\ keep' = {i \in DOMAIN ms : SharesKey(ms, i)}
    /\ stage' = "second"
    /\ UNCHANGED <<corpus, groupable>>

\* Another backtest publishes the file anew.
Rewrite ==
    /\ stage = "second"
    /\ corpus' \in Rewritten \ {corpus}
    /\ stage' = "rewritten"
    /\ UNCHANGED <<keep, known, groupable>>

Materialize ==
    /\ stage \in {"second", "rewritten"}
    /\ LET ms == Eligible(corpus)
       IN IF [i \in DOMAIN ms |-> Identity(ms[i])] = known
          THEN /\ groupable' = [k \in 1 .. Cardinality(keep) |-> ms[SetToSortSeq(keep, <)[k]]]
               /\ stage' = "done"
          ELSE groupable' = <<>> /\ stage' = "refused"
    /\ UNCHANGED <<corpus, keep, known>>

Next == Index \/ Rewrite \/ Materialize
Spec == Init /\ [][Next]_vars

-----------------------------------------------------------------------------
(* Properties. *)

RunDays == {d \in Start .. Max({Start} \cup {DateOf(m.realized) : m \in ToSet(corpus)}) :
                IsRunDay(d)}
SawTheSchedule(m) == Maturity(m) = m.close
\* Two markets of two events that close at one moment have no earlier one.
Comparable(o) == \/ o.kind = "twins"
                 \/ Rungs(o.a, o.b)
                 \/ o.a.close # o.b.close
\* Every pair the backtest trades at a run's moment is one the live scan, shown
\* the same quotes, would have offered, the same way round and worth its fee --
\* unless it read another close than the live run did.
EntriesWereOffered ==
    stage = "done" =>
        \A d \in RunDays : \A e \in Entered(groupable, d) :
            (Comparable(e) /\ \/ Rungs(e.a, e.b)
                              \/ SawTheSchedule(e.a) /\ SawTheSchedule(e.b)) =>
                /\ e \in Offered(corpus, d)
                /\ Tradeable(e.kind, e.a, e.b)

\* Every offer of the live scan that is worth its fee, within the price sum of
\* its tier and open long enough for a candle, is one the backtest trades too, if
\* it read the close the live run did and the two realized closes are within a
\* day of the gap cap: reading the corpus twice, the prefilter, the sweep's
\* window and the duplicate rule lose none.
OffersAreReplayed ==
    stage = "done" =>
        \A d \in RunDays : \A o \in Offered(corpus, d) :
            LET p     == <<o.a, o.b>>
                least == IF o.kind = "twins" THEN TwinDiff
                         ELSE IF Rungs(o.a, o.b) THEN ThresholdFor(LadderGap(o.a, o.b))
                         ELSE ThresholdFor(Gap(o.a.close, o.b.close))
            IN (/\ Comparable(o) /\ SawTheSchedule(o.a) /\ SawTheSchedule(o.b)
                /\ d \in Window(p) /\ Quoted(p, d) /\ Buyable(o.kind, p, least)
                /\ \/ Rungs(o.a, o.b) \/ o.kind = "twins"
                   \/ Gap(o.a.realized, o.b.realized) <= MaxGap)
               => o \in Entered(groupable, d)

\* Two spellings of one market, or one that names no day that can be placed.
Respelled(m) ==
    {m, [m EXCEPT !.words.text = "respelled"],
     [m EXCEPT !.words.text = "respelled", !.words.subtitle.spans = {[day |-> None, before |-> FALSE]}]}
\* What was bought as one kind of pair is never taken for the other, nor the
\* other way round, once it is held: neither when one market has settled and
\* shows the close it then had, nor when Kalshi words a market anew.
HeldAsBought ==
    stage = "first" =>
        \A d \in RunDays : \A o \in Offered(corpus, d) :
            LET y == IF o.kind = "twins" THEN o.b ELSE o.a
                n == IF o.kind = "twins" THEN o.a ELSE o.b
                settled == [y EXCEPT !.close = y.realized]
            IN /\ HeldPairKind(y, n) \subseteq {o}
               /\ o.kind = "series" => \A k \in HeldPairKind(settled, n) : k.kind = "series"
               /\ o.kind = "twins" => \A v \in Respelled(y), w \in Respelled(n) :
                    \A k \in HeldPairKind(v, w) : k.kind = "twins"
=============================================================================
