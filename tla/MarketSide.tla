------------------------------ MODULE MarketSide ------------------------------
(***************************************************************************)
(* What a backtest keeps of one market between runs: its candles            *)
(* (historical.fetch_candlesticks), and, from market_details.py, its extra  *)
(* fields, its trades, and the rule that tells when it was to close.  Calls *)
(* follow one another; Kalshi moves a market to its archive, settles it, or *)
(* posts its candles between two calls, and the move may fall into one.     *)
(***************************************************************************)
EXTENDS Integers, Sequences, FiniteSets

CONSTANTS
    Period,      \* the length of a candle
    MaxCandles,  \* of one request
    Horizon,     \* candles end in 1 .. Horizon
    Opens, Closes, \* the ends of the windows that are asked for
    MinSeen, MinEvents,  \* observations, and events, a rule rests on
    MaxCalls,
    None

VARIABLES
    store,  \* which of the four a behaviour is about
    world,  \* what Kalshi holds
    file,   \* the cache file
    answer, \* what the last call returned
    calls   \* how many were made

\* A request holds three candles at least, and what is absent is no number
\* and no record.
MarketAssumption ==
    /\ Period \in Nat \ {0} /\ MaxCandles \in Nat /\ MaxCandles >= 3
    /\ Horizon \in Nat /\ Opens \subseteq 0 .. Horizon /\ Closes \subseteq 0 .. Horizon
    /\ None \notin Nat
    /\ None \notin [market : {"m", "n"}, level : {"full", "timing"}, settled : BOOLEAN]

vars == <<store, world, file, answer, calls>>

Call == calls < MaxCalls /\ calls' = calls + 1

-------------------------------------------------------------------------------
(* Candles.                                                                  *)

\* The requests of a window: each spans at most MaxCandles - 1 periods, and
\* starts one period before the previous one ends.
PageSpan == (MaxCandles - 1) * Period
Step == PageSpan - Period
WindowsWithoutOverlap(open, close) ==
    IF close - open <= PageSpan THEN {<<open, close>>}
    ELSE LET starts == {open + k * PageSpan : k \in 0 .. Horizon}
         IN  {<<s, IF s + PageSpan < close THEN s + PageSpan ELSE close>> :
                  s \in {t \in starts : t < close}}
CandleRequestWindows(open, close) ==
    IF close - open <= PageSpan THEN {<<open, close>>}
    ELSE LET starts == {open + k * Step : k \in 0 .. Horizon}
             inner  == {s \in starts : s + PageSpan < close}
             last   == CHOOSE s \in starts : /\ s + PageSpan >= close
                                             /\ \A t \in starts : t < s => t \in inner
         IN  {<<s, s + PageSpan>> : s \in inner} \cup {<<last, close>>}

\* Whether Kalshi counts a window's ends is not documented: `ends` says.
Within(t, w, ends) ==
    /\ IF "start" \in ends THEN w[1] <= t ELSE w[1] < t
    /\ IF "end" \in ends THEN t <= w[2] ELSE t < w[2]
Served(w) == IF world.posted THEN {t \in world.printed : Within(t, w, world.ends)} ELSE {}
Refused(w) == w[1] < w[2] /\ (w[2] - w[1]) \div Period + 1 > MaxCandles

CandleFile(w, candles) ==
    [window |-> w, current |-> TRUE, candles |-> candles, old |-> FALSE]

CandlesInit ==
    /\ store = "candles" /\ calls = 0 /\ answer = None
    /\ \E printed \in SUBSET {t \in 1 .. Horizon : t % Period = 0},
          ends \in SUBSET {"start", "end"}, posted \in BOOLEAN,
          at \in {"live", "archive"} :
        world = [printed |-> printed, ends |-> ends, posted |-> posted, at |-> at]
    /\ \/ file = None
       \* Kept by an earlier version, without the fields of this one.
       \/ file = [CandleFile(<<0, Horizon>>, {Horizon}) EXCEPT !.current = FALSE]

CandlesLater ==
    /\ store = "candles"
    /\ \E posted \in {world.posted, TRUE}, at \in {world.at, "archive"} :
        world' = [world EXCEPT !.posted = posted, !.at = at]
    /\ file' = IF file = None THEN None ELSE [file EXCEPT !.old = TRUE]
    /\ answer' = None
    /\ UNCHANGED <<store, calls>>

\* The endpoints in the order they are asked; the second one only after a 404.
CandleEndpoints(series, liveFirst) ==
    IF ~series THEN <<"archive">>
    ELSE IF liveFirst THEN <<"live", "archive">> ELSE <<"archive", "live">>

\* How reading every window of an endpoint may end: a market that is not
\* there, or goes while it is read, is a 404.
Outcomes(endpoint, moved) ==
    {"failed"} \cup (IF endpoint = world.at \/ endpoint = moved THEN {"whole"} ELSE {})
               \cup (IF endpoint = world.at /\ endpoint = moved THEN {} ELSE {"404"})

FetchedCandles(w) == UNION {Served(v) : v \in CandleRequestWindows(w[1], w[2])}

CacheServes(w) ==
    /\ file # None /\ file.current
    /\ file.window[1] <= w[1] /\ file.window[2] >= w[2]
    /\ file.candles # {} \/ ~file.old

\* The whole window or nothing: a failed request leaves the file as it was.
FetchCandlesticks ==
    /\ store = "candles" /\ Call
    /\ \E open \in Opens, close \in Closes :
        LET w == <<open, close>>
            candles == FetchedCandles(w)
            refused == \E v \in CandleRequestWindows(open, close) : Refused(v)
            fetched == /\ answer' = [window |-> w, from |-> "kalshi", candles |-> candles]
                       /\ file' = CandleFile(w, candles)
            failed  == /\ answer' = [window |-> w, from |-> "none", candles |-> {}]
                       /\ file' = file
        IN  \E use \in BOOLEAN, series \in BOOLEAN, liveFirst \in BOOLEAN, moved \in {world.at, "archive"} :
            LET endpoints == CandleEndpoints(series, liveFirst) IN
            /\ world' = [world EXCEPT !.at = moved]
            /\ IF use /\ CacheServes(w)
               THEN /\ answer' = [window |-> w, from |-> "file", candles |-> file.candles]
                    /\ file' = file
               ELSE IF refused
               THEN /\ answer' = [window |-> w, from |-> "refused", candles |-> {}]
                    /\ file' = file
               ELSE \E first \in Outcomes(endpoints[1], moved) :
                    CASE first = "whole" -> fetched
                      [] first # "whole" /\ (first = "failed" \/ Len(endpoints) = 1) -> failed
                      [] OTHER -> \/ fetched /\ "whole" \in Outcomes(endpoints[2], moved)
                                  \/ failed
    /\ UNCHANGED store

-------------------------------------------------------------------------------
(* Details: load_market_details.                                             *)

\* The file is a sequence of records, Bad where it is damaged: what comes
\* after is not read.  A record has its market, its level and whether it was
\* settled.
Bad == [market |-> "bad", level |-> "none", settled |-> FALSE]
Details == {"m", "n"}
Level(full) == IF full THEN "full" ELSE "timing"

DetailsInit ==
    /\ store = "details" /\ calls = 0 /\ answer = None
    /\ world \in [Details -> BOOLEAN]
    /\ file = <<>>

Settle ==
    /\ store = "details"
    /\ \E m \in Details : ~world[m] /\ world' = [world EXCEPT ![m] = TRUE]
    /\ UNCHANGED <<store, file, answer, calls>>

Good(f) == LET bad == {i \in 1 .. Len(f) : f[i] = Bad}
           IN  IF bad = {} THEN f
               ELSE SubSeq(f, 1, (CHOOSE i \in bad : \A j \in bad : i <= j) - 1)

\* The market's last record before the damage, None when there is none.
ReadDetails(f, m) ==
    LET mine == {i \in 1 .. Len(Good(f)) : f[i].market = m}
    IN  IF mine = {} THEN None ELSE f[CHOOSE i \in mine : \A j \in mine : j <= i]

\* A damaged tail goes before records are appended.
AppendAfresh(f, records, repair) == (IF repair THEN <<>> ELSE f) \o records
AppendDetails(f, records, repair) == (IF repair THEN Good(f) ELSE f) \o records

\* Only records that are settled are kept.
KeptDetails(record) == record.settled

\* The markets that one of the two listings named before a request failed.
LoadMarketDetails ==
    /\ store = "details" /\ Call
    /\ \E wanted \in (SUBSET Details) \ {{}}, full \in SUBSET Details, listed \in SUBSET Details,
          saved \in {"whole", "cut", "no"} :
        LET cached(m) == ReadDetails(file, m)
            hit    == {m \in wanted : /\ cached(m) # None
                                      /\ m \in full => cached(m).level = "full"}
            record(m) == [market |-> m, level |-> Level(m \in full), settled |-> world[m]]
            found  == (wanted \ hit) \cap listed
            fresh  == {m \in found : KeptDetails(record(m))}
            lines  == (IF "m" \in fresh THEN <<record("m")>> ELSE <<>>)
                          \o (IF "n" \in fresh THEN <<record("n")>> ELSE <<>>)
            repair == Good(file) # file
        IN  /\ answer' = [records |-> [m \in Details |->
                              IF m \in hit THEN cached(m)
                              ELSE IF m \in found THEN record(m) ELSE None],
                          full |-> full,
                          fresh |-> IF saved = "whole" THEN fresh ELSE {}]
            /\ file' = IF lines = <<>> \/ saved = "no" THEN file
                       ELSE AppendDetails(file, lines, repair)
                                \o (IF saved = "whole" THEN <<>> ELSE <<Bad>>)
    /\ UNCHANGED <<store, world>>

-------------------------------------------------------------------------------
(* Trades: load_market_trades.  Each of three trades of one contract is held *)
(* by the archive, the live listing or both; `total` is the market's volume. *)

Trades == 1 .. 3
Places == {"archive", "live"}

TradesInit ==
    /\ store = "trades" /\ calls = 0 /\ answer = None /\ file = None
    /\ \E total \in {None, Cardinality(Trades), Cardinality(Trades) + 1},
          held \in [Trades -> (SUBSET Places) \ {{}}] :
        world = [total |-> total, held |-> held]

HeldAt(place) == {t \in Trades : place \in world.held[t]}
Spanning == \E t, u \in Trades : world.held[t] \cap world.held[u] = {}

\* How a walk through one listing may end.
Walks(place) == {"failed"} \cup (IF HeldAt(place) = {} THEN {"404"} ELSE {"whole"})

\* The merged walks, each trade once.
MergeWalks(walks) ==
    [t \in Trades |-> IF \E w \in walks : t \in HeldAt(w) THEN 1 ELSE 0]

Volume(trades) == trades[1] + trades[2] + trades[3]

\* `knows` is whether the caller knows if the market spans the trades cutoff.
LoadMarketTrades ==
    /\ store = "trades" /\ Call
    /\ \E first \in Places, knows \in BOOLEAN, saved \in BOOLEAN :
        LET other   == CHOOSE p \in Places : p # first
            none    == /\ answer' = [trades |-> None, knew |-> knows]
                       /\ file' = file
            read(walks) ==
                LET trades == MergeWalks(walks)
                IN  /\ answer' = [trades |-> trades, knew |-> knows]
                    /\ file' = IF world.total = Volume(trades) /\ saved THEN trades ELSE file
        IN  \* A market that is all on one side is asked for at its own.
            /\ knows /\ ~Spanning => HeldAt(first) = Trades
            /\ IF file # None
               THEN /\ answer' = [trades |-> file, knew |-> TRUE]
                    /\ file' = file
               ELSE \E w \in Walks(first) :
                    CASE w = "failed" -> none
                      [] w = "404" -> \E v \in Walks(other) :
                            IF v = "whole" THEN read({other}) ELSE none
                      [] w = "whole" /\ knows /\ Spanning -> \E v \in Walks(other) :
                            CASE v = "whole" -> read(Places)
                              [] v = "404" -> read({first})
                              [] OTHER -> none
                      [] w = "whole" /\ ~knows /\ world.total # None
                             /\ world.total > Cardinality(HeldAt(first)) ->
                            \E v \in Walks(other) :
                                IF v = "whole" THEN read(Places) ELSE read({first})
                      [] OTHER -> read({first})
    /\ UNCHANGED <<store, world>>

-------------------------------------------------------------------------------
(* The rule for scheduled closes: learn_close_rules and scheduled_close, for *)
(* one series.                                                              *)

Fields == {"close", "latest", "expected"}
Preference == <<"close", "latest", "expected">>
RuleMarkets == {"a", "b", "c"}
EventOf(m) == IF m = "c" THEN "two" ELSE "one"

\* Each market's settled record; when it was seen open, closes it had.
RulesInit ==
    /\ store = "rules" /\ calls = 0 /\ answer = None /\ file = None
    /\ \E timing \in [RuleMarkets -> [close : {4}, latest : {5, None}, expected : {4, 5, None}]],
          seen \in [RuleMarkets -> SUBSET {4, 5}] :
        world = [timing |-> timing, rows |-> {r \in RuleMarkets \X {4, 5} : r[2] \in seen[r[1]]}]

Support == {r \in world.rows : /\ world.timing[r[1]].latest # None
                               /\ world.timing[r[1]].expected # None}
Gap(t) == t.latest - t.expected

\* The field and offset that give every close that was seen.
Fits(field, offset) ==
    \A r \in world.rows : /\ world.timing[r[1]][field] # None
                          /\ world.timing[r[1]][field] + offset = r[2]

\* The offset is that of the observation read first.
RuleFrom(first) ==
    LET t == world.timing[first[1]]
        offset(field) == first[2] - t[field]
        works == {i \in 1 .. 3 : /\ t[Preference[i]] # None
                                 /\ Fits(Preference[i], offset(Preference[i]))}
    IN  IF \/ Cardinality(Support) < MinSeen
           \/ Cardinality({EventOf(r[1]) : r \in Support}) < MinEvents
           \/ works = {}
        THEN None
        ELSE LET field == Preference[CHOOSE i \in works : \A j \in works : i <= j]
             IN  [field |-> field, offset |-> offset(field),
                  prints |-> {Gap(world.timing[r[1]]) : r \in Support}]

LearnCloseRules ==
    /\ store = "rules" /\ Call
    /\ \E first \in world.rows : answer' = [rule |-> RuleFrom(first)]
    /\ UNCHANGED <<store, world, file>>

CloseRuleApplies(t, rule) ==
    rule # None /\ None \notin {t.latest, t.expected} /\ Gap(t) \in rule.prints

ScheduledClose(t, rule) ==
    IF ~CloseRuleApplies(t, rule) \/ t[rule.field] = None THEN None
    ELSE LET at == t[rule.field] + rule.offset
         IN  IF at >= t.close THEN at ELSE None

-------------------------------------------------------------------------------
Init == CandlesInit \/ DetailsInit \/ TradesInit \/ RulesInit

Next == \/ CandlesLater \/ FetchCandlesticks
        \/ Settle \/ LoadMarketDetails
        \/ LoadMarketTrades
        \/ LearnCloseRules

Spec == Init /\ [][Next]_vars

-------------------------------------------------------------------------------
(* Properties.                                                              *)

\* A market's candles are all those of the window, however Kalshi counts a
\* request's ends and however many requests the window takes: none is refused,
\* a candle is never missing at a seam, and a file kept for a window serves
\* another only when it has all of that one's.  Only a file that is empty and
\* young may hide candles that were posted since.
CandlesAreWhole ==
    store = "candles" =>
        /\ file # None /\ file.current /\ file.candles # {} => file.candles = Served(file.window)
        /\ answer # None =>
            /\ answer.from # "refused"
            /\ answer.from = "kalshi" => answer.candles = Served(answer.window)
            /\ answer.from = "file" => \/ Served(answer.window) \subseteq answer.candles
                                       \/ answer.candles = {} /\ ~file.old

\* A market's kept record is its last: it was settled when it was read.  A
\* full record is never answered by one with the times alone.
DetailsAreFinal ==
    store = "details" =>
        \A m \in Details :
            /\ ReadDetails(file, m) # None => ReadDetails(file, m).settled
            /\ answer # None /\ answer.records[m] # None =>
                /\ m \in answer.full => answer.records[m].level = "full"
                /\ m \in answer.fresh => ReadDetails(file, m) # None

\* Kept trades are the market's, each once.  Trades that are returned are all
\* of them when the caller knew on which side of the cutoff they are.
TradesAreWhole ==
    store = "trades" =>
        /\ file # None => file = [t \in Trades |-> 1]
        /\ answer # None /\ answer.trades # None /\ answer.knew =>
              answer.trades = [t \in Trades |-> 1]

\* The rule gives a market that was seen open the close it was seen with, or
\* none, whichever observation is read first, and no market a close before
\* the one it had.
ScheduledCloseFits ==
    (store = "rules" /\ answer # None) =>
        /\ \A first \in world.rows : answer.rule = RuleFrom(first)
        /\ \A r \in world.rows : ScheduledClose(world.timing[r[1]], answer.rule) \in {r[2], None}
        /\ \A m \in RuleMarkets : LET at == ScheduledClose(world.timing[m], answer.rule)
                              IN  at # None => at >= world.timing[m].close

\* What a backtest keeps of a market is whole and final.
MarketKept == CandlesAreWhole /\ DetailsAreFinal /\ TradesAreWhole /\ ScheduledCloseFits

\* A damaged file costs none of the records before the damage, and no market's
\* record loses its fields.
FieldsKept ==
    store = "details" =>
        \A m \in Details :
            ReadDetails(file, m) # None =>
                /\ ReadDetails(file', m) # None
                /\ ReadDetails(file, m).level = "full" => ReadDetails(file', m).level = "full"
DetailsAreKept == [][FieldsKept]_vars
===============================================================================
