------------------------------- MODULE Stores -------------------------------
(***************************************************************************)
(* What is kept on disk between runs, side by side: the settled markets     *)
(* (Corpus), what is known of their events (EventStore) and of each market  *)
(* (MarketSide), and the live settings (Settings).  They share no file; a   *)
(* behaviour is about one of them.                                          *)
(***************************************************************************)
EXTENDS Corpus

CONSTANTS
    Combo, Last, Cap, MaxAge, EventCalls,           \* EventStore's
    Period, MaxCandles, CandlesUntil, Opens, Closes,
    MinSeen, MinEvents, MarketCalls,                \* MarketSide's
    Seed, PageSets, OldFiles, Typed, MaxOpened, Others, Listed, \* Settings'
    Absent, Damaged     \* no file, no entry; and one that does not parse

VARIABLES
    part, \* "corpus", "events", "market" or "settings"
    store, held, cached, legacy, answer, calls

side == <<store, held, cached, legacy, answer, calls>>

E == INSTANCE EventStore WITH
        MaxCalls <- EventCalls, None <- Absent, truth <- held, file <- cached

S == INSTANCE MarketSide WITH
        Horizon <- CandlesUntil, MaxCalls <- MarketCalls, None <- Absent,
        world <- held, file <- cached

ASSUME EventAssumption == E!EventAssumption
ASSUME MarketAssumption == S!MarketAssumption

L == INSTANCE Settings WITH
        Off <- Absent, Torn <- Damaged, Pages <- PageSets, MaxPages <- MaxOpened,
        file <- store, disk <- held, page <- cached, save <- legacy, run <- answer, opened <- calls

-------------------------------------------------------------------------------
\* No corpus, and no other file.
NoCorpus ==
    /\ now = 0 /\ settle = 0 /\ cutoff = 0 /\ arch = 0 /\ live = 0
    /\ file = [s \in Starts |-> NoFile]
    /\ run = 0 /\ lacking = {} /\ faults = 0 /\ moves = 0

NoSide ==
    /\ store = "none" /\ held = 0 /\ cached = 0 /\ legacy = 0 /\ answer = 0 /\ calls = 0

StoresInit ==
    \/ part = "corpus" /\ Init /\ NoSide
    \/ part = "events" /\ NoCorpus /\ E!Init
    \/ part = "market" /\ NoCorpus /\ S!Init /\ legacy = 0
    \/ part = "settings" /\ NoCorpus /\ L!Init

InCorpus == part = "corpus" /\ UNCHANGED <<part, side>>
InEvents == part = "events" /\ UNCHANGED <<part, vars>>
InMarket == part = "market" /\ UNCHANGED <<part, vars, legacy>>
InSettings == part = "settings" /\ UNCHANGED <<part, vars>>

StoresNext ==
    \/ InCorpus /\ Tick
    \/ InCorpus /\ \E m \in Markets : Settle(m)
    \/ InCorpus /\ \E c \in 1 .. Horizon : MoveCutoff(c)
    \/ InCorpus /\ \E s \in Starts, useCache \in BOOLEAN : Begin(s, useCache)
    \/ InCorpus /\ ReadCutoffToExtend
    \/ InCorpus /\ ReadCutoff
    \/ InCorpus /\ \E d \in Days : FetchArchiveDay(d)
    \/ InCorpus /\ ArchiveRead
    \/ InCorpus /\ ArchiveInOneWalk
    \/ InCorpus /\ \E d \in Days : FetchLiveDay(d)
    \/ InCorpus /\ FetchFrontier
    \/ InCorpus /\ LiveInOneSweep
    \/ InCorpus /\ CountAssembled
    \/ InCorpus /\ \E recorded \in BOOLEAN : Publish(recorded)
    \/ InCorpus /\ WalkFails
    \/ InCorpus /\ RequestFails
    \/ InCorpus /\ Kill
    \/ InCorpus /\ Lose
    \/ InCorpus /\ AtHorizon
    \/ InEvents /\ E!LoadAnswers
    \/ InEvents /\ E!Retitle
    \/ InEvents /\ E!LoadTitles
    \/ InEvents /\ E!Later
    \/ InEvents /\ E!LoadCategories
    \/ InEvents /\ E!LoadFees
    \/ InMarket /\ S!CandlesLater
    \/ InMarket /\ S!FetchCandlesticks
    \/ InMarket /\ S!Settle
    \/ InMarket /\ S!LoadMarketDetails
    \/ InMarket /\ S!LoadMarketTrades
    \/ InMarket /\ S!LearnCloseRules
    \/ InSettings /\ L!Open
    \/ InSettings /\ L!Close
    \/ InSettings /\ L!Confirm
    \/ InSettings /\ L!Write
    \/ InSettings /\ L!Flush
    \/ InSettings /\ L!Replace
    \/ InSettings /\ L!SyncDirectory
    \/ InSettings /\ L!ReadBack
    \/ InSettings /\ L!Raises
    \/ InSettings /\ L!Answer
    \/ InSettings /\ L!Launch
    \/ InSettings /\ L!Start
    \/ InSettings /\ L!Boot
    \/ InSettings /\ L!Ends
    \/ InSettings /\ L!SavedElsewhere
    \/ InSettings /\ L!PowerCut

StoresSpec == StoresInit /\ [][StoresNext]_<<part, vars, side>>

-------------------------------------------------------------------------------
(* What is kept of the events, or returned, is what Kalshi said of them, and *)
(* an answer or a title that was learned is never lost again, whatever call  *)
(* fails or dies half-way.                                                  *)
EventsAreKept == [](part = "events" => E!AnswersAreTrue) /\ [][part = "events" => E!Kept]_side

(* A market's kept candles, trades, fields and scheduled close are whole and *)
(* final, and neither damage nor a later reading costs it the fields it had. *)
MarketIsKept == [](part = "market" => S!MarketKept) /\ [][part = "market" => S!FieldsKept]_side

(* What is kept beside the settled markets stays: the two above.            *)
StoresAreKept == EventsAreKept /\ MarketIsKept

(* A run trades what the page that started it showed, or the file's         *)
(* settings under the flags it was given, and every link a page may hold    *)
(* proposes what that page shows.                                           *)
RunsAreAsked == part = "settings" => L!RunsAreAsked /\ L!LinksAreTaken

(* The settings file is whole after every power cut and holds what was      *)
(* saved, and an older version's file never trades more without saying so.  *)
SettingsAreKept == part = "settings" => L!SettingsAreKept
===============================================================================
