------------------------------ MODULE EventStore ------------------------------
(***************************************************************************)
(* What a backtest keeps of Kalshi's events between runs (historical.py):   *)
(* the answers it reads one event at a time (competition labels, fee        *)
(* overrides, facts), the titles, which several listings and a capped       *)
(* number of lookups resolve, and the listing of series with their fees.    *)
(* Calls follow one another; a call may fail to read or to write its file,  *)
(* a request may fail, and a run may die between two writes.                *)
(***************************************************************************)
EXTENDS Integers, FiniteSets

CONSTANTS
    Combo,      \* the events of the combo family, in 1 .. Last
    Last,       \* events are numbered in ticker order
    Cap,        \* lookups per call
    MaxAge,     \* of a series listing that is used without asking
    MaxCalls,
    None,
    Damaged     \* a file that is there and does not parse

VARIABLES
    store,  \* which of the three a behaviour is about
    truth,  \* what Kalshi says of each event, or the version of its listing
    file,   \* the cache file
    legacy, \* the titles' file of before, or None
    answer, \* what the last call returned
    calls   \* how many were made

EventAssumption == MaxCalls \in Nat /\ None \notin {"t", "u", Damaged}

vars == <<store, truth, file, legacy, answer, calls>>

Events == 1 .. Last

\* The contents of a file of answers: an event's answer, or None.  Unread is
\* an entry that is no answer, and a label of Kalshi's that is none.
Unread == "unread"

\* f where it has an answer, else g.
Over(f, g) == [e \in Events |-> IF f[e] # None THEN f[e] ELSE g[e]]
Only(f, S) == [e \in Events |-> IF e \in S THEN f[e] ELSE None]
Known(f) == {e \in Events : f[e] # None}
Nothing == [e \in Events |-> None]

\* The n lowest of S.
FirstOf(S, n) == {e \in S : Cardinality({d \in S : d < e}) < n}

Call == calls < MaxCalls /\ calls' = calls + 1

-------------------------------------------------------------------------------
(* One answer an event: load_event_competitions, load_event_fee_overrides    *)
(* and load_event_facts.                                                    *)

AnswersInit ==
    /\ store = "answers"
    /\ truth \in [Events -> {"x", Unread}]
    /\ file \in [Events -> {None, "x", Unread}] \cup {Damaged}
    /\ \A e \in Events : file # Damaged => file[e] \in {None, Unread, truth[e]}
    /\ legacy = None /\ answer = None /\ calls = 0

\* The parsed entries of a file that could be read.
Parsed(f) == [e \in Events |-> IF f[e] = Unread THEN None ELSE f[e]]

\* The events read: as many as the cap allows, `early` ones first.
ToRead(missing, early) ==
    LET soon == FirstOf(missing \cap early, Cap)
    IN  soon \cup FirstOf(missing \ early, Cap - Cardinality(soon))

\* A read that fails, or an answer that is none, is left out.
AnsweredByFailure(reads, failed) ==
    [e \in Events |-> IF e \in reads /\ truth[e] # Unread
                      THEN IF e \in failed THEN "" ELSE truth[e] ELSE None]
Answered(reads, failed) ==
    [e \in Events |-> IF e \in reads \ failed /\ truth[e] # Unread THEN truth[e] ELSE None]

\* A damaged file, or one that cannot be opened, reads as empty and is
\* replaced; one whose reading raised otherwise is left as it is.
LoadAnswers ==
    /\ store = "answers" /\ Call
    /\ \E wanted \in SUBSET Events, early \in SUBSET Events, client \in BOOLEAN,
          read \in {"ok", "missed", "raised"}, saved \in BOOLEAN :
        LET cached  == IF read = "ok" /\ file # Damaged THEN Parsed(file) ELSE Nothing
            missing == wanted \ Known(cached)
            reads   == IF client THEN ToRead(missing, early) ELSE {}
        IN  \E failed \in SUBSET reads :
                LET fresh == Answered(reads, failed)
                IN  /\ answer' = [found |-> Over(fresh, Only(cached, wanted)),
                                  lost |-> read = "missed" \/ file = Damaged]
                    /\ file' = IF Known(fresh) # {} /\ read # "raised" /\ saved
                               THEN Over(fresh, cached) ELSE file
    /\ UNCHANGED <<store, truth, legacy>>

-------------------------------------------------------------------------------
(* Titles: _load_or_build_event_titles.                                      *)

\* A title is "t" or, later, "u"; "" is stored for an event that has none, or
\* whose lookup failed.
TitlesInit ==
    /\ store = "titles"
    /\ truth \in [Events -> {"t", ""}]
    /\ file \in {None, Damaged, Nothing}
    /\ legacy \in {None, Damaged} \cup [Events -> {None, "", "t"}]
    /\ file # None => legacy = None
    /\ answer = [titles |-> Nothing, wanted |-> {}, stored |-> TRUE] /\ calls = 0

Retitle ==
    /\ store = "titles"
    /\ \E e \in Events : truth[e] = "t" /\ truth' = [truth EXCEPT ![e] = "u"]
    /\ UNCHANGED <<store, file, legacy, answer, calls>>

\* The accumulator: its titles, whether it is to be rewritten in any case,
\* whether it came from the legacy file, and whether it may be written at all.
Accumulator(read, readLegacy) ==
    LET acc(titles, rewrite, migrated, persist) ==
            [titles |-> titles, rewrite |-> rewrite, migrated |-> migrated, persist |-> persist]
    IN  CASE file # None /\ ~read -> acc(Nothing, FALSE, FALSE, FALSE)
          [] file = Damaged /\ read -> acc(Nothing, TRUE, FALSE, TRUE)
          [] file \notin {None, Damaged} /\ read -> acc(file, FALSE, FALSE, TRUE)
          [] file = None /\ legacy = None -> acc(Nothing, FALSE, FALSE, TRUE)
          [] file = None /\ legacy # None /\ ~readLegacy -> acc(Nothing, FALSE, FALSE, FALSE)
          [] file = None /\ legacy = Damaged /\ readLegacy -> acc(Nothing, TRUE, FALSE, TRUE)
          [] OTHER -> acc([e \in Events |-> IF legacy[e] = "" THEN None ELSE legacy[e]],
                          TRUE, TRUE, TRUE)

\* The events looked up one by one: all, when they fit under the cap, else
\* those that are no combos - first those with no entry, then those stored
\* without a title, then the titled ones.
NonCombo(S) == S \ Combo
Rank(old, e) == IF old[e] = None THEN 0 ELSE IF old[e] = "" THEN 1 ELSE 2
LookedUp(unresolved, old) ==
    IF Cardinality(unresolved) <= Cap THEN unresolved
    ELSE LET plain == NonCombo(unresolved)
             before(d, e) == \/ Rank(old, d) < Rank(old, e)
                             \/ Rank(old, d) = Rank(old, e) /\ d < e
         IN  {e \in plain : Cardinality({d \in plain : before(d, e)}) < Cap}

\* A title found wins; a lookup without one is stored only for an event that
\* has no entry.
MergedLatest(fresh, old) == Over(fresh, old)
Merged(fresh, old) ==
    [e \in Events |-> IF fresh[e] = None \/ (fresh[e] = "" /\ old[e] # None)
                      THEN old[e] ELSE fresh[e]]

LoadTitles ==
    /\ store = "titles" /\ Call
    /\ \E wanted \in (SUBSET Events) \ {{}}, use \in BOOLEAN, read \in BOOLEAN,
          readLegacy \in BOOLEAN :
        LET acc        == Accumulator(read, readLegacy)
            unresolved == {e \in wanted : ~(use /\ acc.titles[e] # None)}
        IN  \E listed \in SUBSET unresolved :
            LET looked == LookedUp(unresolved \ listed, acc.titles)
            IN  \E failed \in SUBSET looked :
                LET fresh  == [e \in Events |->
                                  IF e \in failed THEN ""
                                  ELSE IF e \in listed \cup looked THEN truth[e] ELSE None]
                    merged == Merged(fresh, acc.titles)
                    write  == acc.persist /\ (merged # acc.titles \/ acc.rewrite)
                IN  /\ file' = IF write THEN merged ELSE file
                    \* The legacy file goes once the new one is written; the
                    \* run may die in between, or the delete fail.
                    /\ legacy' \in IF write /\ acc.migrated THEN {legacy, None} ELSE {legacy}
                    /\ answer' = [titles |-> Only(merged, wanted), wanted |-> wanted,
                                  stored |-> acc.persist]
    /\ UNCHANGED <<store, truth>>

-------------------------------------------------------------------------------
(* The listing of series: load_series_categories and, from the same file,    *)
(* load_series_fee_multipliers.                                             *)

SeriesInit ==
    /\ store = "series"
    /\ truth = 0 /\ legacy = None /\ calls = 0 /\ answer = None
    /\ file \in {None} \cup [version : {0}, age : {0, MaxAge}, fees : BOOLEAN]

\* Kalshi lists other series, or the next run comes later.
Later ==
    /\ store = "series" /\ calls < MaxCalls
    /\ truth' \in {truth, truth + 1} /\ truth' <= MaxCalls
    /\ file' = IF file = None THEN None ELSE [file EXCEPT !.age = MaxAge]
    /\ answer' = None
    /\ UNCHANGED <<store, legacy, calls>>

Listing == [version |-> truth, age |-> 0, fees |-> TRUE]
Young == file # None /\ file.age < MaxAge

\* A young copy is served as it is; else the listing is read, and when that
\* fails the copy is served whatever its age.
LoadCategories ==
    /\ store = "series" /\ Call
    /\ \E client \in BOOLEAN, lists \in BOOLEAN, saved \in BOOLEAN :
        IF client /\ ~Young /\ lists
        THEN /\ answer' = [labels |-> truth, fees |-> None, saved |-> saved]
             /\ file' = IF saved THEN Listing ELSE file
        ELSE /\ answer' = [labels |-> IF file = None THEN None ELSE file.version, fees |-> None,
                           saved |-> TRUE]
             /\ file' = file
    /\ UNCHANGED <<store, truth, legacy>>

\* The fees come with the labels of the same listing; a file of before fees
\* were kept is read again while it is young.
LoadFees ==
    /\ store = "series" /\ Call /\ answer # None /\ answer.fees = None
    /\ \E client \in BOOLEAN, lists \in BOOLEAN, saved \in BOOLEAN :
        IF client /\ Young /\ ~file.fees /\ lists
        THEN /\ answer' = [answer EXCEPT !.fees = truth]
             /\ file' = IF saved THEN Listing ELSE file
        ELSE /\ answer' = [answer EXCEPT !.fees =
                              IF file # None /\ file.fees THEN file.version ELSE None]
             /\ file' = file
    /\ UNCHANGED <<store, truth, legacy>>

-------------------------------------------------------------------------------
Init == AnswersInit \/ TitlesInit \/ SeriesInit

Next == LoadAnswers \/ Retitle \/ LoadTitles \/ Later \/ LoadCategories \/ LoadFees

Spec == Init /\ [][Next]_vars

-------------------------------------------------------------------------------
(* Properties.                                                              *)

\* An event's stored or returned answer is what Kalshi says of it: a read that
\* failed, a label that is none and an entry that is none are never taken for
\* an answer, so they are asked again.
AnswersAreKalshis ==
    store = "answers" =>
        /\ file # Damaged => \A e \in Events : file[e] \in {None, Unread, truth[e]}
        /\ answer # None => \A e \in Known(answer.found) : answer.found[e] = truth[e]

\* What was learned is kept: an answer, unless the file could not be opened or
\* was damaged; a title, unless its file was damaged, through a migration
\* that dies half-way, unreadable files and lookups that fail or are put off.
AnswersAreKept ==
    (store = "answers" /\ file # Damaged /\ ~answer'.lost) =>
        \A e \in Events : file[e] = truth[e] /\ truth[e] # Unread => file'[e] = file[e]
TitlesAreKept ==
    (store = "titles" /\ file \notin {None, Damaged}) =>
        \A e \in Events : file[e] \in {"t", "u"} => file'[e] \in {"t", "u"}
LegacyIsKept ==
    (store = "titles" /\ file = None /\ legacy \notin {None, Damaged}) =>
        \/ legacy' = legacy /\ file' = None
        \/ \A e \in Events : legacy[e] = "t" => file'[e] \in {"t", "u"}
Kept == AnswersAreKept /\ TitlesAreKept /\ LegacyIsKept
LearnedIsKept == [][Kept]_vars

\* The answer for a wanted event is the title on disk, when there is one; an
\* entry without a title is there only for an event that was asked about.
TitlesAreAnswered ==
    (store = "titles" /\ file \notin {None, Damaged} /\ answer.stored) =>
        \A e \in answer.wanted : file[e] \in {"t", "u"} => answer.titles[e] = file[e]

\* In one run, the fees are of a listing no older than the labels, unless the
\* listing could not be saved.
FeesGoWithLabels ==
    /\ store = "series" /\ answer # None
    /\ answer.saved /\ None \notin {answer.fees, answer.labels}
    => answer.labels <= answer.fees

\* Whatever is returned or kept of the events and their series is what Kalshi
\* said of them.
AnswersAreTrue == AnswersAreKalshis /\ TitlesAreAnswered /\ FeesGoWithLabels
===============================================================================
