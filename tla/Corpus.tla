-------------------------------- MODULE Corpus --------------------------------
(***************************************************************************)
(* The settled-market corpus of a backtest: historical.py's                *)
(* fetch_all_settled_markets and what it calls.                            *)
(*                                                                         *)
(* Kalshi serves a settled market from one of two endpoints: the archive,  *)
(* when it settled before the archive cutoff, and the live one otherwise.  *)
(* The cutoff moves forward now and then, and with it markets leave the    *)
(* live endpoint for the archive.  The program keeps on disk one file per  *)
(* created-day of the archive, stamped with the cutoff it was read under,  *)
(* one file per fully elapsed settled-day of the live endpoint, and one    *)
(* assembled file per window start, which later runs serve, extend or      *)
(* rebuild.  A run can be killed between any two steps; every file is      *)
(* written beside its final name and renamed, so a killed write leaves no  *)
(* trace.  A file that cannot be read is the same as a missing one.        *)
(*                                                                         *)
(* Time is counted in ticks; a day is DayTicks of them.  A market is a     *)
(* model value; a corpus is a set of them (its order is not modelled, and  *)
(* the prefilter is the one that keeps everything).                        *)
(***************************************************************************)
EXTENDS Integers, FiniteSets

CONSTANTS Markets,       \* every market that may settle
          Created,       \* the day each of them was created on
          DayTicks,      \* ticks in a UTC day
          Starts,        \* window starts in use (ticks, each a midnight)
          Horizon,       \* bound: the last tick
          MaxFaults,     \* bound: kills, failed requests and lost files together
          MaxMoves,      \* bound: moves of the archive cutoff
          MovesMidRun    \* whether the cutoff may move while a run is reading

ASSUME DayTicksAssumption == DayTicks \in Nat \ {0}
ASSUME HorizonAssumption == Horizon \in Nat
ASSUME CreatedAssumption == Created \in [Markets -> {t \in 0..Horizon : t % DayTicks = 0}]
ASSUME StartsAssumption == Starts \subseteq {t \in 0..Horizon : t % DayTicks = 0}

VARIABLES now,      \* the clock
          settle,   \* when each market settled, Open until it has
          cutoff,   \* the archive cutoff Kalshi reports
          arch,     \* archive_days/: the file of each created-day
          live,     \* live_days/: the file of each settled-day
          file,     \* the assembled file of each window start
          run,      \* the run in progress
          lacking,  \* what the corpus last handed over lacks
          faults,   \* counted against MaxFaults
          moves     \* counted against MaxMoves

vars == <<now, settle, cutoff, arch, live, file, run, lacking, faults, moves>>
world == <<now, settle, cutoff, moves>>

Open == -1
None == -1
NoFile == [recs |-> {}, known |-> FALSE]
Midnight(t) == t - (t % DayTicks)
Days == {t \in 0..Horizon : t % DayTicks = 0}
Settled == {m \in Markets : settle[m] # Open}
InArchive == {m \in Settled : settle[m] < cutoff}
OnLive == {m \in Settled : settle[m] >= cutoff}
SettledFrom(S, lo) == {m \in S : settle[m] >= lo}
SettledUpTo(S, hi) == {m \in S : settle[m] <= hi}
SettledBefore(S, hi) == {m \in S : settle[m] < hi}

Idle == [step |-> "idle"]
-----------------------------------------------------------------------------
(* Kalshi and the clock.                                                    *)

Tick == /\ now < Horizon
        /\ now' = now + 1
        /\ UNCHANGED <<settle, cutoff, moves, arch, live, file, run, lacking, faults>>

Settle(m) == /\ settle[m] = Open
             /\ Created[m] <= now
             /\ settle' = [settle EXCEPT ![m] = now]
             /\ UNCHANGED <<now, cutoff, moves, arch, live, file, run, lacking, faults>>

MoveCutoff(c) == /\ moves < MaxMoves
                 /\ cutoff < c /\ c <= now
                 /\ run = Idle \/ MovesMidRun
                 /\ cutoff' = c
                 /\ moves' = moves + 1
                 /\ UNCHANGED <<now, settle, arch, live, file, run, lacking, faults>>
-----------------------------------------------------------------------------
(* One run.                                                                 *)

(* What a corpus handed over as up to date lacks of the days before the one *)
(* its run began on; a stale one is announced as such.                      *)
Lacks(s, began, recs) == SettledBefore(SettledFrom(Settled, s), began) \ recs

Serve(recs) == /\ lacking' = Lacks(run.start, run.began, recs)
               /\ run' = Idle

(* Without a recorded frontier day the file is taken to reach the day       *)
(* before it was assembled, or its first live record's day if earlier.      *)
FrontierOf(f) ==
  IF f.frontier # None THEN f.frontier
  ELSE LET dayBefore == Midnight(f.at) - DayTicks
       IN IF f.first # None /\ Midnight(f.first) < dayBefore
          THEN Midnight(f.first) ELSE dayBefore

(* A file written today is served as it is; an earlier one is brought up to *)
(* date; one that cannot be told is rebuilt.                                *)
TodayAt(f) == IF f.frontier # None THEN f.frontier ELSE Midnight(f.at)

Begin(s, useCache) ==
  /\ run = Idle
  /\ now >= s
  /\ LET f == file[s]
         today == Midnight(now)
         begun == [step |-> "cutoff", mode |-> "full", start |-> s, began |-> today]
     IN IF ~ (useCache /\ f.known) \/ (f.known /\ TodayAt(f) > today)
        THEN run' = begun /\ UNCHANGED lacking
        ELSE IF TodayAt(f) = today
        THEN /\ lacking' = IF f.frontier = None THEN {} ELSE Lacks(s, today, f.recs)
             /\ UNCHANGED run
        ELSE run' = [begun EXCEPT !.mode = "extend"] /\ UNCHANGED lacking
  /\ UNCHANGED <<world, arch, live, file, faults>>

ArchiveDays(c) == {d \in Days : d < c}
LiveDaysWithToday(lo, t) == {d \in Days : Midnight(lo) <= d /\ d <= Midnight(t)}
LiveDays(lo, t) == {d \in Days : Midnight(lo) <= d /\ d < Midnight(t)}
FrontierDay(lo, t) == IF Midnight(t) > Midnight(lo) THEN Midnight(t) ELSE Midnight(lo)
Stamped(d, c) == arch[d].known /\ arch[d].stamp = c

Pruned(c) == [d \in Days |-> IF d + DayTicks <= c THEN NoFile ELSE live[d]]

(* The live phase starts: which days to read, and the frontier day.  It     *)
(* follows the pruning of the day files the cutoff has passed.              *)
EnterLive(c, lo, seq) ==
  /\ live' = Pruned(c)
  /\ run' = [step |-> "live", mode |-> run.mode, start |-> run.start, began |-> run.began,
             cut |-> c, lo |-> lo, seqA |-> seq,
             front |-> FrontierDay(lo, now), days |-> LiveDays(lo, now),
             todo |-> {d \in LiveDays(lo, now) : ~ live'[d].known},
             spool |-> NoFile]

(* The cutoff read of a run that extends: out of reach, it serves the old   *)
(* file and says so; a cutoff past the frontier day needs a rebuild.        *)
ReadCutoffToExtend ==
  /\ run.step = "cutoff" /\ run.mode = "extend"
  /\ LET f == file[run.start]
     IN IF ~ f.known \/ cutoff < f.cut \/ cutoff > FrontierOf(f)
        THEN /\ run' = [run EXCEPT !.mode = "full"]
             /\ UNCHANGED live
        ELSE EnterLive(cutoff, IF FrontierOf(f) > run.start THEN FrontierOf(f) ELSE run.start,
                       NoFile)
  /\ UNCHANGED <<world, arch, file, lacking, faults>>

ReadCutoff ==
  /\ run.step = "cutoff" /\ run.mode = "full"
  /\ run' = [step |-> "archive", mode |-> "full", start |-> run.start, began |-> run.began,
             cut |-> cutoff,
             todo |-> IF run.start >= cutoff THEN {}
                      ELSE {d \in ArchiveDays(cutoff) : ~ Stamped(d, cutoff)}]
  /\ UNCHANGED <<world, arch, live, file, lacking, faults>>

(* The archive is paged by creation time, so a day is walked from its upper *)
(* bound down until a record older than it.                                 *)
CreatedOn(d) == {m \in InArchive : Created[m] = d}

FetchArchiveDay(d) ==
  /\ run.step = "archive" /\ d \in run.todo
  /\ arch' = [arch EXCEPT ![d] = [known |-> TRUE, stamp |-> run.cut, recs |-> CreatedOn(d)]]
  /\ run' = [run EXCEPT !.todo = @ \ {d}]
  /\ UNCHANGED <<world, live, file, lacking, faults>>

ToLive(seq) == EnterLive(run.cut, IF run.cut > run.start THEN run.cut ELSE run.start, seq)

ArchiveRead ==
  /\ run.step = "archive" /\ run.todo = {}
  /\ ToLive(NoFile)
  /\ UNCHANGED <<world, arch, file, lacking, faults>>

(* The cursor format has changed: one walk of the whole archive instead.    *)
ArchiveInOneWalk ==
  /\ run.step = "archive" /\ run.start < run.cut
  /\ ToLive([known |-> TRUE,
             recs |-> SettledBefore(SettledFrom(InArchive, run.start), run.cut)])
  /\ UNCHANGED <<world, arch, file, lacking, faults>>

(* A fully elapsed day is read with both bounds included, and kept.         *)
LiveWindow(d) == SettledUpTo(SettledFrom(OnLive, d), d + DayTicks)

FetchLiveDay(d) ==
  /\ run.step = "live" /\ d \in run.todo
  /\ live' = [live EXCEPT ![d] = [known |-> TRUE, recs |-> LiveWindow(d)]]
  /\ run' = [run EXCEPT !.todo = @ \ {d}]
  /\ UNCHANGED <<world, arch, file, lacking, faults>>

(* The frontier day is read to the present and never kept.                  *)
FetchFrontier ==
  /\ run.step = "live" /\ ~ run.spool.known
  /\ run' = [run EXCEPT !.spool = [known |-> TRUE, recs |-> SettledFrom(OnLive, run.front)]]
  /\ UNCHANGED <<world, arch, live, file, lacking, faults>>

(* The endpoint ignores the upper bound: one sweep from the lower one.      *)
LiveInOneSweep ==
  /\ run.step = "live"
  /\ run' = [run EXCEPT !.spool = [known |-> TRUE, recs |-> SettledFrom(OnLive, run.lo)],
                        !.days = {}, !.todo = {}]
  /\ UNCHANGED <<world, arch, live, file, lacking, faults>>

(* What the old file contributes to an extension, the archive's part of a   *)
(* full assembly, and the live part of either.                              *)
KeptBelowCutoff == SettledBefore(file[run.start].recs, run.cut)
KeptFromOld == SettledUpTo(file[run.start].recs, run.lo)
FromArchive ==
  IF run.start >= run.cut THEN {}
  ELSE SettledBefore(SettledFrom(IF run.seqA.known THEN run.seqA.recs
                                 ELSE UNION {arch[d].recs : d \in ArchiveDays(run.cut)},
                                 run.start), run.cut)
FromLive == SettledFrom(run.spool.recs \cup UNION {live[d].recs : d \in run.days}, run.start)

(* Every file the assembly walks is still there.                            *)
Walkable ==
  /\ \A d \in run.days : live[d].known
  /\ run.mode = "extend" => file[run.start].known
  /\ run.mode = "full" /\ run.start < run.cut /\ ~ run.seqA.known
       => \A d \in ArchiveDays(run.cut) : Stamped(d, run.cut)

Assembled == FromLive \cup (IF run.mode = "extend" THEN KeptFromOld ELSE FromArchive)

(* The first walk counts what there is; the titles are resolved after it.   *)
CountAssembled ==
  /\ run.step = "live" /\ run.todo = {} /\ run.spool.known
  /\ Walkable
  /\ run' = [run EXCEPT !.step = "write", !.todo = Assembled]
  /\ UNCHANGED <<world, arch, live, file, lacking, faults>>

(* The newest record of the live part: the first one written.               *)
FirstLive(recs) ==
  LET front == SettledFrom(recs, run.front)
      later == IF front # {} THEN front ELSE SettledFrom(recs, run.cut)
  IN {settle[m] : m \in later}

(* The second walk writes, and must reproduce the first.  A file written by *)
(* an earlier version of the program records no frontier day (and, with     *)
(* thousands of settlements a day, holds some live record).                 *)
Publish(recorded) ==
  /\ run.step = "write"
  /\ Walkable /\ Assembled = run.todo
  /\ \E first \in IF FirstLive(Assembled) = {} THEN {None} ELSE FirstLive(Assembled) :
       file' = [file EXCEPT ![run.start] =
                  [known |-> TRUE, recs |-> Assembled, cut |-> run.cut, at |-> IF recorded THEN None ELSE now,
                   frontier |-> IF recorded THEN run.front ELSE None,
                   first |-> IF recorded THEN None ELSE first]]
  /\ recorded \/ (run.mode = "full" /\ FirstLive(Assembled) # {})
  /\ Serve(Assembled)
  /\ UNCHANGED <<world, arch, live, faults>>

(* A request, a walk or a write failed.  An extension then serves the old   *)
(* file, marked stale; a full assembly ends with the error.  Neither hands  *)
(* over a corpus said to be up to date.                                     *)
Fail == run' = Idle /\ lacking' = {}

WalkFails ==
  /\ run.step = "write" \/ (run.step = "live" /\ run.todo = {} /\ run.spool.known)
  /\ ~ Walkable \/ (run.step = "write" /\ Assembled # run.todo)
  /\ Fail
  /\ UNCHANGED <<world, arch, live, file, faults>>

RequestFails ==
  /\ run # Idle
  /\ faults < MaxFaults
  /\ Fail
  /\ faults' = faults + 1
  /\ UNCHANGED <<world, arch, live, file>>

Kill ==
  /\ run # Idle
  /\ faults < MaxFaults
  /\ run' = Idle
  /\ faults' = faults + 1
  /\ UNCHANGED <<world, arch, live, file, lacking>>

(* A stored file is damaged or removed by hand.                             *)
Lose ==
  /\ faults < MaxFaults
  /\ faults' = faults + 1
  /\ \/ \E d \in Days : arch[d].known /\ arch' = [arch EXCEPT ![d] = NoFile]
                        /\ UNCHANGED <<live, file>>
     \/ \E d \in Days : live[d].known /\ live' = [live EXCEPT ![d] = NoFile]
                        /\ UNCHANGED <<arch, file>>
     \/ \E s \in Starts : file[s].known /\ file' = [file EXCEPT ![s] = NoFile]
                          /\ UNCHANGED <<arch, live>>
  /\ UNCHANGED <<world, run, lacking>>

Init ==
  /\ now = 0 /\ cutoff = 0 /\ faults = 0 /\ moves = 0
  /\ settle = [m \in Markets |-> Open]
  /\ arch = [d \in Days |-> NoFile]
  /\ live = [d \in Days |-> NoFile]
  /\ file = [s \in Starts |-> NoFile]
  /\ run = Idle
  /\ lacking = {}

(* The clock may also stop at the bound.                                    *)
AtHorizon == now = Horizon /\ UNCHANGED vars

Next ==
  \/ Tick
  \/ \E m \in Markets : Settle(m)
  \/ \E c \in 1..Horizon : MoveCutoff(c)
  \/ \E s \in Starts, useCache \in BOOLEAN : Begin(s, useCache)
  \/ ReadCutoffToExtend
  \/ ReadCutoff
  \/ \E d \in Days : FetchArchiveDay(d)
  \/ ArchiveRead
  \/ ArchiveInOneWalk
  \/ \E d \in Days : FetchLiveDay(d)
  \/ FetchFrontier
  \/ LiveInOneSweep
  \/ CountAssembled
  \/ \E recorded \in BOOLEAN : Publish(recorded)
  \/ WalkFails
  \/ RequestFails
  \/ Kill
  \/ Lose
  \/ AtHorizon

Spec == Init /\ [][Next]_vars
-----------------------------------------------------------------------------
(* A corpus handed over as up to date holds every market that settled in    *)
(* its window before the day its run began on, whichever endpoint and       *)
(* whichever file each of them came from (fetch_all_settled_markets, "used  *)
(* through the most recent available day").                                 *)
ServedIsComplete == lacking = {}

(* An assembled file that replaces another of the same window holds every   *)
(* market the other held: extending drops a partial day only because the    *)
(* whole day replaces it, and a rebuild reads everything again.             *)
NeverForgets ==
  [][\A s \in Starts : file[s].known /\ file'[s].known => file[s].recs \subseteq file'[s].recs]_vars

(* _frontier_day_start: every market settled before the recorded frontier   *)
(* day is in a complete day file or the archive, so in the assembled file.  *)
CompleteBelowFrontier ==
  \A s \in Starts : file[s].known /\ file[s].frontier # None =>
    SettledBefore(SettledFrom(Settled, s), file[s].frontier) \subseteq file[s].recs
===============================================================================
