---------------------------- MODULE Corpus_proofs ----------------------------
(* Proofs about Corpus: while the archive cutoff stays where it is during a    *)
(* run, what a run hands over as up to date is complete and no rebuilt or      *)
(* extended file forgets a market, for any markets, days, windows and faults.  *)
(* And about PagePublish, a published page keeps the folder it reads; and about *)
(* Pages, what a reader saves is what the page shows.                          *)
EXTENDS Corpus, Pages, SequenceTheorems, TLAPS

LiveFile == [known : BOOLEAN, recs : SUBSET Markets]
ArchFile == {NoFile} \cup [known : {TRUE}, stamp : Nat, recs : SUBSET Markets]
CorpusFile == {NoFile} \cup [known : {TRUE}, recs : SUBSET Markets, cut : Nat,
                             at : Int, frontier : Int, first : Int]

CutoffRun  == [step : {"cutoff"}, mode : {"full", "extend"}, start : Starts, began : Nat]
ArchiveRun == [step : {"archive"}, mode : {"full"}, start : Starts, began : Nat,
               cut : Nat, todo : SUBSET Days]
LiveRun    == [step : {"live", "write"}, mode : {"full", "extend"}, start : Starts,
               began : Nat, cut : Nat, lo : Nat, seqA : LiveFile, front : Nat,
               days : SUBSET Days, todo : (SUBSET Days) \cup (SUBSET Markets),
               spool : LiveFile]

\* The cutoff is in the past, and so is every settlement.
World ==
    /\ now \in 0 .. Horizon /\ cutoff \in 0 .. now
    /\ settle \in [Markets -> -1 .. now]
    /\ \A m \in Settled : Created[m] <= settle[m]

\* A file of the archive holds what it can ever hold under its cutoff.
ArchSound ==
    /\ arch \in [Days -> ArchFile]
    /\ \A d \in Days : arch[d].known =>
          /\ arch[d].stamp <= cutoff
          /\ arch[d].recs = {m \in SettledBefore(Settled, arch[d].stamp) : Created[m] = d}

\* A file of a settled-day is of an elapsed one, and holds what the archive does not.
LiveSound ==
    /\ live \in [Days -> LiveFile]
    /\ \A d \in Days : live[d].known =>
          /\ d + DayTicks <= now
          /\ live[d].recs \subseteq SettledUpTo(SettledFrom(Settled, d), d + DayTicks)
          /\ SettledBefore(SettledFrom(OnLive, d), d + DayTicks) \subseteq live[d].recs

\* An assembled file holds its window up to its frontier, which is in the past.
Whole(s, f) ==
    /\ f.recs \subseteq SettledFrom(Settled, s)
    /\ FrontierOf(f) \in Int /\ FrontierOf(f) <= now
    /\ SettledBefore(SettledFrom(Settled, s), FrontierOf(f)) \subseteq f.recs

FileSound ==
    /\ file \in [Starts -> CorpusFile]
    /\ \A s \in Starts : file[s].known => Whole(s, file[s])

\* What has been read of the live endpoint's last day (or of all of it, in one
\* sweep) lacks nothing before the frontier day, nothing older than what it has,
\* and nothing that the old file has.
SpoolFrom == IF run.days = {} THEN run.lo ELSE run.front

OldRecs == IF file[run.start].known THEN file[run.start].recs ELSE {}

SpoolDue == {n \in Settled : /\ SpoolFrom <= settle[n] /\ run.cut <= settle[n]
                             /\ \/ settle[n] < run.front
                                \/ n \in OldRecs
                                \/ \E m \in run.spool.recs : settle[n] < settle[m]}

SpoolSound == run.spool.known =>
    run.spool.recs \subseteq Settled /\ SpoolDue \subseteq run.spool.recs

\* The lower bound of the live part.
Later(a, b) == IF a > b THEN a ELSE b
LowSound ==
    /\ run.mode = "full" => run.lo = Later(run.cut, run.start)
    /\ run.mode = "extend" /\ file[run.start].known =>
          /\ run.cut <= FrontierOf(file[run.start])
          /\ run.lo = Later(FrontierOf(file[run.start]), run.start)

Bounds ==
    /\ run.cut = cutoff
    /\ run.front \in Days /\ run.front <= now /\ run.began <= run.front
    /\ run.cut < run.front + DayTicks /\ run.lo < run.front + DayTicks
    /\ \/ run.days = {d \in Days : Midnight(run.lo) <= d /\ d < run.front}
       \/ run.days = {} /\ run.spool.known
    /\ run.step = "live" => run.todo \subseteq {d \in Days : d < run.front}
    /\ run.step = "write" => run.spool.known
    /\ run.mode = "full" /\ run.seqA.known
         => run.seqA.recs = SettledBefore(SettledFrom(Settled, run.start), run.cut)

RunSound ==
    \/ run = Idle
    \/ /\ run.start <= now /\ run.began <= Midnight(now)
       /\ \/ run \in CutoffRun
          \/ run \in ArchiveRun /\ run.cut = cutoff
          \/ run \in LiveRun /\ Bounds /\ LowSound /\ SpoolSound

CorpusIInv == World /\ ArchSound /\ LiveSound /\ FileSound /\ RunSound /\ lacking = {}

-----------------------------------------------------------------------------
(* Days.                                                                       *)

\* A moment lies in the day that begins at its midnight.
LEMMA MidnightFacts ==
    ASSUME NEW t \in Nat
    PROVE  /\ Midnight(t) \in Nat /\ Midnight(t) <= t /\ t < Midnight(t) + DayTicks
           /\ Midnight(t) % DayTicks = 0
<1> DEFINE q == t \div DayTicks
           r == t % DayTicks
<1>1. /\ DayTicks \in Nat /\ DayTicks >= 1 /\ q \in Nat /\ r \in Nat
      /\ r < DayTicks /\ t = DayTicks * q + r
  BY DayTicksAssumption
<1>2. Midnight(t) = t - r
  BY DEF Midnight
<1> HIDE DEF q, r
<1>3. Midnight(t) = DayTicks * q
  BY <1>1, <1>2
<1>4. (DayTicks * q) % DayTicks = 0
  BY <1>1
<1> QED BY <1>1, <1>2, <1>3, <1>4

\* Days do not overlap.
LEMMA DayGap ==
    ASSUME NEW a \in Nat, NEW b \in Nat, a % DayTicks = 0, b % DayTicks = 0, a < b
    PROVE  a + DayTicks <= b
<1> DEFINE p == a \div DayTicks
           q == b \div DayTicks
<1>1. DayTicks \in Nat /\ DayTicks >= 1 /\ p \in Nat /\ q \in Nat
  BY DayTicksAssumption
<1>2. a = DayTicks * p /\ b = DayTicks * q
  BY DayTicksAssumption
<1> HIDE DEF p, q
<1>3. q >= p + 1
  <2> SUFFICES ASSUME q <= p PROVE FALSE
    BY <1>1
  <2>1. PICK k \in Nat : p = q + k
    <3>1. p - q \in Nat /\ p = q + (p - q)
      BY <1>1
    <3> QED BY <3>1
  <2>2. DayTicks * p = DayTicks * q + DayTicks * k /\ DayTicks * k \in Nat
    BY <1>1, <2>1
  <2>3. DayTicks * q \in Nat
    BY <1>1
  <2> QED BY <1>2, <2>2, <2>3
<1>4. PICK k \in Nat : q = p + 1 + k
  <2>1. q - (p + 1) \in Nat /\ q = p + 1 + (q - (p + 1))
    BY <1>1, <1>3
  <2> QED BY <2>1
<1>5. DayTicks * q = DayTicks * p + DayTicks + DayTicks * k /\ DayTicks * k \in Nat
  BY <1>1, <1>4
<1>6. DayTicks * p \in Nat
  BY <1>1
<1> QED BY <1>1, <1>2, <1>5, <1>6

\* A day that has begun by a moment is no later than the moment's.
LEMMA DayBegun ==
    ASSUME NEW d \in Nat, d % DayTicks = 0, NEW t \in Nat, d <= t
    PROVE  d <= Midnight(t)
<1>1. /\ Midnight(t) \in Nat /\ t < Midnight(t) + DayTicks
      /\ Midnight(t) % DayTicks = 0 /\ DayTicks \in Nat
  BY MidnightFacts, DayTicksAssumption
<1>2. ASSUME Midnight(t) < d PROVE FALSE
  <2>1. Midnight(t) + DayTicks <= d
    BY <1>1, <1>2, DayGap
  <2> QED BY <1>1, <2>1
<1> QED BY <1>1, <1>2

\* Days come in order, and those up to the horizon are all there.
LEMMA MidnightsInOrder ==
    ASSUME NEW t \in Nat, NEW u \in Nat, t <= u
    PROVE  Midnight(t) <= Midnight(u)
<1>1. Midnight(t) \in Nat /\ Midnight(t) <= t /\ Midnight(t) % DayTicks = 0
  BY MidnightFacts
<1>2. Midnight(t) <= u
  BY <1>1
<1> QED BY <1>1, <1>2, DayBegun

LEMMA MidnightInDays ==
    ASSUME NEW t \in 0 .. Horizon
    PROVE  Midnight(t) \in Days
BY MidnightFacts, HorizonAssumption DEF Days

-----------------------------------------------------------------------------
(* What the invariant says of moments and of sets.                             *)

LEMMA Moments ==
    ASSUME World
    PROVE  /\ now \in Nat /\ cutoff \in Nat /\ cutoff <= now /\ now <= Horizon /\ Horizon \in Nat
           /\ DayTicks \in Nat /\ DayTicks >= 1
           /\ \A m \in Markets : settle[m] \in Int /\ settle[m] <= now
           /\ Settled \subseteq Markets
           /\ \A m \in Settled : settle[m] \in Nat /\ settle[m] \in 0 .. Horizon
           /\ Days \subseteq Nat /\ \A d \in Days : d % DayTicks = 0
           /\ Starts \subseteq Days
<1>1. /\ now \in Nat /\ cutoff \in Nat /\ cutoff <= now /\ now <= Horizon /\ Horizon \in Nat
      /\ DayTicks \in Nat /\ DayTicks >= 1
  BY HorizonAssumption, DayTicksAssumption DEF World
<1>2. \A m \in Markets : settle[m] \in Int /\ settle[m] <= now /\ settle[m] >= -1
  BY <1>1 DEF World
<1>3. Settled \subseteq Markets
  BY DEF Settled
<1>4. \A m \in Settled : settle[m] \in Nat /\ settle[m] \in 0 .. Horizon
  BY <1>1, <1>2 DEF Settled, Open
<1>5. Days \subseteq Nat /\ \A d \in Days : d % DayTicks = 0
  BY <1>1 DEF Days
<1>6. Starts \subseteq Days
  BY StartsAssumption DEF Days
<1> QED BY <1>1, <1>2, <1>3, <1>4, <1>5, <1>6

-----------------------------------------------------------------------------
(* What the invariant says of the files and of the run in progress.            *)

LEMMA ArchStamps ==
    ASSUME ArchSound, NEW d \in Days, arch[d].known
    PROVE  /\ arch[d].stamp \in Nat /\ arch[d].stamp <= cutoff
           /\ arch[d].recs = {m \in SettledBefore(Settled, arch[d].stamp) : Created[m] = d}
<1>1. arch[d] \in ArchFile /\ arch[d] # NoFile
  <2>1. ~ NoFile.known
    BY DEF NoFile
  <2> QED BY <2>1 DEF ArchSound
<1>2. arch[d].stamp \in Nat
  BY <1>1 DEF ArchFile
<1> QED BY <1>2 DEF ArchSound

\* Which kind a run is shows in its step.
LEMMA RunKinds ==
    ASSUME RunSound
    PROVE  /\ run.step \in {"live", "write"} => run \in LiveRun
           /\ run.step = "archive" => run \in ArchiveRun
           /\ run.step = "cutoff" => run \in CutoffRun
           /\ run \in LiveRun => run.step \in {"live", "write"}
           /\ run # Idle => run.step # "idle"
<1>1. run = Idle => run.step = "idle"
  BY DEF Idle
<1>2. run \in CutoffRun => run.step = "cutoff"
  BY DEF CutoffRun
<1>3. run \in ArchiveRun => run.step = "archive"
  BY DEF ArchiveRun
<1>4. run \in LiveRun => run.step \in {"live", "write"}
  BY DEF LiveRun
<1>5. run = Idle \/ run \in CutoffRun \/ run \in ArchiveRun \/ run \in LiveRun
  BY DEF RunSound
<1> QED BY <1>1, <1>2, <1>3, <1>4, <1>5

\* What is known of a run at any step of it.
LEMMA AnyRun ==
    ASSUME World, RunSound, run # Idle
    PROVE  /\ run.start \in Starts /\ run.start \in Days /\ run.start \in Nat
           /\ run.start <= now /\ run.began \in Nat /\ run.began <= Midnight(now)
<1>1. run.start <= now /\ run.began <= Midnight(now)
      /\ (run \in CutoffRun \/ run \in ArchiveRun \/ run \in LiveRun)
  BY DEF RunSound
<1>2. run.start \in Starts /\ run.began \in Nat
  BY <1>1 DEF CutoffRun, ArchiveRun, LiveRun
<1>3. Starts \subseteq Days /\ Days \subseteq Nat
  BY Moments
<1> QED BY <1>1, <1>2, <1>3

\* What is known of a run that reads the live endpoint or assembles.
LEMMA LiveRuns ==
    ASSUME World, RunSound, run \in LiveRun
    PROVE  /\ Bounds /\ LowSound /\ SpoolSound /\ run # Idle
           /\ run.start \in Starts /\ run.start \in Nat /\ run.start <= now
           /\ run.cut \in Nat /\ run.cut = cutoff /\ run.cut <= now
           /\ run.lo \in Nat /\ run.front \in Nat /\ run.front \in Days /\ run.front <= now
           /\ run.days \subseteq Days /\ run.began \in Nat /\ run.began <= Midnight(now)
           /\ run.mode \in {"full", "extend"} /\ run.spool \in LiveFile /\ run.seqA \in LiveFile
<1>1. run.step \in {"live", "write"}
  BY RunKinds
<1>2. run # Idle /\ run \notin CutoffRun /\ run \notin ArchiveRun
  BY <1>1 DEF Idle, CutoffRun, ArchiveRun
<1>3. Bounds /\ LowSound /\ SpoolSound
  BY <1>2 DEF RunSound
<1>4. /\ run.cut \in Nat /\ run.lo \in Nat /\ run.days \subseteq Days
      /\ run.mode \in {"full", "extend"} /\ run.spool \in LiveFile /\ run.seqA \in LiveFile
  BY DEF LiveRun
<1>5. run.cut = cutoff /\ run.front \in Days /\ run.front <= now
  BY <1>3 DEF Bounds
<1>6. cutoff <= now /\ Days \subseteq Nat
  BY Moments
<1> QED BY <1>2, <1>3, <1>4, <1>5, <1>6, AnyRun

-----------------------------------------------------------------------------
(* Kalshi and the clock.                                                       *)

\* An hour later nothing has changed but the time.
LEMMA TickKeeps == ASSUME CorpusIInv, Tick PROVE CorpusIInv'
<1>i. World /\ ArchSound /\ LiveSound /\ FileSound /\ RunSound /\ lacking = {}
  BY DEF CorpusIInv
<1>m. /\ now \in Nat /\ DayTicks \in Nat /\ Days \subseteq Nat /\ Starts \subseteq Days
      /\ Horizon \in Nat /\ cutoff \in Nat /\ cutoff <= now
  BY <1>i, Moments
<1>1. now' = now + 1 /\ now < Horizon
      /\ UNCHANGED <<settle, cutoff, arch, live, file, run, lacking>>
  BY DEF Tick
<1>2. Settled' = Settled /\ OnLive' = OnLive
  BY <1>1 DEF Settled, OnLive
<1>3. World'
  <2>1. now' \in 0 .. Horizon /\ cutoff' \in 0 .. now'
    BY <1>1, <1>m
  <2>2. settle' \in [Markets -> -1 .. now']
    <3>1. -1 .. now \subseteq -1 .. now'
      BY <1>1, <1>m
    <3> QED BY <1>1, <1>i, <3>1 DEF World
  <2> QED BY <1>1, <1>2, <1>i, <2>1, <2>2 DEF World
<1>4. ArchSound'
  BY <1>1, <1>2, <1>i DEF ArchSound, SettledBefore
<1>5. LiveSound'
  <2>1. \A d \in Days : d + DayTicks <= now => d + DayTicks <= now'
    BY <1>1, <1>m
  <2> QED BY <1>1, <1>2, <1>i, <2>1 DEF LiveSound, SettledBefore, SettledFrom, SettledUpTo
<1>6. FileSound'
  <2>1. ASSUME NEW s \in Starts, NEW f, Whole(s, f) PROVE Whole(s, f)'
    <3>1. FrontierOf(f) \in Int /\ FrontierOf(f) <= now' /\ FrontierOf(f)' = FrontierOf(f)
      BY <1>1, <1>m, <2>1 DEF Whole, FrontierOf, Midnight
    <3> QED BY <1>1, <1>2, <2>1, <3>1 DEF Whole, SettledBefore, SettledFrom
  <2> QED BY <1>1, <1>i, <2>1 DEF FileSound
<1>7. RunSound'
  <2>1. ASSUME NEW t \in Nat, t <= now PROVE t <= now'
    BY <1>1, <1>m, <2>1
  <2>2. Midnight(now) <= Midnight(now')
    BY <1>1, <1>m, MidnightsInOrder
  <2>3. CASE run = Idle
    BY <1>1, <2>3 DEF RunSound
  <2>4. CASE run # Idle
    <3>1. /\ run.start <= now /\ run.began <= Midnight(now)
          /\ run.start \in Starts /\ run.began \in Nat
      BY <1>i, <2>4 DEF RunSound, CutoffRun, ArchiveRun, LiveRun
    <3>2. run'.start <= now' /\ run'.began <= Midnight(now')
      <4>0. now' \in Nat
        BY <1>1, <1>m
      <4>1. Midnight(now) \in Nat
        BY <1>m, MidnightFacts
      <4>2. Midnight(now') \in Nat
        BY <4>0, MidnightFacts
      <4>3. run.start \in Nat /\ run.start <= now'
        BY <1>m, <2>1, <3>1
      <4>4. run.began <= Midnight(now')
        BY <2>2, <3>1, <4>1, <4>2
      <4> QED BY <1>1, <4>3, <4>4
    <3>3. Bounds => Bounds'
      <4>1. run.front \in Days /\ run.front <= now => run.front <= now'
        BY <1>m, <2>1
      <4> QED BY <1>1, <1>2, <4>1 DEF Bounds, SettledBefore, SettledFrom, Midnight
    <3>4. LowSound => LowSound'
      BY <1>1 DEF LowSound, FrontierOf, Midnight, Later
    <3>5. SpoolSound => SpoolSound'
      BY <1>1, <1>2 DEF SpoolSound, SpoolDue, SpoolFrom, OldRecs
    <3> QED BY <1>1, <1>i, <2>4, <3>2, <3>3, <3>4, <3>5 DEF RunSound
  <2> QED BY <2>3, <2>4
<1> QED BY <1>1, <1>3, <1>4, <1>5, <1>6, <1>7, <1>i DEF CorpusIInv

\* A market that settles now changes nothing of what settled before a moment
\* that has been.
LEMMA SettleKeeps ==
    ASSUME CorpusIInv, NEW m \in Markets, Settle(m)
    PROVE  CorpusIInv'
<1>i. World /\ ArchSound /\ LiveSound /\ FileSound /\ RunSound /\ lacking = {}
  BY DEF CorpusIInv
<1>m. /\ now \in Nat /\ DayTicks \in Nat /\ Days \subseteq Nat /\ Starts \subseteq Days
      /\ cutoff \in Nat /\ cutoff <= now /\ Settled \subseteq Markets
      /\ \A n \in Settled : settle[n] \in Nat /\ settle[n] <= now
  BY <1>i, Moments
<1>1. /\ settle' = [settle EXCEPT ![m] = now] /\ settle[m] = Open /\ Created[m] <= now
      /\ UNCHANGED <<now, cutoff, arch, live, file, run, lacking>>
  BY DEF Settle
<1>2. settle'[m] = now /\ \A n \in Markets : n # m => settle'[n] = settle[n]
  BY <1>1, <1>i DEF World
<1>3. Settled' = Settled \cup {m} /\ m \notin Settled
  BY <1>1, <1>2, <1>m DEF Settled, Open
<1>4. \A n \in Settled : n \in Settled' /\ settle'[n] = settle[n]
  BY <1>2, <1>3, <1>m
<1>5. \A n \in Settled' : n \in Settled \/ settle'[n] = now
  BY <1>2, <1>3
<1> DEFINE Same(lo, hi) == SettledBefore(SettledFrom(Settled, lo), hi)
<1>6. ASSUME NEW lo \in Int, NEW hi \in Int, hi <= now PROVE Same(lo, hi)' = Same(lo, hi)
  BY <1>4, <1>5, <1>6, <1>m DEF SettledBefore, SettledFrom
<1>7. ASSUME NEW hi \in Int, hi <= now
      PROVE SettledBefore(Settled, hi)' = SettledBefore(Settled, hi)
  BY <1>4, <1>5, <1>7, <1>m DEF SettledBefore
<1>8. World'
  <2>1. settle' \in [Markets -> -1 .. now']
    BY <1>1, <1>i, <1>m DEF World
  <2>2. \A n \in Settled' : Created[n] <= settle'[n]
    BY <1>1, <1>2, <1>3, <1>4, <1>i DEF World
  <2> QED BY <1>1, <1>i, <2>1, <2>2 DEF World
<1>9. ArchSound'
  <2>1. ASSUME NEW d \in Days, arch[d].known
        PROVE  arch[d].recs = {n \in SettledBefore(Settled, arch[d].stamp)' : Created[n] = d}
    <3>1. /\ arch[d].stamp \in Nat /\ arch[d].stamp <= cutoff
          /\ arch[d].recs = {n \in SettledBefore(Settled, arch[d].stamp) : Created[n] = d}
      BY <1>i, <2>1, ArchStamps
    <3>2. SettledBefore(Settled, arch[d].stamp)' = SettledBefore(Settled, arch[d].stamp)
      <4>1. arch[d].stamp \in Int /\ arch[d].stamp <= now
        BY <1>m, <3>1
      <4> QED BY <1>1, <1>7, <4>1
    <3> QED BY <3>1, <3>2
  <2> QED BY <1>1, <1>i, <2>1 DEF ArchSound, SettledBefore
<1>10. LiveSound'
  <2>1. ASSUME NEW d \in Days, live[d].known
        PROVE  /\ live[d].recs \subseteq SettledUpTo(SettledFrom(Settled, d), d + DayTicks)'
               /\ SettledBefore(SettledFrom(OnLive, d), d + DayTicks)' \subseteq live[d].recs
    <3>1. d \in Nat /\ d + DayTicks <= now
      BY <1>i, <1>m, <2>1 DEF LiveSound
    <3>2. SettledUpTo(SettledFrom(Settled, d), d + DayTicks)
            \subseteq SettledUpTo(SettledFrom(Settled, d), d + DayTicks)'
      BY <1>4 DEF SettledUpTo, SettledFrom
    <3>3. SettledBefore(SettledFrom(OnLive, d), d + DayTicks)'
            \subseteq SettledBefore(SettledFrom(OnLive, d), d + DayTicks)
      BY <1>1, <1>4, <1>5, <1>m, <3>1 DEF SettledBefore, SettledFrom, OnLive
    <3> QED BY <1>i, <2>1, <3>2, <3>3 DEF LiveSound
  <2> QED BY <1>1, <1>i, <2>1 DEF LiveSound, SettledUpTo, SettledFrom, SettledBefore
<1>11. FileSound'
  <2>1. ASSUME NEW s \in Starts, file[s].known PROVE Whole(s, file[s])'
    <3>1. Whole(s, file[s]) /\ s \in Nat
      BY <1>i, <1>m, <2>1 DEF FileSound
    <3>2. FrontierOf(file[s])' = FrontierOf(file[s])
      BY <1>1 DEF FrontierOf, Midnight
    <3>3. SettledFrom(Settled, s) \subseteq SettledFrom(Settled, s)'
      BY <1>4 DEF SettledFrom
    <3>4. Same(s, FrontierOf(file[s]))' = Same(s, FrontierOf(file[s]))
      BY <1>6, <3>1, <3>2 DEF Whole
    <3> QED BY <1>1, <3>1, <3>2, <3>3, <3>4 DEF Whole
  <2> QED BY <1>1, <1>i, <2>1 DEF FileSound
<1>12. RunSound'
  <2>1. CASE run \notin LiveRun
    BY <1>1, <1>i, <2>1 DEF RunSound
  <2>2. CASE run \in LiveRun
    <3>1. /\ Bounds /\ LowSound /\ SpoolSound
          /\ run.start \in Nat /\ run.cut \in Nat /\ run.start \in Starts /\ run.start <= now
          /\ run.lo \in Nat /\ run.front \in Nat /\ run.front <= now /\ run.cut <= now
          /\ run.began <= Midnight(now)
      BY <1>i, <2>2, LiveRuns
    <3>2. Bounds'
      <4>1. Same(run.start, run.cut)' = Same(run.start, run.cut)
        BY <1>1, <1>6, <3>1
      <4> QED BY <1>1, <3>1, <4>1 DEF Bounds, Midnight
    <3>3. LowSound'
      BY <1>1, <3>1 DEF LowSound, FrontierOf, Midnight, Later
    <3>4. SpoolSound'
      <4> SUFFICES ASSUME run.spool.known
                   PROVE  run.spool.recs \subseteq Settled' /\ SpoolDue' \subseteq run.spool.recs
        BY <1>1 DEF SpoolSound
      <4>1. run.spool.recs \subseteq Settled /\ SpoolDue \subseteq run.spool.recs
        BY <3>1 DEF SpoolSound
      <4>2. OldRecs \subseteq Settled
        BY <1>i, <3>1 DEF OldRecs, FileSound, Whole, SettledFrom
      <4>3. OldRecs' = OldRecs /\ SpoolFrom' = SpoolFrom
        BY <1>1 DEF OldRecs, SpoolFrom
      <4>4. SpoolDue' \subseteq SpoolDue
        <5> SUFFICES ASSUME NEW n \in SpoolDue' PROVE n \in SpoolDue
          OBVIOUS
        <5>1. /\ n \in Settled' /\ SpoolFrom <= settle'[n] /\ run.cut <= settle'[n]
              /\ \/ settle'[n] < run.front
                 \/ n \in OldRecs
                 \/ \E k \in run.spool.recs : settle'[n] < settle'[k]
          BY <1>1, <4>3 DEF SpoolDue
        <5>2. n \in Settled
          BY <1>3, <1>4, <1>5, <1>m, <3>1, <4>1, <4>2, <5>1
        <5>3. settle'[n] = settle[n] /\ \A k \in run.spool.recs : settle'[k] = settle[k]
          BY <1>4, <4>1, <5>2
        <5> QED BY <5>1, <5>2, <5>3 DEF SpoolDue
      <4> QED BY <1>3, <4>1, <4>4
    <3> QED BY <1>1, <2>2, <3>1, <3>2, <3>3, <3>4 DEF RunSound
  <2> QED BY <2>1, <2>2
<1> QED BY <1>1, <1>8, <1>9, <1>10, <1>11, <1>12, <1>i DEF CorpusIInv

\* Between runs the cutoff moves: markets leave the live endpoint, and what was
\* read under an earlier cutoff stays right for that one.
LEMMA MoveCutoffKeeps ==
    ASSUME CorpusIInv, ~ MovesMidRun, NEW c \in Int, MoveCutoff(c)
    PROVE  CorpusIInv'
<1>i. World /\ ArchSound /\ LiveSound /\ FileSound /\ RunSound /\ lacking = {}
  BY DEF CorpusIInv
<1>m. /\ now \in Nat /\ DayTicks \in Nat /\ cutoff \in Nat /\ cutoff <= now
      /\ \A n \in Settled : settle[n] \in Nat
  BY <1>i, Moments
<1>1. /\ cutoff < c /\ c <= now /\ run = Idle /\ cutoff' = c
      /\ UNCHANGED <<now, settle, arch, live, file, run, lacking>>
  BY DEF MoveCutoff
<1>2. Settled' = Settled /\ OnLive' \subseteq OnLive
  BY <1>1, <1>m DEF Settled, OnLive
<1>3. World'
  BY <1>1, <1>2, <1>i, <1>m DEF World
<1>4. ArchSound'
  <2>1. \A d \in Days : arch[d].known => arch[d].stamp <= c
    <3> SUFFICES ASSUME NEW d \in Days, arch[d].known PROVE arch[d].stamp <= c
      OBVIOUS
    <3>1. arch[d].stamp \in Nat /\ arch[d].stamp <= cutoff
      BY <1>i, ArchStamps
    <3> QED BY <1>1, <1>m, <3>1
  <2> QED BY <1>1, <1>2, <1>i, <2>1 DEF ArchSound, SettledBefore
<1>5. LiveSound'
  BY <1>1, <1>2, <1>i DEF LiveSound, SettledUpTo, SettledFrom, SettledBefore
<1>6. FileSound'
  BY <1>1, <1>2, <1>i DEF FileSound, Whole, FrontierOf, Midnight, SettledFrom, SettledBefore
<1>7. RunSound'
  BY <1>1 DEF RunSound
<1> QED BY <1>1, <1>3, <1>4, <1>5, <1>6, <1>7, <1>i DEF CorpusIInv

-----------------------------------------------------------------------------
(* A run, up to the live endpoint.                                             *)

\* An archive or live file left out is no file.
LEMMA NoFiles == ~ NoFile.known /\ NoFile.recs = {} /\ NoFile \in LiveFile
BY DEF NoFile, LiveFile

\* The frontier day of a run that enters the live phase is the day it is.
LEMMA FrontierDayIsToday ==
    ASSUME World, NEW lo \in Nat, lo <= now
    PROVE  FrontierDay(lo, now) = Midnight(now)
<1>1. now \in Nat
  BY Moments
<1>2. Midnight(lo) \in Nat
  BY MidnightFacts
<1>3. Midnight(now) \in Nat
  BY <1>1, MidnightFacts
<1>4. Midnight(lo) <= Midnight(now)
  BY <1>1, MidnightsInOrder
<1> QED BY <1>2, <1>3, <1>4 DEF FrontierDay

LEMMA PrunedIsSound ==
    ASSUME LiveSound, NEW c \in Int
    PROVE  /\ Pruned(c) \in [Days -> LiveFile]
           /\ \A d \in Days : Pruned(c)[d].known => Pruned(c)[d] = live[d]
<1>1. ASSUME NEW d \in Days PROVE Pruned(c)[d] = NoFile \/ Pruned(c)[d] = live[d]
  BY DEF Pruned
<1>2. ASSUME NEW d \in Days PROVE (IF d + DayTicks <= c THEN NoFile ELSE live[d]) \in LiveFile
  BY NoFiles DEF LiveSound
<1>3. Pruned(c) \in [Days -> LiveFile]
  BY <1>2 DEF Pruned
<1> QED BY <1>1, <1>3, NoFiles

\* The live phase starts with nothing read.
LEMMA EnterLiveKeeps ==
    ASSUME CorpusIInv, run # Idle, NEW lo \in Nat, lo <= now, NEW seq \in LiveFile,
           EnterLive(cutoff, lo, seq), UNCHANGED <<world, arch, file, lacking>>,
           run.mode \in {"full", "extend"},
           run.mode = "full" => lo = Later(cutoff, run.start),
           run.mode = "full" /\ seq.known
             => seq.recs = SettledBefore(SettledFrom(Settled, run.start), cutoff),
           run.mode = "extend" /\ file[run.start].known
             => /\ cutoff <= FrontierOf(file[run.start])
                /\ lo = Later(FrontierOf(file[run.start]), run.start)
    PROVE  CorpusIInv'
<1>i. World /\ ArchSound /\ LiveSound /\ FileSound /\ RunSound /\ lacking = {}
  BY DEF CorpusIInv
<1>m. /\ now \in Nat /\ DayTicks \in Nat /\ Days \subseteq Nat
      /\ cutoff \in Nat /\ cutoff <= now
  BY <1>i, Moments
<1>r. /\ run.start \in Starts /\ run.start <= now
      /\ run.began \in Nat /\ run.began <= Midnight(now)
  BY <1>i, AnyRun
<1>u. UNCHANGED <<now, settle, cutoff, arch, file, lacking>>
  BY DEF world
<1>0. Settled' = Settled /\ OnLive' = OnLive
  BY <1>u DEF Settled, OnLive
<1> DEFINE today == Midnight(now)
<1>1. /\ today \in Nat /\ today <= now /\ now < today + DayTicks
      /\ today \in Days /\ FrontierDay(lo, now) = today
  <2>1. today \in Nat /\ today <= now /\ now < today + DayTicks
    BY <1>m, MidnightFacts
  <2>2. now \in 0 .. Horizon
    BY <1>i DEF World
  <2>3. today \in Days
    BY <2>2, MidnightInDays
  <2> QED BY <1>i, <2>1, <2>3, FrontierDayIsToday
<1>2. /\ live' = Pruned(cutoff)
      /\ run' = [step |-> "live", mode |-> run.mode, start |-> run.start, began |-> run.began,
                 cut |-> cutoff, lo |-> lo, seqA |-> seq, front |-> today,
                 days |-> LiveDays(lo, now),
                 todo |-> {d \in LiveDays(lo, now) : ~ live'[d].known}, spool |-> NoFile]
  BY <1>1 DEF EnterLive
<1> HIDE DEF today
<1>3. LiveDays(lo, now) \subseteq Days
  BY DEF LiveDays
<1>4. World'
  BY <1>u, <1>0, <1>i DEF World
<1>5. ArchSound'
  BY <1>u, <1>0, <1>i DEF ArchSound, SettledBefore
<1>6. LiveSound'
  <2>1. /\ live' \in [Days -> LiveFile]
        /\ \A d \in Days : live'[d].known => live'[d] = live[d]
    BY <1>2, <1>i, <1>m, PrunedIsSound
  <2> QED BY <1>u, <1>0, <1>i, <2>1 DEF LiveSound, SettledBefore, SettledFrom, SettledUpTo
<1>7. FileSound'
  BY <1>u, <1>0, <1>i DEF FileSound, Whole, FrontierOf, Midnight, SettledFrom, SettledBefore
<1>8. run' \in LiveRun
  <2>1. {d \in LiveDays(lo, now) : ~ live'[d].known} \in (SUBSET Days) \cup (SUBSET Markets)
    BY <1>3
  <2> QED BY <1>2, <1>3, <1>1, <1>m, <1>r, <2>1, NoFiles DEF LiveRun
<1>9. /\ run'.start = run.start /\ run'.began = run.began /\ run'.mode = run.mode
      /\ run'.cut = cutoff /\ run'.lo = lo /\ run'.seqA = seq /\ run'.front = today
      /\ run'.days = LiveDays(lo, now) /\ run'.spool = NoFile
      /\ run'.todo \subseteq LiveDays(lo, now) /\ run'.step = "live"
  BY <1>2
<1>10. LiveDays(lo, now) = {d \in Days : Midnight(lo) <= d /\ d < today}
  BY DEF LiveDays, today
<1>11. Bounds'
  <2>1. cutoff < today + DayTicks /\ lo < today + DayTicks
    BY <1>1, <1>m
  <2>2. run.began <= today
    BY <1>r DEF today
  <2>3. run'.mode = "full" /\ run'.seqA.known
          => run'.seqA.recs = SettledBefore(SettledFrom(Settled, run.start), run.cut)'
    <3>1. SettledBefore(SettledFrom(Settled, run.start), run.cut)'
            = SettledBefore(SettledFrom(Settled, run.start), cutoff)
      BY <1>u, <1>9, <1>0 DEF SettledBefore, SettledFrom
    <3> QED BY <1>9, <3>1
  <2>4. run'.days = {d \in Days : Midnight(lo) <= d /\ d < run'.front}
        /\ run'.todo \subseteq {d \in Days : d < run'.front}
    BY <1>9, <1>10
  <2> QED BY <1>u, <1>0, <1>1, <1>9, <2>1, <2>2, <2>3, <2>4
          DEF Bounds, SettledBefore, SettledFrom, Midnight
<1>12. LowSound'
  BY <1>u, <1>9 DEF LowSound, FrontierOf, Midnight, Later
<1>13. SpoolSound'
  BY <1>9, NoFiles DEF SpoolSound
<1>14. run'.start <= now' /\ run'.began <= Midnight(now)'
  BY <1>u, <1>9, <1>r DEF Midnight
<1>15. RunSound'
  BY <1>8, <1>11, <1>12, <1>13, <1>14 DEF RunSound
<1> QED BY <1>u, <1>4, <1>5, <1>6, <1>7, <1>15, <1>i DEF CorpusIInv

\* An old file whose frontier the cutoff has passed is rebuilt, another one is
\* extended from its frontier on.
LEMMA ReadCutoffToExtendKeeps ==
    ASSUME CorpusIInv, ReadCutoffToExtend
    PROVE  CorpusIInv'
<1>i. World /\ ArchSound /\ LiveSound /\ FileSound /\ RunSound /\ lacking = {}
  BY DEF CorpusIInv
<1>m. now \in Nat /\ cutoff \in Nat /\ cutoff <= now
  BY <1>i, Moments
<1>1. run.step = "cutoff" /\ run.mode = "extend" /\ UNCHANGED <<world, arch, file, lacking>>
  BY DEF ReadCutoffToExtend
<1>2. run \in CutoffRun /\ run # Idle
  BY <1>1, <1>i, RunKinds DEF Idle
<1>3. /\ run.start \in Starts /\ run.start \in Nat /\ run.start <= now
      /\ run.began \in Nat /\ run.began <= Midnight(now)
  BY <1>i, <1>2, AnyRun
<1> DEFINE f == file[run.start]
           lo == IF FrontierOf(f) > run.start THEN FrontierOf(f) ELSE run.start
<1>4. CASE run' = [run EXCEPT !.mode = "full"] /\ UNCHANGED live
  <2>1. run' \in CutoffRun /\ run'.start = run.start /\ run'.began = run.began
    BY <1>4, <1>2 DEF CutoffRun
  <2>2. RunSound'
    BY <1>1, <1>3, <2>1 DEF RunSound, world, Midnight
  <2>u. UNCHANGED <<now, settle, cutoff, arch, live, file, lacking>>
    BY <1>1, <1>4 DEF world
  <2>3. Settled' = Settled /\ OnLive' = OnLive
    BY <2>u DEF Settled, OnLive
  <2>4. World' /\ ArchSound'
    BY <2>u, <2>3, <1>i DEF World, ArchSound, SettledBefore
  <2>5. LiveSound'
    BY <2>u, <2>3, <1>i DEF LiveSound, SettledBefore, SettledFrom, SettledUpTo
  <2>6. FileSound'
    BY <2>u, <2>3, <1>i DEF FileSound, Whole, FrontierOf, Midnight, SettledFrom, SettledBefore
  <2> QED BY <2>u, <2>2, <2>4, <2>5, <2>6, <1>i DEF CorpusIInv
<1>5. CASE f.known /\ cutoff <= FrontierOf(f) /\ EnterLive(cutoff, lo, NoFile)
  <2>1. FrontierOf(f) \in Int /\ FrontierOf(f) <= now
    BY <1>3, <1>5, <1>i DEF FileSound, Whole
  <2>2. lo \in Nat /\ lo <= now
    BY <2>1, <1>3, <1>m
  <2>3. lo = Later(FrontierOf(f), run.start)
    BY DEF Later
  <2> HIDE DEF lo
  <2> QED BY <1>1, <1>2, <1>5, <2>2, <2>3, NoFiles, EnterLiveKeeps
<1>6. /\ f.known => FrontierOf(f) \in Int
      /\ cutoff \in Int
  BY <1>3, <1>m, <1>i DEF FileSound, Whole
<1> QED BY <1>4, <1>5, <1>6 DEF ReadCutoffToExtend

\* What stays sound when the world stands still.
LEMMA WorldStays ==
    ASSUME CorpusIInv, UNCHANGED world
    PROVE  /\ World' /\ Settled' = Settled /\ OnLive' = OnLive
           /\ UNCHANGED <<now, settle, cutoff>>
           /\ UNCHANGED arch => ArchSound'
           /\ UNCHANGED live => LiveSound'
           /\ UNCHANGED file => FileSound'
<1>i. World /\ ArchSound /\ LiveSound /\ FileSound
  BY DEF CorpusIInv
<1>u. UNCHANGED <<now, settle, cutoff>>
  BY DEF world
<1>1. Settled' = Settled /\ OnLive' = OnLive
  BY <1>u DEF Settled, OnLive
<1>2. World'
  BY <1>u, <1>1, <1>i DEF World
<1>3. UNCHANGED arch => ArchSound'
  BY <1>u, <1>1, <1>i DEF ArchSound, SettledBefore
<1>4. UNCHANGED live => LiveSound'
  BY <1>u, <1>1, <1>i DEF LiveSound, SettledBefore, SettledFrom, SettledUpTo
<1>5. UNCHANGED file => FileSound'
  BY <1>u, <1>1, <1>i DEF FileSound, Whole, FrontierOf, Midnight, SettledFrom, SettledBefore
<1> QED BY <1>u, <1>1, <1>2, <1>3, <1>4, <1>5

\* A run that begins knows its start and its day; a file served as it is was
\* assembled today, up to today.
LEMMA BeginKeeps ==
    ASSUME CorpusIInv, NEW s \in Starts, NEW useCache \in BOOLEAN, Begin(s, useCache)
    PROVE  CorpusIInv'
<1>i. World /\ FileSound /\ RunSound /\ lacking = {}
  BY DEF CorpusIInv
<1>m. now \in Nat /\ s \in Nat
  BY <1>i, Moments
<1>1. run = Idle /\ s <= now /\ UNCHANGED <<world, arch, live, file>>
  BY <1>m DEF Begin
<1>2. /\ World' /\ ArchSound' /\ LiveSound' /\ FileSound'
      /\ UNCHANGED <<now, settle, cutoff>>
  BY <1>1, WorldStays
<1>3. Midnight(now) \in Nat
  BY <1>m, MidnightFacts
<1> DEFINE f == file[s]
           today == Midnight(now)
           begun == [step |-> "cutoff", mode |-> "full", start |-> s, began |-> today]
<1>4. ASSUME UNCHANGED lacking,
             run' = begun \/ run' = [begun EXCEPT !.mode = "extend"]
      PROVE  CorpusIInv'
  <2>1. run' \in CutoffRun /\ run'.start = s /\ run'.began = today
    BY <1>3, <1>4 DEF CutoffRun
  <2>2. RunSound'
    <3>1. Midnight(now)' = today
      BY <1>2 DEF Midnight
    <3> HIDE DEF today
    <3>2. today \in Nat /\ today <= today
      BY <1>3 DEF today
    <3>3. run'.start <= now' /\ run'.began <= Midnight(now)'
      BY <1>1, <1>2, <2>1, <3>1, <3>2
    <3> QED BY <2>1, <3>3 DEF RunSound
  <2> QED BY <1>2, <1>4, <1>i, <2>2 DEF CorpusIInv
<1>5. ASSUME f.known, TodayAt(f) = today, UNCHANGED run,
             lacking' = IF f.frontier = None THEN {} ELSE Lacks(s, today, f.recs)
      PROVE  CorpusIInv'
  <2>1. f.frontier # None => Lacks(s, today, f.recs) = {}
    <3> SUFFICES ASSUME f.frontier # None PROVE Lacks(s, today, f.recs) = {}
      OBVIOUS
    <3>1. FrontierOf(f) = today
      BY <1>5 DEF FrontierOf, TodayAt
    <3>2. SettledBefore(SettledFrom(Settled, s), today) \subseteq f.recs
      BY <1>5, <1>i, <3>1 DEF FileSound, Whole
    <3> QED BY <3>2 DEF Lacks
  <2>2. lacking' = {}
    BY <1>5, <2>1
  <2>3. RunSound'
    BY <1>1, <1>5 DEF RunSound
  <2> QED BY <1>2, <2>2, <2>3 DEF CorpusIInv
<1> QED BY <1>4, <1>5 DEF Begin

LEMMA ReadCutoffKeeps ==
    ASSUME CorpusIInv, ReadCutoff
    PROVE  CorpusIInv'
<1>i. World /\ RunSound /\ lacking = {}
  BY DEF CorpusIInv
<1>m. cutoff \in Nat
  BY <1>i, Moments
<1>1. run.step = "cutoff" /\ UNCHANGED <<world, arch, live, file, lacking>>
  BY DEF ReadCutoff
<1>2. run # Idle
  BY <1>1 DEF Idle
<1>3. /\ run.start \in Starts /\ run.start <= now
      /\ run.began \in Nat /\ run.began <= Midnight(now)
  BY <1>i, <1>2, AnyRun
<1>4. /\ World' /\ ArchSound' /\ LiveSound' /\ FileSound'
      /\ UNCHANGED <<now, settle, cutoff>>
  BY <1>1, WorldStays
<1>5. run' \in ArchiveRun /\ run'.start = run.start /\ run'.began = run.began /\ run'.cut = cutoff
  BY <1>3, <1>m DEF ReadCutoff, ArchiveRun, ArchiveDays
<1>6. RunSound'
  BY <1>3, <1>4, <1>5 DEF RunSound, Midnight
<1> QED BY <1>1, <1>4, <1>6, <1>i DEF CorpusIInv

\* A day of the archive, read under the cutoff that still stands.
LEMMA FetchArchiveDayKeeps ==
    ASSUME CorpusIInv, NEW d \in Days, FetchArchiveDay(d)
    PROVE  CorpusIInv'
<1>i. World /\ ArchSound /\ RunSound /\ lacking = {}
  BY DEF CorpusIInv
<1>m. cutoff \in Nat /\ Settled \subseteq Markets
  BY <1>i, Moments
<1>1. /\ run.step = "archive" /\ UNCHANGED <<world, live, file, lacking>>
      /\ arch' = [arch EXCEPT ![d] = [known |-> TRUE, stamp |-> run.cut, recs |-> CreatedOn(d)]]
      /\ run' = [run EXCEPT !.todo = @ \ {d}]
  BY DEF FetchArchiveDay
<1>2. run \in ArchiveRun /\ run # Idle
  BY <1>1, <1>i, RunKinds DEF Idle
<1>3. /\ run.start \in Starts /\ run.start <= now
      /\ run.began \in Nat /\ run.began <= Midnight(now)
  BY <1>i, <1>2, AnyRun
<1>4. run.cut = cutoff
  BY <1>1, <1>2, <1>i DEF RunSound, CutoffRun, LiveRun
<1>5. /\ World' /\ LiveSound' /\ FileSound' /\ Settled' = Settled
      /\ UNCHANGED <<now, settle, cutoff>>
  BY <1>1, WorldStays
<1> DEFINE read == [known |-> TRUE, stamp |-> cutoff, recs |-> CreatedOn(d)]
<1>6. read \in ArchFile
  BY <1>m DEF ArchFile, CreatedOn, InArchive
<1>7. read.recs = {m \in SettledBefore(Settled, read.stamp) : Created[m] = d}
  BY DEF CreatedOn, InArchive, SettledBefore
<1>8. ArchSound'
  <2>1. arch' = [arch EXCEPT ![d] = read]
    BY <1>1, <1>4
  <2>2. arch' \in [Days -> ArchFile]
    BY <2>1, <1>6, <1>i DEF ArchSound
  <2>3. arch'[d] = read /\ \A e \in Days : e # d => arch'[e] = arch[e]
    BY <2>1, <1>i DEF ArchSound
  <2>4. read.stamp = cutoff /\ cutoff <= cutoff
    BY <1>m
  <2> HIDE DEF read
  <2>5. SettledBefore(Settled, read.stamp)' = SettledBefore(Settled, read.stamp)'
    OBVIOUS
  <2>6. ASSUME NEW e \in Days, arch'[e].known
        PROVE  /\ arch'[e].stamp <= cutoff
               /\ arch'[e].recs = {m \in SettledBefore(Settled, arch'[e].stamp) : Created[m] = e}
    <3>1. CASE e = d
      BY <3>1, <2>3, <2>4, <1>7
    <3>2. CASE e # d
      BY <3>2, <2>3, <2>6, ArchStamps, <1>i
    <3> QED BY <3>1, <3>2
  <2> QED BY <1>5, <2>2, <2>6 DEF ArchSound, SettledBefore
<1>9. run' \in ArchiveRun /\ run'.start = run.start /\ run'.began = run.began /\ run'.cut = cutoff
  BY <1>1, <1>2, <1>4 DEF ArchiveRun
<1>10. RunSound'
  BY <1>3, <1>5, <1>9 DEF RunSound, Midnight
<1> QED BY <1>1, <1>5, <1>8, <1>10, <1>i DEF CorpusIInv

\* The archive has been read, day by day or in one walk.
LEMMA ArchiveDone ==
    ASSUME CorpusIInv, run.step = "archive", NEW seq \in LiveFile, ToLive(seq),
           UNCHANGED <<world, arch, file, lacking>>,
           seq.known => seq.recs = SettledBefore(SettledFrom(Settled, run.start), cutoff)
    PROVE  CorpusIInv'
<1>i. World /\ RunSound
  BY DEF CorpusIInv
<1>m. now \in Nat /\ cutoff \in Nat /\ cutoff <= now
  BY <1>i, Moments
<1>1. run \in ArchiveRun /\ run # Idle
  BY <1>i, RunKinds DEF Idle
<1>2. run.start \in Nat /\ run.start <= now
  BY <1>i, <1>1, AnyRun
<1>3. run.cut = cutoff /\ run.mode = "full"
  BY <1>1, <1>i DEF RunSound, CutoffRun, ArchiveRun, LiveRun
<1>4. Later(cutoff, run.start) \in Nat /\ Later(cutoff, run.start) <= now
  BY <1>2, <1>m DEF Later
<1>5. EnterLive(cutoff, Later(cutoff, run.start), seq)
  BY <1>3 DEF ToLive, Later
<1> QED BY <1>1, <1>3, <1>4, <1>5, EnterLiveKeeps

LEMMA ArchiveReadKeeps ==
    ASSUME CorpusIInv, ArchiveRead
    PROVE  CorpusIInv'
BY ArchiveDone, NoFiles DEF ArchiveRead

LEMMA ArchiveInOneWalkKeeps ==
    ASSUME CorpusIInv, ArchiveInOneWalk
    PROVE  CorpusIInv'
<1>i. World /\ RunSound
  BY DEF CorpusIInv
<1>m. cutoff \in Nat /\ Settled \subseteq Markets
  BY <1>i, Moments
<1> DEFINE seq == [known |-> TRUE,
                   recs |-> SettledBefore(SettledFrom(InArchive, run.start), run.cut)]
<1>1. run.step = "archive" /\ ToLive(seq) /\ UNCHANGED <<world, arch, file, lacking>>
  BY DEF ArchiveInOneWalk
<1>2. run \in ArchiveRun
  BY <1>1, <1>i, RunKinds
<1>3. run.cut = cutoff
  BY <1>1, <1>2, <1>i DEF RunSound, Idle, CutoffRun, LiveRun
<1>4. seq.recs = SettledBefore(SettledFrom(Settled, run.start), cutoff)
  BY <1>3 DEF SettledBefore, SettledFrom, InArchive
<1>5. seq.recs \subseteq Markets
  BY <1>4, <1>m DEF SettledBefore, SettledFrom
<1>6. seq \in LiveFile
  BY <1>5 DEF LiveFile
<1> HIDE DEF seq
<1> QED BY <1>1, <1>4, <1>6, ArchiveDone

-----------------------------------------------------------------------------
(* A run, on the live endpoint.                                                *)

\* A step that moves on in the list of days keeps the rest of the run.
LEMMA RunGoesOn ==
    ASSUME CorpusIInv, UNCHANGED <<world, file>>, run \in LiveRun, run' \in LiveRun,
           run'.start = run.start, run'.began = run.began, run'.mode = run.mode,
           run'.cut = run.cut, run'.lo = run.lo, run'.seqA = run.seqA,
           run'.front = run.front,
           \/ run'.days = run.days /\ (run.spool.known => run'.spool.known)
           \/ run'.days = {} /\ run'.spool.known,
           run'.step = "live" => run'.todo \subseteq run.todo /\ run.step = "live",
           run'.step = "write" => run'.spool.known,
           SpoolSound'
    PROVE  RunSound'
<1>i. World /\ RunSound
  BY DEF CorpusIInv
<1>1. UNCHANGED <<now, settle, cutoff, file>> /\ Settled' = Settled
  BY WorldStays
<1>2. /\ Bounds /\ LowSound /\ run.start <= now /\ run.began <= Midnight(now)
  BY <1>i, LiveRuns
<1>3. SettledBefore(SettledFrom(Settled, run.start), run.cut)'
        = SettledBefore(SettledFrom(Settled, run.start), run.cut)
  BY <1>1 DEF SettledBefore, SettledFrom
<1>4. \/ run'.days = {d \in Days : Midnight(run.lo) <= d /\ d < run.front}
      \/ run'.days = {} /\ run'.spool.known
  BY <1>2 DEF Bounds
<1>5. run'.step = "live" => run'.todo \subseteq {d \in Days : d < run.front}
  BY <1>2 DEF Bounds
<1>6. Bounds'
  BY <1>1, <1>2, <1>3, <1>4, <1>5 DEF Bounds, Midnight
<1>7. LowSound'
  BY <1>1, <1>2 DEF LowSound, FrontierOf, Midnight, Later
<1>8. run'.start <= now' /\ run'.began <= Midnight(now)'
  BY <1>1, <1>2 DEF Midnight
<1> QED BY <1>6, <1>7, <1>8 DEF RunSound

\* A day file is of a day that has elapsed, with both its bounds.
LEMMA FetchLiveDayKeeps ==
    ASSUME CorpusIInv, NEW d \in Days, FetchLiveDay(d)
    PROVE  CorpusIInv'
<1>i. World /\ LiveSound /\ RunSound /\ lacking = {}
  BY DEF CorpusIInv
<1>m. /\ now \in Nat /\ DayTicks \in Nat /\ cutoff \in Nat /\ Settled \subseteq Markets
      /\ d \in Nat /\ d % DayTicks = 0 /\ \A e \in Days : e \in Nat /\ e % DayTicks = 0
      /\ \A n \in Settled : settle[n] \in Nat
  BY <1>i, Moments
<1>1. /\ run.step = "live" /\ d \in run.todo /\ UNCHANGED <<world, arch, file, lacking>>
      /\ live' = [live EXCEPT ![d] = [known |-> TRUE, recs |-> LiveWindow(d)]]
      /\ run' = [run EXCEPT !.todo = @ \ {d}]
  BY DEF FetchLiveDay
<1>2. run \in LiveRun
  BY <1>1, <1>i, RunKinds
<1>3. /\ Bounds /\ SpoolSound /\ run.front \in Nat /\ run.front \in Days /\ run.front <= now
  BY <1>2, <1>i, LiveRuns
<1>4. d + DayTicks <= now
  <2>1. d < run.front
    BY <1>1, <1>3 DEF Bounds
  <2>2. d + DayTicks <= run.front
    BY <1>3, <1>m, <2>1, DayGap
  <2> QED BY <1>3, <1>m, <2>2
<1>5. /\ World' /\ ArchSound' /\ FileSound' /\ Settled' = Settled /\ OnLive' = OnLive
      /\ UNCHANGED <<now, settle, cutoff>>
  BY <1>1, WorldStays
<1> DEFINE read == [known |-> TRUE, recs |-> LiveWindow(d)]
<1>6. LiveWindow(d) \subseteq SettledUpTo(SettledFrom(Settled, d), d + DayTicks)
  BY DEF LiveWindow, SettledUpTo, SettledFrom, OnLive
<1>7. SettledBefore(SettledFrom(OnLive, d), d + DayTicks) \subseteq LiveWindow(d)
  BY <1>m DEF LiveWindow, SettledUpTo, SettledFrom, SettledBefore, OnLive
<1>8. read \in LiveFile
  BY <1>6, <1>m DEF LiveFile, SettledUpTo, SettledFrom
<1>9. read.known /\ read.recs = LiveWindow(d) /\ live' = [live EXCEPT ![d] = read]
  BY <1>1
<1> HIDE DEF read
<1>10. LiveSound'
  <2>1. live' \in [Days -> LiveFile]
    BY <1>8, <1>9, <1>i DEF LiveSound
  <2>2. live'[d] = read /\ \A e \in Days : e # d => live'[e] = live[e]
    BY <1>9, <1>i DEF LiveSound
  <2>3. ASSUME NEW e \in Days, live'[e].known
        PROVE  /\ e + DayTicks <= now
               /\ live'[e].recs \subseteq SettledUpTo(SettledFrom(Settled, e), e + DayTicks)
               /\ SettledBefore(SettledFrom(OnLive, e), e + DayTicks) \subseteq live'[e].recs
    <3>1. CASE e = d
      BY <3>1, <2>2, <1>4, <1>6, <1>7, <1>9
    <3>2. CASE e # d
      BY <3>2, <2>2, <2>3, <1>i DEF LiveSound
    <3> QED BY <3>1, <3>2
  <2> QED BY <1>5, <2>1, <2>3 DEF LiveSound, SettledUpTo, SettledFrom, SettledBefore
<1>11. /\ run' \in LiveRun /\ run'.todo \subseteq run.todo /\ run'.step = "live"
       /\ run'.start = run.start /\ run'.began = run.began /\ run'.mode = run.mode
       /\ run'.cut = run.cut /\ run'.lo = run.lo /\ run'.seqA = run.seqA
       /\ run'.front = run.front /\ run'.days = run.days /\ run'.spool = run.spool
  BY <1>1, <1>2 DEF LiveRun
<1>12. SpoolSound'
  BY <1>1, <1>3, <1>5, <1>11 DEF SpoolSound, SpoolDue, SpoolFrom, OldRecs
<1>13. RunSound'
  BY <1>1, <1>2, <1>11, <1>12, RunGoesOn
<1> QED BY <1>1, <1>5, <1>10, <1>13, <1>i DEF CorpusIInv

\* What the live endpoint answers from a moment on.
LEMMA LiveReads ==
    ASSUME World, NEW lo \in Nat
    PROVE  /\ SettledFrom(OnLive, lo) \subseteq Settled
           /\ [known |-> TRUE, recs |-> SettledFrom(OnLive, lo)] \in LiveFile
<1>1. SettledFrom(OnLive, lo) \subseteq Settled /\ Settled \subseteq Markets
  BY Moments DEF SettledFrom, OnLive
<1> QED BY <1>1 DEF LiveFile

\* The frontier day, read to the present.
LEMMA FetchFrontierKeeps ==
    ASSUME CorpusIInv, FetchFrontier
    PROVE  CorpusIInv'
<1>i. World /\ RunSound /\ lacking = {}
  BY DEF CorpusIInv
<1>1. /\ run.step = "live" /\ ~ run.spool.known /\ UNCHANGED <<world, arch, live, file, lacking>>
      /\ run' = [run EXCEPT !.spool = [known |-> TRUE, recs |-> SettledFrom(OnLive, run.front)]]
  BY DEF FetchFrontier
<1>2. run \in LiveRun
  BY <1>1, <1>i, RunKinds
<1>3. /\ Bounds /\ run.lo \in Nat /\ run.front \in Nat /\ run.front \in Days
      /\ run.front <= now /\ run.cut = cutoff
  BY <1>2, <1>i, LiveRuns
<1>4. /\ World' /\ ArchSound' /\ LiveSound' /\ FileSound' /\ Settled' = Settled
      /\ UNCHANGED <<now, settle, cutoff>>
  BY <1>1, WorldStays
<1> DEFINE read == SettledFrom(OnLive, run.front)
<1>5. read \subseteq Settled /\ [known |-> TRUE, recs |-> read] \in LiveFile
  BY <1>3, <1>i, LiveReads
<1>6. \A n \in Settled : run.front <= settle[n] /\ run.cut <= settle[n] => n \in read
  <2>1. \A n \in Settled : settle[n] \in Nat
    BY <1>i, Moments
  <2> QED BY <1>3, <2>1 DEF SettledFrom, OnLive
<1> HIDE DEF read
<1>7. /\ run' \in LiveRun /\ run'.todo = run.todo /\ run'.step = run.step
      /\ run'.start = run.start /\ run'.began = run.began /\ run'.mode = run.mode
      /\ run'.cut = run.cut /\ run'.lo = run.lo /\ run'.seqA = run.seqA
      /\ run'.front = run.front /\ run'.days = run.days
      /\ run'.spool = [known |-> TRUE, recs |-> read]
  <2>1. run' = [run EXCEPT !.spool = [known |-> TRUE, recs |-> read]]
    BY <1>1 DEF read
  <2> QED BY <1>2, <1>5, <2>1 DEF LiveRun
<1>8. \A n \in Settled : SpoolFrom <= settle[n] => run.front <= settle[n]
  <2> SUFFICES ASSUME NEW n \in Settled, SpoolFrom <= settle[n], settle[n] < run.front
               PROVE  FALSE
    <3>1. \A n \in Settled : settle[n] \in Nat
      BY <1>i, Moments
    <3> QED BY <1>3, <3>1
  <2>1. settle[n] \in Nat /\ settle[n] \in 0 .. Horizon
    BY <1>i, Moments
  <2>2. run.days = {} /\ run.lo <= settle[n]
    BY <1>3, <2>1 DEF SpoolFrom
  <2>3. {e \in Days : Midnight(run.lo) <= e /\ e < run.front} = {}
    BY <1>1, <1>3, <2>2 DEF Bounds
  <2>4. Midnight(settle[n]) \in Days /\ Midnight(settle[n]) \in Nat
        /\ Midnight(settle[n]) <= settle[n]
    BY <2>1, MidnightInDays, MidnightFacts
  <2>5. Midnight(run.lo) <= Midnight(settle[n])
    BY <1>3, <2>1, <2>2, MidnightsInOrder
  <2>6. Midnight(settle[n]) < run.front
    BY <1>3, <2>1, <2>4
  <2> QED BY <2>3, <2>4, <2>5, <2>6
<1>9. SpoolSound'
  <2>1. SpoolDue' \subseteq read
    <3> SUFFICES ASSUME NEW n \in SpoolDue' PROVE n \in read
      OBVIOUS
    <3>1. n \in Settled /\ SpoolFrom <= settle[n] /\ run.cut <= settle[n]
      BY <1>4, <1>7 DEF SpoolDue, SpoolFrom
    <3> QED BY <1>6, <1>8, <3>1
  <2> QED BY <1>4, <1>5, <1>7, <2>1 DEF SpoolSound
<1>10. RunSound'
  <2>1. run'.spool.known
    BY <1>7
  <2> QED BY <1>1, <1>2, <1>7, <1>9, <2>1, RunGoesOn
<1> QED BY <1>1, <1>4, <1>10, <1>i DEF CorpusIInv

\* One sweep in place of the days.
LEMMA LiveInOneSweepKeeps ==
    ASSUME CorpusIInv, LiveInOneSweep
    PROVE  CorpusIInv'
<1>i. World /\ RunSound /\ lacking = {}
  BY DEF CorpusIInv
<1> DEFINE read == SettledFrom(OnLive, run.lo)
<1>1. /\ run.step = "live" /\ UNCHANGED <<world, arch, live, file, lacking>>
      /\ run' = [run EXCEPT !.spool = [known |-> TRUE, recs |-> read], !.days = {}, !.todo = {}]
  BY DEF LiveInOneSweep
<1>2. run \in LiveRun
  BY <1>1, <1>i, RunKinds
<1>3. run.lo \in Nat /\ run.cut = cutoff
  BY <1>2, <1>i, LiveRuns
<1>4. /\ World' /\ ArchSound' /\ LiveSound' /\ FileSound' /\ Settled' = Settled
      /\ UNCHANGED <<now, settle, cutoff>>
  BY <1>1, WorldStays
<1>5. read \subseteq Settled /\ [known |-> TRUE, recs |-> read] \in LiveFile
  BY <1>3, <1>i, LiveReads
<1>6. \A n \in Settled : run.lo <= settle[n] /\ run.cut <= settle[n] => n \in read
  <2>1. \A n \in Settled : settle[n] \in Nat
    BY <1>i, Moments
  <2> QED BY <1>3, <2>1 DEF SettledFrom, OnLive
<1> HIDE DEF read
<1>7. /\ run' \in LiveRun /\ run'.todo = {} /\ run'.step = run.step
      /\ run'.start = run.start /\ run'.began = run.began /\ run'.mode = run.mode
      /\ run'.cut = run.cut /\ run'.lo = run.lo /\ run'.seqA = run.seqA
      /\ run'.front = run.front /\ run'.days = {}
      /\ run'.spool = [known |-> TRUE, recs |-> read]
  BY <1>1, <1>2, <1>5 DEF LiveRun
<1>8. SpoolSound'
  <2>1. SpoolDue' \subseteq read
    <3> SUFFICES ASSUME NEW n \in SpoolDue' PROVE n \in read
      OBVIOUS
    <3>1. n \in Settled /\ run.lo <= settle[n] /\ run.cut <= settle[n]
      BY <1>4, <1>7 DEF SpoolDue, SpoolFrom
    <3> QED BY <1>6, <3>1
  <2> QED BY <1>4, <1>5, <1>7, <2>1 DEF SpoolSound
<1>9. RunSound'
  <2>1. run'.days = {} /\ run'.spool.known /\ run'.todo \subseteq run.todo /\ run.step = "live"
    BY <1>1, <1>7
  <2> QED BY <1>1, <1>2, <1>7, <1>8, <2>1, RunGoesOn
<1> QED BY <1>1, <1>4, <1>9, <1>i DEF CorpusIInv

-----------------------------------------------------------------------------
(* A run, assembling.                                                          *)

\* The assembly invents nothing.
LEMMA AssembledSettled ==
    ASSUME CorpusIInv, run \in LiveRun, run.spool.known, Walkable
    PROVE  Assembled \subseteq SettledFrom(Settled, run.start)
<1>i. World /\ ArchSound /\ LiveSound /\ FileSound /\ RunSound
  BY DEF CorpusIInv
<1>1. /\ SpoolSound /\ Bounds /\ run.start \in Starts /\ run.days \subseteq Days
      /\ run.mode \in {"full", "extend"}
  BY <1>i, LiveRuns
<1>2. FromLive \subseteq SettledFrom(Settled, run.start)
  <2>1. run.spool.recs \subseteq Settled
    BY <1>1 DEF SpoolSound
  <2>2. \A d \in run.days : live[d].recs \subseteq Settled
    BY <1>1, <1>i DEF LiveSound, Walkable, SettledUpTo, SettledFrom
  <2> QED BY <2>1, <2>2 DEF FromLive, SettledFrom
<1>3. CASE run.mode = "extend"
  <2>1. file[run.start].recs \subseteq SettledFrom(Settled, run.start)
    BY <1>1, <1>3, <1>i DEF Walkable, FileSound, Whole
  <2>2. KeptFromOld \subseteq SettledFrom(Settled, run.start)
    BY <2>1 DEF KeptFromOld, SettledUpTo
  <2> QED BY <1>2, <1>3, <2>2 DEF Assembled
<1>4. CASE run.mode = "full"
  <2>1. FromArchive \subseteq SettledFrom(Settled, run.start)
    <3>1. CASE run.start >= run.cut
      BY <3>1 DEF FromArchive
    <3>2. CASE ~ (run.start >= run.cut) /\ run.seqA.known
      <4>1. run.seqA.recs \subseteq Settled
        BY <1>1, <1>4, <3>2 DEF Bounds, SettledBefore, SettledFrom
      <4> QED BY <3>2, <4>1 DEF FromArchive, SettledBefore, SettledFrom
    <3>3. CASE ~ (run.start >= run.cut) /\ ~ run.seqA.known
      <4>1. run.start < run.cut
        BY <3>3, <1>i, LiveRuns
      <4>2. \A d \in ArchiveDays(run.cut) : d \in Days /\ arch[d].known
        BY <1>4, <3>3, <4>1 DEF Walkable, Stamped, ArchiveDays
      <4>3. \A d \in ArchiveDays(run.cut) : arch[d].recs \subseteq Settled
        BY <4>2, <1>i DEF ArchSound, SettledBefore
      <4> QED BY <3>3, <4>3 DEF FromArchive, SettledBefore, SettledFrom
    <3> QED BY <3>1, <3>2, <3>3
  <2> QED BY <1>2, <1>4, <2>1 DEF Assembled
<1> QED BY <1>1, <1>3, <1>4

\* What settled on the live endpoint's part of the window is in a day file or
\* in what was read last.
LEMMA FromLiveHas ==
    ASSUME CorpusIInv, run \in LiveRun, run.spool.known, Walkable, NEW n \in Settled,
           run.start <= settle[n], run.cut <= settle[n], run.lo <= settle[n],
           \/ settle[n] < run.front
           \/ n \in OldRecs
           \/ \E m \in run.spool.recs : settle[n] < settle[m]
    PROVE  n \in FromLive
<1>i. World /\ LiveSound /\ RunSound
  BY DEF CorpusIInv
<1>1. /\ Bounds /\ SpoolSound /\ run.cut = cutoff /\ run.lo \in Nat /\ run.front \in Nat
  BY <1>i, LiveRuns
<1>m. settle[n] \in Nat /\ settle[n] \in 0 .. Horizon /\ DayTicks \in Nat /\ Days \subseteq Nat
  BY <1>i, Moments
<1>2. CASE SpoolFrom <= settle[n]
  <2>1. n \in run.spool.recs
    BY <1>1, <1>2 DEF SpoolSound, SpoolDue
  <2> QED BY <2>1, <1>m DEF FromLive, SettledFrom
<1>3. CASE ~ (SpoolFrom <= settle[n])
  <2> DEFINE d == Midnight(settle[n])
  <2>1. /\ d \in Days /\ d \in Nat /\ d <= settle[n] /\ settle[n] < d + DayTicks
    BY <1>m, MidnightInDays, MidnightFacts
  <2>2. Midnight(run.lo) <= d
    BY <1>1, <1>m, MidnightsInOrder
  <2> HIDE DEF d
  <2>3. run.days # {} /\ settle[n] < run.front
    BY <1>1, <1>3, <1>m DEF SpoolFrom
  <2>4. d < run.front
    BY <1>1, <1>m, <2>1, <2>3
  <2>5. d \in run.days
    BY <1>1, <2>1, <2>2, <2>3, <2>4 DEF Bounds
  <2>6. n \in SettledBefore(SettledFrom(OnLive, d), d + DayTicks)
    BY <1>1, <1>m, <2>1 DEF SettledBefore, SettledFrom, OnLive
  <2>7. n \in live[d].recs
    BY <1>i, <2>1, <2>5, <2>6 DEF LiveSound, Walkable
  <2> QED BY <1>m, <2>5, <2>7 DEF FromLive, SettledFrom
<1> QED BY <1>2, <1>3

\* What settled before the cutoff is in the archive's day files or its one walk.
LEMMA FromArchiveHas ==
    ASSUME CorpusIInv, run \in LiveRun, run.mode = "full", Walkable, NEW n \in Settled,
           run.start <= settle[n], settle[n] < run.cut
    PROVE  n \in FromArchive
<1>i. World /\ ArchSound /\ RunSound
  BY DEF CorpusIInv
<1>1. Bounds /\ run.start \in Nat /\ run.cut \in Nat
  BY <1>i, LiveRuns
<1>m. settle[n] \in Nat /\ settle[n] \in 0 .. Horizon /\ n \in Markets /\ Days \subseteq Nat
  BY <1>i, Moments
<1>2. run.start < run.cut /\ ~ (run.start >= run.cut)
  BY <1>1, <1>m
<1>3. CASE run.seqA.known
  <2>1. n \in run.seqA.recs
    BY <1>1, <1>3, <1>m DEF Bounds, SettledBefore, SettledFrom
  <2> QED BY <1>2, <1>3, <1>m, <2>1 DEF FromArchive, SettledBefore, SettledFrom
<1>4. CASE ~ run.seqA.known
  <2> DEFINE d == Created[n]
  <2>1. d \in Days
    BY <1>m, CreatedAssumption DEF Days
  <2>2. d <= settle[n]
    BY <1>i DEF World
  <2> HIDE DEF d
  <2>3. d \in ArchiveDays(run.cut)
    BY <1>1, <1>m, <2>1, <2>2 DEF ArchiveDays
  <2>4. arch[d].known /\ arch[d].stamp = run.cut
    BY <1>2, <1>4, <2>3 DEF Walkable, Stamped
  <2>5. n \in arch[d].recs
    BY <1>i, <2>1, <2>4, ArchStamps DEF SettledBefore, d
  <2> QED BY <1>2, <1>4, <1>m, <2>3, <2>5 DEF FromArchive, SettledBefore, SettledFrom
<1> QED BY <1>3, <1>4

\* Whatever settled in the window before the frontier day, whatever the old file
\* holds and whatever is older than something the last reading holds is assembled.
LEMMA AssembledHas ==
    ASSUME CorpusIInv, run \in LiveRun, run.spool.known, Walkable, NEW n \in Settled,
           run.start <= settle[n],
           \/ settle[n] < run.front
           \/ n \in OldRecs
           \/ \E m \in run.spool.recs : settle[n] < settle[m]
    PROVE  n \in Assembled
<1>i. World /\ FileSound /\ RunSound
  BY DEF CorpusIInv
<1>1. /\ LowSound /\ run.start \in Nat /\ run.start \in Starts /\ run.cut \in Nat
      /\ run.lo \in Nat /\ run.mode \in {"full", "extend"}
  BY <1>i, LiveRuns
<1>m. settle[n] \in Nat
  BY <1>i, Moments
<1>2. run.cut <= settle[n] /\ run.lo <= settle[n] => n \in Assembled
  BY FromLiveHas DEF Assembled
<1>3. CASE run.mode = "full"
  <2>1. run.lo = Later(run.cut, run.start)
    BY <1>1, <1>3 DEF LowSound
  <2>2. run.cut <= settle[n] => run.lo <= settle[n]
    BY <2>1 DEF Later
  <2>3. CASE settle[n] < run.cut
    <3>1. n \in FromArchive
      BY <1>3, <2>3, FromArchiveHas
    <3> QED BY <1>3, <3>1 DEF Assembled
  <2> QED BY <1>1, <1>2, <1>m, <2>2, <2>3
<1>4. CASE run.mode = "extend"
  <2> DEFINE F == FrontierOf(file[run.start])
  <2>1. file[run.start].known /\ Whole(run.start, file[run.start])
    BY <1>1, <1>4, <1>i DEF Walkable, FileSound
  <2>2. /\ run.cut <= F /\ run.lo = Later(F, run.start) /\ F \in Int
        /\ SettledBefore(SettledFrom(Settled, run.start), F) \subseteq file[run.start].recs
    BY <1>1, <1>4, <2>1 DEF LowSound, Whole
  <2> HIDE DEF F
  <2>3. CASE run.lo <= settle[n]
    <3>1. run.cut <= settle[n]
      BY <1>1, <1>m, <2>2, <2>3 DEF Later
    <3> QED BY <1>2, <2>3, <3>1
  <2>4. CASE ~ (run.lo <= settle[n])
    <3>1. settle[n] < F /\ settle[n] <= run.lo
      BY <1>1, <1>m, <2>2, <2>4 DEF Later
    <3>2. n \in file[run.start].recs
      BY <2>2, <3>1, <1>1, <1>m DEF SettledBefore, SettledFrom
    <3>3. n \in KeptFromOld
      BY <3>1, <3>2 DEF KeptFromOld, SettledUpTo
    <3> QED BY <1>4, <3>3 DEF Assembled
  <2> QED BY <2>3, <2>4
<1> QED BY <1>1, <1>3, <1>4

\* The first walk.
LEMMA CountAssembledKeeps ==
    ASSUME CorpusIInv, CountAssembled
    PROVE  CorpusIInv'
<1>i. World /\ RunSound /\ lacking = {}
  BY DEF CorpusIInv
<1>1. /\ run.step = "live" /\ run.spool.known /\ Walkable
      /\ UNCHANGED <<world, arch, live, file, lacking>>
      /\ run' = [run EXCEPT !.step = "write", !.todo = Assembled]
  BY DEF CountAssembled
<1>2. run \in LiveRun
  BY <1>1, <1>i, RunKinds
<1>3. Assembled \subseteq Markets
  <2>1. Assembled \subseteq SettledFrom(Settled, run.start) /\ Settled \subseteq Markets
    BY <1>1, <1>2, <1>i, AssembledSettled, Moments
  <2> QED BY <2>1 DEF SettledFrom
<1>4. /\ run' \in LiveRun /\ run'.step = "write"
      /\ run'.start = run.start /\ run'.began = run.began /\ run'.mode = run.mode
      /\ run'.cut = run.cut /\ run'.lo = run.lo /\ run'.seqA = run.seqA
      /\ run'.front = run.front /\ run'.days = run.days /\ run'.spool = run.spool
  BY <1>1, <1>2, <1>3 DEF LiveRun
<1>5. /\ World' /\ ArchSound' /\ LiveSound' /\ FileSound' /\ Settled' = Settled
      /\ UNCHANGED <<now, settle, cutoff>>
  BY <1>1, WorldStays
<1>6. SpoolSound
  BY <1>2, <1>i, LiveRuns
<1>7. SpoolSound'
  BY <1>1, <1>4, <1>5, <1>6 DEF SpoolSound, SpoolDue, SpoolFrom, OldRecs
<1>8. RunSound'
  BY <1>1, <1>2, <1>4, <1>7, RunGoesOn
<1> QED BY <1>1, <1>5, <1>8, <1>i DEF CorpusIInv

\* The frontier day taken from a file that records none is no later than the
\* day it was assembled on or the day of its newest live record.
LEMMA LegacyFrontier ==
    ASSUME NEW f, NEW at \in Nat, NEW first \in Nat, f.frontier = None, f.at = at, f.first = first
    PROVE  /\ FrontierOf(f) \in Int
           /\ FrontierOf(f) <= Midnight(first) /\ FrontierOf(f) <= at
<1>1. Midnight(at) \in Nat /\ Midnight(at) <= at
  BY MidnightFacts
<1>2. Midnight(first) \in Nat
  BY MidnightFacts
<1>3. DayTicks \in Nat
  BY DayTicksAssumption
<1>4. FrontierOf(f) = IF Midnight(first) < Midnight(at) - DayTicks
                      THEN Midnight(first) ELSE Midnight(at) - DayTicks
  BY DEF FrontierOf, None
<1> QED BY <1>1, <1>2, <1>3, <1>4

\* A record of a full assembly that is a day past the frontier day or more was
\* in the last reading.
LEMMA NewestIsFromSpool ==
    ASSUME CorpusIInv, run \in LiveRun, run.mode = "full", Walkable,
           NEW m \in Assembled, m \in Settled, run.front + DayTicks <= settle[m]
    PROVE  m \in run.spool.recs
<1>i. World /\ LiveSound /\ RunSound
  BY DEF CorpusIInv
<1>1. /\ Bounds /\ run.cut \in Nat /\ run.front \in Nat /\ run.front \in Days /\ run.days \subseteq Days
  BY <1>i, LiveRuns
<1>m. /\ settle[m] \in Nat /\ DayTicks \in Nat /\ DayTicks >= 1
      /\ Days \subseteq Nat /\ \A d \in Days : d % DayTicks = 0
  BY <1>i, Moments
<1>2. m \notin FromArchive
  <2>1. m \in FromArchive => settle[m] < run.cut
    BY DEF FromArchive, SettledBefore
  <2>2. run.cut < run.front + DayTicks
    BY <1>1 DEF Bounds
  <2> QED BY <1>1, <1>m, <2>1, <2>2
<1>3. ASSUME NEW d \in run.days PROVE m \notin live[d].recs
  <2>1. d \in Nat /\ d % DayTicks = 0 /\ run.front % DayTicks = 0
    BY <1>1, <1>m, <1>3
  <2>2. d < run.front
    BY <1>1, <1>3 DEF Bounds
  <2>3. d + DayTicks <= run.front
    BY <1>1, <2>1, <2>2, DayGap
  <2>4. m \in live[d].recs => settle[m] <= d + DayTicks
    BY <1>1, <1>3, <1>i DEF LiveSound, Walkable, SettledUpTo
  <2> QED BY <1>1, <1>m, <2>1, <2>3, <2>4
<1>4. m \in FromLive
  BY <1>2 DEF Assembled
<1> QED BY <1>3, <1>4 DEF FromLive, SettledFrom

\* The frontier day of the published file.
LEMMA PublishedWhole ==
    ASSUME CorpusIInv, run \in LiveRun, run.spool.known, Walkable,
           NEW f, f.recs = Assembled,
           \/ f.frontier = run.front
           \/ /\ run.mode = "full" /\ f.frontier = None /\ f.at = now
              /\ \E m \in Assembled : f.first = settle[m]
    PROVE  Whole(run.start, f)
<1>i. World /\ RunSound
  BY DEF CorpusIInv
<1>1. /\ Bounds /\ run.front \in Nat /\ run.front \in Days /\ run.front <= now
      /\ run.start \in Nat
  BY <1>i, LiveRuns
<1>m. /\ now \in Nat /\ DayTicks \in Nat
      /\ \A n \in Settled : settle[n] \in Nat
      /\ Days \subseteq Nat /\ \A d \in Days : d % DayTicks = 0
  BY <1>i, Moments
<1>2. Assembled \subseteq SettledFrom(Settled, run.start)
  BY <1>i, AssembledSettled
<1>3. CASE f.frontier = run.front
  <2>1. FrontierOf(f) = run.front
    BY <1>1, <1>3 DEF FrontierOf, None
  <2>2. SettledBefore(SettledFrom(Settled, run.start), run.front) \subseteq Assembled
    <3> SUFFICES ASSUME NEW n \in SettledBefore(SettledFrom(Settled, run.start), run.front)
                 PROVE  n \in Assembled
      OBVIOUS
    <3>1. n \in Settled /\ run.start <= settle[n] /\ settle[n] < run.front
      BY <1>1, <1>m DEF SettledBefore, SettledFrom
    <3> QED BY <3>1, AssembledHas
  <2> QED BY <1>1, <1>2, <2>1, <2>2 DEF Whole
<1>4. CASE /\ run.mode = "full" /\ f.frontier = None /\ f.at = now
           /\ \E m \in Assembled : f.first = settle[m]
  <2>1. PICK m \in Assembled : f.first = settle[m]
    BY <1>4
  <2>2. m \in Settled /\ settle[m] \in Nat
    BY <1>2, <1>m DEF SettledFrom
  <2> DEFINE F == FrontierOf(f)
             mday == Midnight(settle[m])
  <2>3. F \in Int /\ F <= mday /\ F <= now
    BY <1>4, <1>m, <2>1, <2>2, LegacyFrontier
  <2>4. mday \in Nat /\ mday <= settle[m] /\ mday % DayTicks = 0
    BY <2>2, MidnightFacts
  <2> HIDE DEF F, mday
  <2>5. SettledBefore(SettledFrom(Settled, run.start), F) \subseteq Assembled
    <3> SUFFICES ASSUME NEW n \in SettledBefore(SettledFrom(Settled, run.start), F)
                 PROVE  n \in Assembled
      OBVIOUS
    <3>1. n \in Settled /\ settle[n] \in Nat /\ run.start <= settle[n] /\ settle[n] < F
      BY <1>1, <1>m DEF SettledBefore, SettledFrom
    <3>2. CASE settle[n] < run.front
      BY <3>1, <3>2, AssembledHas
    <3>3. CASE ~ (settle[n] < run.front)
      <4>1. run.front < mday /\ run.front % DayTicks = 0
        BY <1>1, <1>m, <2>3, <2>4, <3>1, <3>3
      <4>2. run.front + DayTicks <= mday
        BY <1>1, <2>4, <4>1, DayGap
      <4>3. run.front + DayTicks <= settle[m]
        BY <1>1, <1>m, <2>2, <2>4, <4>2
      <4>4. m \in run.spool.recs
        BY <1>4, <2>2, <4>3, NewestIsFromSpool
      <4>5. settle[n] < settle[m]
        BY <2>2, <2>3, <2>4, <3>1
      <4> QED BY <3>1, <4>4, <4>5, AssembledHas
    <3> QED BY <3>2, <3>3
  <2> QED BY <1>2, <2>3, <2>5 DEF Whole, F
<1> QED BY <1>3, <1>4

\* What a publishing step writes.
LEMMA Published ==
    ASSUME CorpusIInv, NEW recorded \in BOOLEAN, Publish(recorded)
    PROVE  /\ run \in LiveRun /\ run.spool.known /\ Walkable
           /\ run' = Idle /\ lacking' = Lacks(run.start, run.began, Assembled)
           /\ UNCHANGED <<world, arch, live>>
           /\ \E f \in CorpusFile :
                 /\ file' = [file EXCEPT ![run.start] = f]
                 /\ f.recs = Assembled
                 /\ \/ f.frontier = run.front
                    \/ /\ run.mode = "full" /\ f.frontier = None /\ f.at = now
                       /\ \E m \in Assembled : f.first = settle[m]
<1>i. World /\ RunSound
  BY DEF CorpusIInv
<1>1. /\ run.step = "write" /\ Walkable /\ run' = Idle
      /\ lacking' = Lacks(run.start, run.began, Assembled)
      /\ UNCHANGED <<world, arch, live>>
  BY DEF Publish, Serve
<1>2. run \in LiveRun
  BY <1>1, <1>i, RunKinds
<1>3. /\ run.spool.known /\ run.cut \in Nat /\ run.front \in Nat
  BY <1>1, <1>2, <1>i, LiveRuns DEF Bounds
<1>4. /\ Assembled \subseteq SettledFrom(Settled, run.start) /\ Settled \subseteq Markets
      /\ now \in Nat /\ \A n \in Settled : settle[n] \in Nat
  BY <1>1, <1>2, <1>3, <1>i, AssembledSettled, Moments
<1>5. Assembled \subseteq Markets /\ \A m \in Assembled : settle[m] \in Int
  BY <1>4 DEF SettledFrom
<1>6. PICK first \in IF FirstLive(Assembled) = {} THEN {None} ELSE FirstLive(Assembled) :
        file' = [file EXCEPT ![run.start] =
                  [known |-> TRUE, recs |-> Assembled, cut |-> run.cut, at |-> IF recorded THEN None ELSE now,
                   frontier |-> IF recorded THEN run.front ELSE None,
                   first |-> IF recorded THEN None ELSE first]]
  BY DEF Publish
<1>7. (FirstLive(Assembled) = {} /\ first = None) \/ \E m \in Assembled : first = settle[m]
  BY <1>6 DEF FirstLive, SettledFrom
<1>8. first \in Int
  BY <1>5, <1>7 DEF None
<1> DEFINE f == [known |-> TRUE, recs |-> Assembled, cut |-> run.cut, at |-> IF recorded THEN None ELSE now,
                 frontier |-> IF recorded THEN run.front ELSE None,
                 first |-> IF recorded THEN None ELSE first]
<1>9. f \in CorpusFile
  BY <1>3, <1>4, <1>5, <1>8 DEF CorpusFile, None
<1>10. recorded \/ (run.mode = "full" /\ FirstLive(Assembled) # {})
  BY DEF Publish
<1>11. \/ f.frontier = run.front
       \/ /\ run.mode = "full" /\ f.frontier = None /\ f.at = now
          /\ \E m \in Assembled : f.first = settle[m]
  BY <1>7, <1>10
<1> QED BY <1>1, <1>2, <1>3, <1>6, <1>9, <1>11

LEMMA PublishKeeps ==
    ASSUME CorpusIInv, NEW recorded \in BOOLEAN, Publish(recorded)
    PROVE  CorpusIInv'
<1>i. World /\ FileSound /\ RunSound
  BY DEF CorpusIInv
<1>1. /\ run \in LiveRun /\ run.spool.known /\ Walkable
      /\ run' = Idle /\ lacking' = Lacks(run.start, run.began, Assembled)
      /\ UNCHANGED <<world, arch, live>>
  BY Published
<1>2. PICK f \in CorpusFile :
        /\ file' = [file EXCEPT ![run.start] = f]
        /\ f.recs = Assembled
        /\ \/ f.frontier = run.front
           \/ /\ run.mode = "full" /\ f.frontier = None /\ f.at = now
              /\ \E m \in Assembled : f.first = settle[m]
  BY Published
<1>3. /\ Bounds /\ run.start \in Starts /\ run.start \in Nat /\ run.front \in Nat /\ run.began \in Nat
  BY <1>1, <1>i, LiveRuns
<1>4. /\ World' /\ ArchSound' /\ LiveSound' /\ Settled' = Settled
      /\ UNCHANGED <<now, settle, cutoff>>
  BY <1>1, WorldStays
<1>5. Whole(run.start, f)
  BY <1>1, <1>2, PublishedWhole
<1>6. FileSound'
  <2>1. file' \in [Starts -> CorpusFile]
    BY <1>2, <1>i DEF FileSound
  <2>2. file'[run.start] = f /\ \A s \in Starts : s # run.start => file'[s] = file[s]
    BY <1>2, <1>3, <1>i DEF FileSound
  <2>3. \A s \in Starts : file'[s].known => Whole(s, file'[s])
    BY <1>5, <1>i, <2>2 DEF FileSound
  <2> QED BY <1>4, <2>1, <2>3 DEF FileSound, Whole, FrontierOf, Midnight, SettledFrom, SettledBefore
<1>7. lacking' = {}
  <2> SUFFICES ASSUME NEW n \in Lacks(run.start, run.began, Assembled) PROVE FALSE
    BY <1>1
  <2>1. n \in Settled /\ settle[n] \in Nat /\ n \notin Assembled
        /\ settle[n] >= run.start /\ settle[n] < run.began
    BY <1>i, Moments DEF Lacks, SettledBefore, SettledFrom
  <2>2. run.start <= settle[n] /\ settle[n] < run.front
    BY <1>3, <2>1 DEF Bounds
  <2> QED BY <1>1, <2>1, <2>2, AssembledHas
<1>8. RunSound'
  BY <1>1 DEF RunSound
<1> QED BY <1>4, <1>6, <1>7, <1>8 DEF CorpusIInv

-----------------------------------------------------------------------------
(* Failures, kills and lost files.                                             *)

\* A run that ends before it has published leaves the files as they are.
LEMMA RunEnds ==
    ASSUME CorpusIInv, UNCHANGED <<world, arch, live, file>>, run' = Idle,
           lacking' = {} \/ UNCHANGED lacking
    PROVE  CorpusIInv'
<1>1. World' /\ ArchSound' /\ LiveSound' /\ FileSound'
  BY WorldStays
<1>2. RunSound' /\ lacking' = {}
  BY DEF RunSound, CorpusIInv
<1> QED BY <1>1, <1>2 DEF CorpusIInv

\* A lost file is known no more; a run only meets that when it walks.
LEMMA LoseKeeps ==
    ASSUME CorpusIInv, Lose
    PROVE  CorpusIInv'
<1>i. World /\ ArchSound /\ LiveSound /\ FileSound /\ RunSound /\ lacking = {}
  BY DEF CorpusIInv
<1>1. UNCHANGED world /\ UNCHANGED <<run, lacking>>
  BY DEF Lose
<1>2. /\ World' /\ Settled' = Settled /\ OnLive' = OnLive
      /\ UNCHANGED <<now, settle, cutoff>>
      /\ UNCHANGED arch => ArchSound'
      /\ UNCHANGED live => LiveSound'
      /\ UNCHANGED file => FileSound'
  BY <1>1, WorldStays
<1>3. ASSUME NEW d \in Days, arch' = [arch EXCEPT ![d] = NoFile] PROVE ArchSound'
  <2>1. arch' \in [Days -> ArchFile]
    BY <1>3, <1>i DEF ArchSound, ArchFile
  <2>2. \A e \in Days : arch'[e].known => arch'[e] = arch[e]
    BY <1>3, <1>i, NoFiles DEF ArchSound
  <2> QED BY <1>2, <1>i, <2>1, <2>2 DEF ArchSound, SettledBefore
<1>4. ASSUME NEW d \in Days, live' = [live EXCEPT ![d] = NoFile] PROVE LiveSound'
  <2>1. live' \in [Days -> LiveFile]
    BY <1>4, <1>i, NoFiles DEF LiveSound
  <2>2. \A e \in Days : live'[e].known => live'[e] = live[e]
    BY <1>4, <1>i, NoFiles DEF LiveSound
  <2> QED BY <1>2, <1>i, <2>1, <2>2 DEF LiveSound, SettledBefore, SettledFrom, SettledUpTo
<1>5. ASSUME NEW s \in Starts, file' = [file EXCEPT ![s] = NoFile]
      PROVE  FileSound' /\ \A t \in Starts : file'[t].known => file'[t] = file[t]
  <2>1. file' \in [Starts -> CorpusFile]
    BY <1>5, <1>i DEF FileSound, CorpusFile
  <2>2. \A t \in Starts : file'[t].known => file'[t] = file[t]
    BY <1>5, <1>i, NoFiles DEF FileSound
  <2> QED BY <1>2, <1>i, <2>1, <2>2
          DEF FileSound, Whole, FrontierOf, Midnight, SettledFrom, SettledBefore
<1>6. /\ ArchSound' /\ LiveSound' /\ FileSound'
      /\ \A t \in Starts : file'[t].known => file'[t] = file[t]
  BY <1>2, <1>3, <1>4, <1>5 DEF Lose
<1>7. RunSound'
  <2>1. CASE run \notin LiveRun
    BY <1>1, <1>2, <1>i, <2>1 DEF RunSound, Midnight
  <2>2. CASE run \in LiveRun
    <3>1. /\ Bounds /\ LowSound /\ SpoolSound /\ run.start \in Starts
          /\ run.start <= now /\ run.began <= Midnight(now)
      BY <1>i, <2>2, LiveRuns
    <3>2. Bounds'
      BY <1>1, <1>2, <3>1 DEF Bounds, Midnight, SettledBefore, SettledFrom
    <3>3. LowSound'
      BY <1>1, <1>6, <3>1 DEF LowSound, FrontierOf, Midnight, Later
    <3>4. OldRecs' \subseteq OldRecs /\ SpoolFrom' = SpoolFrom
      BY <1>1, <1>6, <3>1 DEF OldRecs, SpoolFrom
    <3>5. SpoolDue' \subseteq SpoolDue
      BY <1>1, <1>2, <3>4 DEF SpoolDue
    <3>6. SpoolSound'
      BY <1>1, <1>2, <3>1, <3>5 DEF SpoolSound
    <3> QED BY <1>1, <1>2, <2>2, <3>1, <3>2, <3>3, <3>6 DEF RunSound, Midnight
  <2> QED BY <2>1, <2>2
<1> QED BY <1>1, <1>2, <1>6, <1>7, <1>i DEF CorpusIInv

-----------------------------------------------------------------------------
(* The theorems.                                                               *)

LEMMA InitSound == Init => CorpusIInv
<1> SUFFICES ASSUME Init PROVE CorpusIInv
  OBVIOUS
<1>1. /\ now = 0 /\ cutoff = 0 /\ settle = [m \in Markets |-> Open]
      /\ arch = [d \in Days |-> NoFile] /\ live = [d \in Days |-> NoFile]
      /\ file = [s \in Starts |-> NoFile] /\ run = Idle /\ lacking = {}
  BY DEF Init
<1>2. World
  <2>1. Settled = {}
    BY <1>1 DEF Settled
  <2>2. Open \in -1 .. now
    BY <1>1 DEF Open
  <2> QED BY <1>1, <2>1, <2>2, HorizonAssumption DEF World
<1>3. ArchSound /\ LiveSound /\ FileSound
  BY <1>1, NoFiles DEF ArchSound, LiveSound, FileSound, ArchFile, CorpusFile
<1>4. RunSound
  BY <1>1 DEF RunSound
<1> QED BY <1>1, <1>2, <1>3, <1>4 DEF CorpusIInv

LEMMA StutterKeeps ==
    ASSUME CorpusIInv, UNCHANGED vars
    PROVE  CorpusIInv'
<1>u. UNCHANGED <<now, settle, cutoff, arch, live, file, run, lacking>> /\ UNCHANGED world
  BY DEF vars, world
<1>1. World' /\ ArchSound' /\ LiveSound' /\ FileSound' /\ Settled' = Settled
  BY <1>u, WorldStays
<1>2. RunSound
  BY DEF CorpusIInv
<1>3. RunSound'
  <2>1. Bounds => Bounds'
    BY <1>u, <1>1 DEF Bounds, Midnight, SettledBefore, SettledFrom
  <2>2. LowSound => LowSound'
    BY <1>u DEF LowSound, FrontierOf, Midnight, Later
  <2>3. SpoolSound => SpoolSound'
    BY <1>u, <1>1 DEF SpoolSound, SpoolDue, SpoolFrom, OldRecs
  <2> QED BY <1>u, <1>2, <2>1, <2>2, <2>3 DEF RunSound, Midnight
<1> QED BY <1>u, <1>1, <1>3 DEF CorpusIInv

LEMMA NextKeeps ==
    ASSUME ~ MovesMidRun, CorpusIInv, [Next]_vars
    PROVE  CorpusIInv'
<1>1. CASE Tick
  BY <1>1, TickKeeps
<1>2. ASSUME NEW m \in Markets, Settle(m) PROVE CorpusIInv'
  BY <1>2, SettleKeeps
<1>3. ASSUME NEW c \in 1 .. Horizon, MoveCutoff(c) PROVE CorpusIInv'
  BY <1>3, MoveCutoffKeeps
<1>4. ASSUME NEW s \in Starts, NEW useCache \in BOOLEAN, Begin(s, useCache) PROVE CorpusIInv'
  BY <1>4, BeginKeeps
<1>5. CASE ReadCutoffToExtend
  BY <1>5, ReadCutoffToExtendKeeps
<1>6. CASE ReadCutoff
  BY <1>6, ReadCutoffKeeps
<1>7. ASSUME NEW d \in Days, FetchArchiveDay(d) PROVE CorpusIInv'
  BY <1>7, FetchArchiveDayKeeps
<1>8. CASE ArchiveRead
  BY <1>8, ArchiveReadKeeps
<1>9. CASE ArchiveInOneWalk
  BY <1>9, ArchiveInOneWalkKeeps
<1>10. ASSUME NEW d \in Days, FetchLiveDay(d) PROVE CorpusIInv'
  BY <1>10, FetchLiveDayKeeps
<1>11. CASE FetchFrontier
  BY <1>11, FetchFrontierKeeps
<1>12. CASE LiveInOneSweep
  BY <1>12, LiveInOneSweepKeeps
<1>13. CASE CountAssembled
  BY <1>13, CountAssembledKeeps
<1>14. ASSUME NEW recorded \in BOOLEAN, Publish(recorded) PROVE CorpusIInv'
  BY <1>14, PublishKeeps
<1>15. CASE WalkFails \/ RequestFails \/ Kill
  <2>1. /\ UNCHANGED <<world, arch, live, file>> /\ run' = Idle
        /\ lacking' = {} \/ UNCHANGED lacking
    BY <1>15 DEF WalkFails, RequestFails, Kill, Fail
  <2> QED BY <2>1, RunEnds
<1>16. CASE Lose
  BY <1>16, LoseKeeps
<1>17. CASE AtHorizon \/ UNCHANGED vars
  BY <1>17, StutterKeeps DEF AtHorizon
<1> QED BY <1>1, <1>2, <1>3, <1>4, <1>5, <1>6, <1>7, <1>8, <1>9, <1>10, <1>11, <1>12,
           <1>13, <1>14, <1>15, <1>16, <1>17 DEF Next

THEOREM CorpusInvariant ==
    ASSUME ~ MovesMidRun
    PROVE  Spec => []CorpusIInv
<1>1. Init => CorpusIInv
  BY InitSound
<1>2. CorpusIInv /\ [Next]_vars => CorpusIInv'
  BY NextKeeps
<1> QED BY <1>1, <1>2, PTL DEF Spec

\* While the archive cutoff stays where it is during a run, a corpus handed over
\* as up to date holds every market that settled in its window before the day
\* the run began on: for any markets, day length, windows, kills, failed
\* requests and lost files (ServedIsComplete, fetch_all_settled_markets).
THEOREM WhatIsServedIsComplete ==
    ASSUME ~ MovesMidRun
    PROVE  Spec => []ServedIsComplete
<1>1. CorpusIInv => ServedIsComplete
  BY DEF CorpusIInv, ServedIsComplete
<1> QED BY <1>1, CorpusInvariant, PTL

\* And so is the file it leaves behind, up to the frontier day it records
\* (CompleteBelowFrontier, _frontier_day_start).
THEOREM FilesAreComplete ==
    ASSUME ~ MovesMidRun
    PROVE  Spec => []CompleteBelowFrontier
<1>1. CorpusIInv => CompleteBelowFrontier
  BY DEF CorpusIInv, FileSound, Whole, FrontierOf, CompleteBelowFrontier
<1> QED BY <1>1, CorpusInvariant, PTL

\* A file that replaces another keeps its markets.
LEMMA NextForgetsNothing ==
    ASSUME CorpusIInv, [Next]_vars, NEW s \in Starts, file[s].known, file'[s].known
    PROVE  file[s].recs \subseteq file'[s].recs
<1>i. World /\ FileSound /\ RunSound
  BY DEF CorpusIInv
<1>1. ASSUME NEW recorded \in BOOLEAN, Publish(recorded)
      PROVE  file[s].recs \subseteq file'[s].recs
  <2>1. run \in LiveRun /\ run.spool.known /\ Walkable
    BY <1>1, Published
  <2>2. PICK f \in CorpusFile : file' = [file EXCEPT ![run.start] = f] /\ f.recs = Assembled
    BY <1>1, Published
  <2>3. CASE s = run.start
    <3>1. file'[s].recs = Assembled
      BY <2>2, <2>3, <1>i DEF FileSound
    <3>2. OldRecs = file[s].recs
      BY <2>3 DEF OldRecs
    <3>3. file[s].recs \subseteq SettledFrom(Settled, s)
      BY <1>i DEF FileSound, Whole
    <3>4. ASSUME NEW n \in file[s].recs PROVE n \in Assembled
      <4>1. n \in Settled /\ settle[n] \in Nat /\ s \in Nat /\ settle[n] >= s
        BY <1>i, <3>3, <3>4, Moments DEF SettledFrom
      <4>2. run.start <= settle[n]
        BY <2>3, <4>1
      <4> QED BY <2>1, <3>2, <3>4, <4>1, <4>2, AssembledHas
    <3> QED BY <3>1, <3>4
  <2>4. CASE s # run.start
    BY <2>2, <2>4, <1>i DEF FileSound
  <2> QED BY <2>3, <2>4
<1>2. ASSUME NEW t \in Starts, file' = [file EXCEPT ![t] = NoFile]
      PROVE  file[s].recs \subseteq file'[s].recs
  BY <1>2, <1>i, NoFiles DEF FileSound
<1>3. CASE Lose
  BY <1>2, <1>3 DEF Lose
<1>4. \/ UNCHANGED file \/ Lose
      \/ \E recorded \in BOOLEAN : Publish(recorded)
  BY DEF Next, Tick, Settle, MoveCutoff, Begin, ReadCutoffToExtend, ReadCutoff, FetchArchiveDay,
         ArchiveRead, ArchiveInOneWalk, FetchLiveDay, FetchFrontier, LiveInOneSweep,
         CountAssembled, WalkFails, RequestFails, Kill, AtHorizon, vars
<1> QED BY <1>1, <1>3, <1>4

\* While the archive cutoff stays where it is during a run, an assembled file
\* that replaces another of the same window holds every market the other held
\* (NeverForgets, _assemble_corpus and the extension of _try_incremental).
THEOREM NothingIsForgotten ==
    ASSUME ~ MovesMidRun
    PROVE  Spec => NeverForgets
<1>1. CorpusIInv /\ [Next]_vars =>
        [\A s \in Starts : file[s].known /\ file'[s].known
                             => file[s].recs \subseteq file'[s].recs]_vars
  BY NextForgetsNothing
<1> QED BY <1>1, CorpusInvariant, PTL DEF Spec, NeverForgets
-----------------------------------------------------------------------------
(***************************************************************************)
(* The page a backtest publishes.  It shares no file with the corpus; the   *)
(* theorem is about PagePublish, instantiated here over state of its own,   *)
(* for any number of builds.                                                *)
(***************************************************************************)
CONSTANTS NoBuild, Builds
VARIABLES page, folders, lock, stage, mine

P == INSTANCE PagePublish WITH None <- NoBuild

Marks == [mark : BOOLEAN, old : BOOLEAN]
OwnPart == [folder : BOOLEAN, todo : SUBSET Builds]

\* NoBuild is neither a build nor what a folder holds.
NoneIsApart == NoBuild \notin Builds /\ NoBuild \notin Marks

AtWork == {"start", "writing", "locked", "cleaning", "unmark"}
Placed == {"cleaning", "unmark", "done", "killed"}

Typed ==
    /\ page \in [build : Builds \cup {NoBuild}, folder : Builds \cup {NoBuild}, locked : BOOLEAN]
    /\ folders \in [Builds -> Marks \cup {NoBuild}]
    /\ lock \in Builds \cup {NoBuild}
    /\ stage \in [Builds -> AtWork \cup {"done", "failed", "killed"}]
    /\ mine \in [Builds -> OwnPart]

\* One build publishes under the lock at a time.
UnderLock == \A b \in Builds : stage[b] \in {"locked", "cleaning"} => lock = b

\* The folder of a build at work is marked as such: no other build deletes it.
Guarded ==
    \A b \in Builds : stage[b] \in {"writing", "locked"} /\ mine[b].folder
                          => folders[b] = [mark |-> TRUE, old |-> FALSE]

\* A build that has not begun has no folder.
Unbegun == \A b \in Builds : stage[b] = "start" => ~mine[b].folder

\* The page is of a build that put it in place: none that fails later.
PagePlaced == page.folder # NoBuild => stage[page.folder] \in Placed

\* The build that deletes folders spares its own, and the page, unless it was
\* replaced without the lock, is still the one it put in place.
SparesItsOwn ==
    \A b \in Builds : stage[b] = "cleaning" =>
        /\ b \notin mine[b].todo
        /\ page.locked /\ page.folder # NoBuild => page.folder = b

\* The page under the lock can be read.
PageKept == page.locked /\ page.folder # NoBuild => folders[page.folder] # NoBuild

PublishInv ==
    /\ Typed /\ UnderLock /\ Unbegun /\ Guarded
    /\ PagePlaced /\ SparesItsOwn /\ PageKept

-----------------------------------------------------------------------------
\* Nothing is built, and no page is there.
LEMMA PublishInit == NoneIsApart /\ P!Init => PublishInv
BY DEF NoneIsApart, P!Init, PublishInv, Typed, UnderLock, Unbegun, Guarded, PagePlaced,
       SparesItsOwn, PageKept, AtWork, OwnPart

\* What a build that has made or deleted its folder, or has looked at some,
\* knows then.
LEMMA OwnFacts ==
    ASSUME Typed, NEW b \in Builds, NEW made \in BOOLEAN, NEW left \in SUBSET Builds
    PROVE  /\ [mine EXCEPT ![b].folder = made] \in [Builds -> OwnPart]
           /\ \A x \in Builds :
                 /\ [mine EXCEPT ![b].folder = made][x].folder
                         <=> IF x = b THEN made ELSE mine[x].folder
                 /\ [mine EXCEPT ![b].folder = made][x].todo = mine[x].todo
           /\ [mine EXCEPT ![b].todo = left] \in [Builds -> OwnPart]
           /\ \A x \in Builds :
                 /\ [mine EXCEPT ![b].todo = left][x].folder <=> mine[x].folder
                 /\ [mine EXCEPT ![b].todo = left][x].todo
                         = IF x = b THEN left ELSE mine[x].todo
<1>1. mine \in [Builds -> OwnPart] /\ mine[b] \in OwnPart
  BY DEF Typed, OwnPart
<1> DEFINE f == [mine[b] EXCEPT !.folder = made]
           t == [mine[b] EXCEPT !.todo = left]
<1>2. f \in OwnPart /\ f.folder = made /\ f.todo = mine[b].todo
  BY <1>1 DEF OwnPart
<1>3. t \in OwnPart /\ t.folder = mine[b].folder /\ t.todo = left
  BY <1>1 DEF OwnPart
<1>4. /\ [mine EXCEPT ![b].folder = made] = [mine EXCEPT ![b] = f]
      /\ [mine EXCEPT ![b].todo = left] = [mine EXCEPT ![b] = t]
  OBVIOUS
<1> HIDE DEF f, t
<1>5. /\ [mine EXCEPT ![b] = f] \in [Builds -> OwnPart]
      /\ \A x \in Builds : [mine EXCEPT ![b] = f][x] = IF x = b THEN f ELSE mine[x]
  BY <1>1, <1>2
<1>6. /\ [mine EXCEPT ![b] = t] \in [Builds -> OwnPart]
      /\ \A x \in Builds : [mine EXCEPT ![b] = t][x] = IF x = b THEN t ELSE mine[x]
  BY <1>1, <1>3
<1> QED BY <1>2, <1>3, <1>4, <1>5, <1>6

\* The folder of a build at work is one, and stays one when its mark is taken
\* away or gets old.
LEMMA MarkedFolder ==
    /\ [mark |-> TRUE, old |-> FALSE] \in Marks
    /\ \A f \in Marks : /\ [f EXCEPT !.mark = FALSE] \in Marks
                        /\ [f EXCEPT !.old = TRUE] \in Marks
BY DEF Marks

\* Every step keeps the types.
LEMMA TypedStep ==
    ASSUME NoneIsApart, Typed, P!Next PROVE Typed'
<1> USE DEF Typed, AtWork, P!Set
<1>1. ASSUME NEW b \in Builds, P!NewFolder(b) PROVE Typed'
  <2>1. mine' \in [Builds -> OwnPart]
    BY <1>1, OwnFacts DEF P!NewFolder
  <2>2. folders' \in [Builds -> Marks \cup {NoBuild}]
    BY <1>1 DEF P!NewFolder, Marks
  <2>3. stage' \in [Builds -> AtWork \cup {"done", "failed", "killed"}]
    BY <1>1 DEF P!NewFolder
  <2> QED BY <1>1, <2>1, <2>2, <2>3 DEF P!NewFolder
<1>2. ASSUME NEW b \in Builds, P!NoFolder(b) PROVE Typed'
  BY <1>2 DEF P!NoFolder
<1>3. ASSUME NEW b \in Builds, P!BuildFails(b) PROVE Typed'
  BY <1>3 DEF P!BuildFails, P!Deleted
<1>4. ASSUME NEW b \in Builds, P!NothingToLoad(b) PROVE Typed'
  <2>1. mine' \in [Builds -> OwnPart]
    BY <1>4, OwnFacts DEF P!NothingToLoad
  <2> QED BY <1>4, <2>1 DEF P!NothingToLoad, P!Deleted
<1>5. ASSUME NEW b \in Builds, P!TakeLock(b) PROVE Typed'
  BY <1>5 DEF P!TakeLock
<1>6. ASSUME NEW b \in Builds,
             P!PlainRename(b) \/ P!RenameWithoutLock(b) \/ P!Rename(b)
      PROVE  Typed'
  <2>1. mine' \in [Builds -> OwnPart]
    <3>1. P!There \ {b} \in SUBSET Builds
      BY DEF P!There
    <3>2. [mine EXCEPT ![b].todo = P!There \ {b}] \in [Builds -> OwnPart]
      BY <3>1, OwnFacts
    <3>3. mine' = mine \/ mine' = [mine EXCEPT ![b].todo = P!There \ {b}]
      BY <1>6 DEF P!PlainRename, P!RenameWithoutLock, P!Rename
    <3> QED BY <3>2, <3>3
  <2>2. page' \in [build : Builds \cup {NoBuild}, folder : Builds \cup {NoBuild}, locked : BOOLEAN]
    <3>1. PICK held \in BOOLEAN : P!InPlace(b, held)
      BY <1>6 DEF P!PlainRename, P!RenameWithoutLock, P!Rename
    <3>2. P!FolderOf(b) \in Builds \cup {NoBuild}
      BY DEF P!FolderOf
    <3> HIDE DEF Typed
    <3> QED BY <3>1, <3>2 DEF P!InPlace
  <2> QED BY <1>6, <2>1, <2>2 DEF P!PlainRename, P!RenameWithoutLock, P!Rename
<1>7. ASSUME NEW b \in Builds, P!RenameRaises(b) PROVE Typed'
  BY <1>7 DEF P!RenameRaises, P!Deleted
<1>8. ASSUME NEW b \in Builds, NEW c \in Builds, P!LookAt(b, c) PROVE Typed'
  <2>1. mine' \in [Builds -> OwnPart]
    <3> DEFINE left == mine[b].todo \ {c}
    <3>1. left \in SUBSET Builds
      BY DEF OwnPart
    <3>2. mine' = [mine EXCEPT ![b].todo = left]
      BY <1>8 DEF P!LookAt
    <3> HIDE DEF left
    <3>3. [mine EXCEPT ![b].todo = left] \in [Builds -> OwnPart]
      BY <3>1, OwnFacts
    <3> QED BY <3>2, <3>3
  <2> QED BY <1>8, <2>1 DEF P!LookAt, P!Deleted
<1>9. ASSUME NEW b \in Builds, P!Cleaned(b) \/ P!Killed(b) PROVE Typed'
  BY <1>9 DEF P!Cleaned, P!Killed
<1>10. ASSUME NEW b \in Builds, P!Unmark(b) PROVE Typed'
  <2>1. P!Unmarked(b) \in [Builds -> Marks \cup {NoBuild}]
    BY DEF P!Unmarked, Marks
  <2>2. folders' \in [Builds -> Marks \cup {NoBuild}]
    BY <1>10, <2>1 DEF P!Unmark
  <2> QED BY <1>10, <2>2 DEF P!Unmark
<1>11. ASSUME NEW b \in Builds, P!GetsOld(b) PROVE Typed'
  <2>1. folders[b] \in Marks
    BY <1>11 DEF P!GetsOld
  <2>2. folders' \in [Builds -> Marks \cup {NoBuild}]
    BY <1>11, <2>1 DEF P!GetsOld, Marks
  <2> QED BY <1>11, <2>2 DEF P!GetsOld
<1>12. CASE P!Finished
  BY <1>12 DEF P!Finished, P!vars
<1> QED BY <1>1, <1>2, <1>3, <1>4, <1>5, <1>6, <1>7, <1>8, <1>9, <1>10, <1>11, <1>12
        DEF P!Next

\* Every step keeps the rest: only a build that holds the lock deletes another's
\* folder, and neither one at work nor the page's.
LEMMA PublishStep ==
    ASSUME NoneIsApart, PublishInv, [P!Next]_(P!vars) PROVE PublishInv'
<1> USE DEF NoneIsApart, PublishInv
<1> DEFINE Rest == UnderLock /\ Unbegun /\ Guarded /\ PagePlaced /\ SparesItsOwn /\ PageKept
<1> USE DEF UnderLock, Unbegun, Guarded, PagePlaced, SparesItsOwn, PageKept, Placed, Typed, P!Set
<1>a. page.folder \in Builds \cup {NoBuild}
  BY DEF Typed
<1>1. ASSUME NEW b \in Builds, P!NewFolder(b) PROVE Rest'
  BY <1>1 DEF P!NewFolder, Marks
<1>2. ASSUME NEW b \in Builds, P!NoFolder(b) PROVE Rest'
  BY <1>2 DEF P!NoFolder
<1>3. ASSUME NEW b \in Builds, P!BuildFails(b) PROVE Rest'
  BY <1>3 DEF P!BuildFails, P!Deleted
<1>4. ASSUME NEW b \in Builds, P!NothingToLoad(b) PROVE Rest'
  <2>1. /\ stage[b] = "writing" /\ UNCHANGED <<page, lock, stage>>
        /\ \A x \in Builds : folders'[x] = IF x = b THEN NoBuild ELSE folders[x]
    BY <1>4 DEF P!NothingToLoad, P!Deleted
  <2>2. \A x \in Builds : /\ mine'[x].folder <=> x # b /\ mine[x].folder
                          /\ mine'[x].todo = mine[x].todo
    <3>1. mine' = [mine EXCEPT ![b].folder = FALSE]
      BY <1>4 DEF P!NothingToLoad
    <3> QED BY <3>1, OwnFacts
  <2> HIDE DEF Typed
  <2>3. (UnderLock /\ PagePlaced /\ PageKept)'
    BY <1>a, <2>1
  <2>4. (Unbegun /\ Guarded /\ SparesItsOwn)'
    BY <2>1, <2>2
  <2> QED BY <2>3, <2>4
<1>5. ASSUME NEW b \in Builds, P!TakeLock(b) PROVE Rest'
  BY <1>5 DEF P!TakeLock
<1>6. ASSUME NEW b \in Builds, P!PlainRename(b) PROVE Rest'
  <2>1. /\ stage[b] = "writing" /\ UNCHANGED <<folders, lock, mine>>
        /\ \A x \in Builds : stage'[x] = IF x = b THEN "done" ELSE stage[x]
        /\ \A x \in Builds : folders[x] = NoBuild
    BY <1>6 DEF P!PlainRename, P!There
  <2>2. ~mine[b].folder
    BY <2>1, MarkedFolder
  <2>3. page'.folder = NoBuild
    BY <1>6, <2>2 DEF P!PlainRename, P!InPlace, P!FolderOf
  <2> HIDE DEF Typed
  <2> QED BY <2>1, <2>3
<1>7. ASSUME NEW b \in Builds, P!RenameWithoutLock(b) PROVE Rest'
  BY <1>7 DEF P!RenameWithoutLock, P!InPlace, P!FolderOf
<1>8. ASSUME NEW b \in Builds, P!Rename(b) PROVE Rest'
  <2>1. /\ stage[b] = "locked" /\ lock = b /\ UNCHANGED <<folders, lock>>
        /\ \A x \in Builds : stage'[x] = IF x = b THEN "cleaning" ELSE stage[x]
    BY <1>8 DEF P!Rename
  <2>2. page'.folder = IF mine[b].folder THEN b ELSE NoBuild
    BY <1>8 DEF P!Rename, P!InPlace, P!FolderOf
  <2>3. P!There \ {b} \in SUBSET Builds
    BY DEF P!There
  <2>4. \A x \in Builds : /\ mine'[x].todo = IF x = b THEN P!There \ {b} ELSE mine[x].todo
                          /\ mine'[x].folder <=> mine[x].folder
    <3>1. mine' = [mine EXCEPT ![b].todo = P!There \ {b}]
      BY <1>8 DEF P!Rename
    <3> HIDE DEF P!There
    <3> QED BY <2>3, <3>1, OwnFacts
  <2>5. \A x \in Builds : x # b => stage[x] \notin {"locked", "cleaning"}
    BY <2>1
  <2>6. mine[b].folder => folders[b] # NoBuild
    BY <2>1, MarkedFolder
  <2> HIDE DEF Typed
  <2>7. (UnderLock /\ Unbegun /\ Guarded)'
    BY <2>1, <2>4
  <2>8. (PagePlaced /\ PageKept)'
    BY <2>1, <2>2, <2>6
  <2>9. SparesItsOwn'
    BY <2>1, <2>2, <2>4, <2>5
  <2> QED BY <2>7, <2>8, <2>9
<1>9. ASSUME NEW b \in Builds, P!RenameRaises(b) PROVE Rest'
  BY <1>9 DEF P!RenameRaises, P!Deleted
<1>10. ASSUME NEW b \in Builds, NEW c \in Builds, P!LookAt(b, c) PROVE Rest'
  <2>1. /\ stage[b] = "cleaning" /\ lock = b /\ c \in mine[b].todo
        /\ UNCHANGED <<page, lock, stage>>
    BY <1>10 DEF P!LookAt
  <2>2. mine[b].todo \ {c} \in SUBSET Builds
    BY DEF OwnPart
  <2>3. \A x \in Builds : /\ mine'[x].todo \subseteq mine[x].todo
                          /\ mine'[x].folder <=> mine[x].folder
    BY <1>10, <2>2, OwnFacts DEF P!LookAt
  <2>4. \/ UNCHANGED folders
        \/ /\ folders[c] # [mark |-> TRUE, old |-> FALSE]
           /\ \A x \in Builds : folders'[x] = IF x = c THEN NoBuild ELSE folders[x]
    BY <1>10 DEF P!LookAt, P!Deleted, P!Abandoned
  <2>5. page.locked => page.folder # c
    BY <2>1
  <2> HIDE DEF Typed
  <2>6. (UnderLock /\ Unbegun /\ PagePlaced /\ SparesItsOwn)'
    BY <2>1, <2>3
  <2>7. Guarded'
    BY <2>1, <2>3, <2>4
  <2>8. PageKept'
    BY <1>a, <2>1, <2>4, <2>5
  <2> QED BY <2>6, <2>7, <2>8
<1>11. ASSUME NEW b \in Builds, P!Cleaned(b) \/ P!Killed(b) PROVE Rest'
  <2>1. /\ stage[b] \in {"writing", "locked", "cleaning", "unmark"}
        /\ stage[b] = "cleaning" \/ stage'[b] = "killed"
        /\ stage'[b] \in {"unmark", "killed"}
        /\ \A x \in Builds : x # b => stage'[x] = stage[x]
        /\ \/ lock' = lock
           \/ lock = b /\ stage'[b] = "killed"
        /\ UNCHANGED <<page, folders, mine>>
    <3>1. CASE P!Cleaned(b)
      <4>1. stage[b] = "cleaning" /\ UNCHANGED <<page, folders, lock, mine>>
        BY <3>1 DEF P!Cleaned
      <4>2. stage' = [stage EXCEPT ![b] = "unmark"]
        BY <3>1 DEF P!Cleaned
      <4>3. \A x \in Builds : stage'[x] = IF x = b THEN "unmark" ELSE stage[x]
        BY <4>2
      <4> HIDE DEF Typed
      <4> QED BY <4>1, <4>3
    <3>2. CASE P!Killed(b)
      BY <3>2 DEF P!Killed, AtWork
    <3> QED BY <1>11, <3>1, <3>2
  <2> HIDE DEF Typed
  <2>2. (UnderLock /\ Unbegun /\ Guarded /\ SparesItsOwn /\ PageKept)'
    BY <2>1
  <2>3. PagePlaced'
    BY <1>a, <2>1
  <2> QED BY <2>2, <2>3
<1>12. ASSUME NEW b \in Builds, P!Unmark(b) PROVE Rest'
  <2>1. /\ stage[b] = "unmark" /\ (lock' = lock \/ lock = b)
        /\ \A x \in Builds : stage'[x] = IF x = b THEN "done" ELSE stage[x]
        /\ UNCHANGED <<page, mine>>
    BY <1>12 DEF P!Unmark
  <2>2. /\ \A x \in Builds \ {b} : folders'[x] = folders[x]
        /\ folders[b] # NoBuild => folders'[b] # NoBuild
    <3>1. folders[b] # NoBuild => [folders[b] EXCEPT !.mark = FALSE] \in Marks
      BY MarkedFolder
    <3> DEFINE g == IF folders[b] = NoBuild THEN NoBuild ELSE [folders[b] EXCEPT !.mark = FALSE]
    <3>2. P!Unmarked(b) = [folders EXCEPT ![b] = g]
      BY DEF P!Unmarked
    <3>3. folders[b] # NoBuild => g # NoBuild
      BY <3>1
    <3> HIDE DEF g
    <3>4. \A x \in Builds : P!Unmarked(b)[x] = IF x = b THEN g ELSE folders[x]
      BY <3>2
    <3> QED BY <1>12, <3>3, <3>4 DEF P!Unmark
  <2> HIDE DEF Typed
  <2>3. (UnderLock /\ Unbegun /\ Guarded /\ SparesItsOwn)'
    BY <2>1, <2>2
  <2>4. (PagePlaced /\ PageKept)'
    BY <1>a, <2>1, <2>2
  <2> QED BY <2>3, <2>4
<1>13. ASSUME NEW b \in Builds, P!GetsOld(b) PROVE Rest'
  <2>1. stage[b] \in {"killed", "done"} /\ UNCHANGED <<page, lock, stage, mine>>
    BY <1>13 DEF P!GetsOld
  <2>2. /\ \A x \in Builds \ {b} : folders'[x] = folders[x]
        /\ folders'[b] # NoBuild
    <3>1. folders[b] \in Marks
      BY <1>13 DEF P!GetsOld
    <3>2. /\ [folders[b] EXCEPT !.old = TRUE] \in Marks
          /\ folders' = [folders EXCEPT ![b] = [folders[b] EXCEPT !.old = TRUE]]
      BY <1>13, <3>1 DEF P!GetsOld, Marks
    <3> QED BY <3>2
  <2> HIDE DEF Typed
  <2> QED BY <1>a, <2>1, <2>2
<1>14. CASE UNCHANGED P!vars
  BY <1>14 DEF P!vars
<1>15. P!Next => Rest'
  BY <1>1, <1>2, <1>3, <1>4, <1>5, <1>6, <1>7, <1>8, <1>9, <1>10, <1>11, <1>12, <1>13, <1>14
     DEF P!Next, P!Finished
<1>16. Typed'
  BY TypedStep DEF P!vars
<1> QED BY <1>14, <1>15, <1>16

\* Whatever other builds come, fail or are killed, a page put in place under the
\* lock has the folder it reads, and a build at work the one it writes.  No build
\* is older than the age at which its folder counts as abandoned.
THEOREM PageKeepsItsFolder ==
    ASSUME NoneIsApart PROVE P!Spec => []P!PageHasItsFolder
<1>1. PublishInv => P!PageHasItsFolder
  BY MarkedFolder DEF PublishInv, NoneIsApart, Guarded, PageKept, P!PageHasItsFolder
<1> QED BY <1>1, PublishInit, PublishStep, PTL DEF P!Spec

-----------------------------------------------------------------------------
(* FilterPage: a reader's choices against the loads they start.             *)

StoreType ==
    [chunks : [Reader!Ids -> Reader!Loads], kept : Seq(Reader!Ids),
     sells : [Reader!SellBlocks -> Reader!Loads]]
BarType == [stage : {"base", "primary", "ready", "dead"}, save : BOOLEAN]
ShownType == [choice : Reader!Askable, chunk : Reader!Ids \cup {Absent}]

Loaded(st) == {i \in Reader!Ids : st.chunks[i] = "loaded"}

KeptRight(st) ==
    /\ st \in StoreType
    /\ Len(st.kept) <= Keep /\ Reader!IsInjective(st.kept)
    /\ Reader!PrimaryChunk \notin Reader!Range(st.kept)

\* What the page holds is what it drew last, and perhaps `extra`, just come.
Kept(st, extra) ==
    KeptRight(st) /\ Loaded(st) = Reader!Range(st.kept) \cup {Reader!PrimaryChunk} \cup extra

KnownIn(c, st) == Reader!NeedsBlock(c) => st.sells[Block[c.cell]] = "loaded"

\* A choice drawn from its own chunk, which the page holds.
Drawn(s, st) ==
    /\ s \in ShownType
    /\ KnownIn(s.choice, st) /\ s.chunk = Reader!ChunkAt(s.choice)
    /\ s.chunk # Absent => Mixes(s.chunk, s.choice.pick)
    /\ s.chunk \in {Absent, Reader!PrimaryChunk} \cup Reader!Range(st.kept)

\* The choice that waits is the one the load is for.
Waits ==
    /\ want \in Reader!Ids \cup Reader!SellBlocks \cup {Absent}
    /\ want = Absent => sel = shown.choice
    /\ want \in Reader!Ids =>
          store.chunks[want] = "loading" /\ Reader!ChunkAt(sel) = want /\ Reader!Known(sel)
    /\ want \in Reader!SellBlocks =>
          store.sells[want] = "loading" /\ Reader!NeedsBlock(sel) /\ Block[sel.cell] = want

Rendered ==
    /\ sel = Reader!Start /\ shown = Absent /\ want = Absent /\ bar.save = FALSE
    /\ store.kept = <<>> /\ Loaded(store) = {}
    /\ \A b \in Reader!SellBlocks : store.sells[b] = "absent"

Works ==
    /\ Kept(store, {}) /\ Drawn(shown, store) /\ Waits
    /\ bar.save => want = Absent /\ Reader!CanSave(shown)

ReaderInv ==
    /\ sel \in Reader!Askable /\ store \in StoreType /\ bar \in BarType
    /\ IF Reader!Working THEN Works ELSE Rendered

-----------------------------------------------------------------------------
\* Taking one place out of a line keeps the others in order.
LEMMA RemoveAtFacts ==
    ASSUME NEW S, NEW s \in Seq(S), NEW i \in 1 .. Len(s)
    PROVE  /\ Reader!RemoveAt(s, i) \in Seq(S)
           /\ Len(Reader!RemoveAt(s, i)) = Len(s) - 1
           /\ \A j \in 1 .. Len(s) - 1 :
                 Reader!RemoveAt(s, i)[j] = IF j < i THEN s[j] ELSE s[j + 1]
<1> DEFINE front == SubSeq(s, 1, i - 1)
           back  == SubSeq(s, i + 1, Len(s))
<1>1. \A j \in 1 .. Len(s) : s[j] \in S
  BY ElementOfSeq
<1>2. /\ front \in Seq(S) /\ Len(front) = i - 1
      /\ \A j \in 1 .. i - 1 : front[j] = s[j]
  <2>1. \A j \in 1 .. i - 1 : s[j] \in S
    BY <1>1
  <2> QED BY <2>1, SubSeqProperties, i - 1 \in Int
<1>3. /\ back \in Seq(S) /\ Len(back) = Len(s) - i
      /\ \A j \in 1 .. Len(s) - i : back[j] = s[i + j]
  <2>1. \A j \in i + 1 .. Len(s) : s[j] \in S
    BY <1>1
  <2> QED BY <2>1, SubSeqProperties, i + 1 \in Int, Len(s) \in Int
<1>4. Reader!RemoveAt(s, i) = front \o back
  BY DEF Reader!RemoveAt
<1> HIDE DEF front, back
<1>5. /\ front \o back \in Seq(S)
      /\ Len(front \o back) = Len(front) + Len(back)
      /\ \A j \in 1 .. Len(front) + Len(back) :
            (front \o back)[j] = IF j <= Len(front) THEN front[j]
                                  ELSE back[j - Len(front)]
  BY <1>2, <1>3, ConcatProperties
<1>6. ASSUME NEW j \in 1 .. Len(s) - 1
      PROVE  Reader!RemoveAt(s, i)[j] = IF j < i THEN s[j] ELSE s[j + 1]
  <2>1. CASE j < i
    BY <2>1, <1>2, <1>3, <1>4, <1>5
  <2>2. CASE ~(j < i)
    <3>1. j - (i - 1) \in 1 .. Len(s) - i
      BY <2>2
    <3>2. (front \o back)[j] = back[j - (i - 1)]
      BY <2>2, <1>2, <1>3, <1>5
    <3>3. back[j - (i - 1)] = s[i + (j - (i - 1))]
      BY <3>1, <1>3
    <3>4. i + (j - (i - 1)) = j + 1
      OBVIOUS
    <3> QED BY <2>2, <3>2, <3>3, <3>4, <1>4
  <2> QED BY <2>1, <2>2
<1> QED BY <1>2, <1>3, <1>4, <1>5, <1>6

\* Taking the one place of an element out of a line that names none twice.
LEMMA RemoveFirstFacts ==
    ASSUME NEW S, NEW s \in Seq(S), NEW e, Reader!IsInjective(s)
    PROVE  /\ Reader!RemoveFirst(s, e) \in Seq(S)
           /\ Len(Reader!RemoveFirst(s, e)) <= Len(s)
           /\ Reader!Range(Reader!RemoveFirst(s, e)) = Reader!Range(s) \ {e}
           /\ Reader!IsInjective(Reader!RemoveFirst(s, e))
<1>d. DOMAIN s = 1 .. Len(s) /\ Len(s) \in Nat /\ \A i \in 1 .. Len(s) : s[i] \in S
  BY ElementOfSeq
<1>1. CASE \A i \in 1 .. Len(s) : s[i] # e
  <2>1. Reader!RemoveFirst(s, e) = s
    BY <1>1 DEF Reader!RemoveFirst
  <2>2. e \notin Reader!Range(s)
    BY <1>1, <1>d DEF Reader!Range
  <2> QED BY <2>1, <2>2, <1>d
<1>2. CASE \E i \in 1 .. Len(s) : s[i] = e
  <2> PICK i \in 1 .. Len(s) : s[i] = e
    BY <1>2
  <2>1. {j \in 1 .. Len(s) : s[j] = e} = {i}
    BY <1>d DEF Reader!IsInjective
  <2>2. Reader!Min({i}) = i
    BY DEF Reader!Min
  <2>3. Reader!RemoveFirst(s, e) = Reader!RemoveAt(s, i)
    BY <2>1, <2>2 DEF Reader!RemoveFirst, Reader!SelectInSeq
  <2> DEFINE t == Reader!RemoveAt(s, i)
  <2>4. /\ t \in Seq(S) /\ Len(t) = Len(s) - 1 /\ DOMAIN t = 1 .. Len(s) - 1
        /\ \A j \in 1 .. Len(s) - 1 : t[j] = IF j < i THEN s[j] ELSE s[j + 1]
    <3>1. t \in Seq(S) /\ Len(t) = Len(s) - 1
          /\ \A j \in 1 .. Len(s) - 1 : t[j] = IF j < i THEN s[j] ELSE s[j + 1]
      BY RemoveAtFacts
    <3> QED BY <3>1, LenProperties
  <2> HIDE DEF t
  <2>5. Reader!IsInjective(t)
    <3> SUFFICES ASSUME NEW j \in 1 .. Len(s) - 1, NEW k \in 1 .. Len(s) - 1, t[j] = t[k]
                 PROVE  j = k
      BY <2>4 DEF Reader!IsInjective
    <3> DEFINE at(x) == IF x < i THEN x ELSE x + 1
    <3>1. at(j) \in 1 .. Len(s) /\ at(k) \in 1 .. Len(s)
      BY <1>d
    <3>2. s[at(j)] = s[at(k)]
      BY <2>4
    <3>3. at(j) = at(k)
      BY <3>1, <3>2, <1>d DEF Reader!IsInjective
    <3> QED BY <3>3
  <2>6. Reader!Range(t) \subseteq Reader!Range(s) \ {e}
    <3> SUFFICES ASSUME NEW j \in 1 .. Len(s) - 1 PROVE t[j] \in Reader!Range(s) \ {e}
      BY <2>4 DEF Reader!Range
    <3> DEFINE k == IF j < i THEN j ELSE j + 1
    <3>1. k \in 1 .. Len(s) /\ k # i
      BY <1>d
    <3>2. t[j] = s[k]
      BY <2>4
    <3> HIDE DEF k
    <3>3. s[k] # e
      BY <3>1, <1>d DEF Reader!IsInjective
    <3> QED BY <3>1, <3>2, <3>3, <1>d DEF Reader!Range
  <2>7. Reader!Range(s) \ {e} \subseteq Reader!Range(t)
    <3> SUFFICES ASSUME NEW k \in 1 .. Len(s), s[k] # e PROVE s[k] \in Reader!Range(t)
      BY <1>d DEF Reader!Range
    <3> DEFINE j == IF k < i THEN k ELSE k - 1
    <3>1. k # i
      OBVIOUS
    <3>2. j \in 1 .. Len(s) - 1 /\ (IF j < i THEN j ELSE j + 1) = k
      BY <3>1, <1>d
    <3>3. t[j] = s[k]
      BY <3>2, <2>4
    <3> HIDE DEF j
    <3> QED BY <3>2, <3>3, <2>4 DEF Reader!Range
  <2> QED BY <2>3, <2>4, <2>5, <2>6, <2>7, <1>d DEF t
<1> QED BY <1>1, <1>2

\* Adding an element a line does not name, and letting the oldest go.
LEMMA AppendFacts ==
    ASSUME NEW S, NEW s \in Seq(S), NEW e \in S, Reader!IsInjective(s), e \notin Reader!Range(s)
    PROVE  /\ Append(s, e) \in Seq(S) /\ Len(Append(s, e)) = Len(s) + 1
           /\ Reader!Range(Append(s, e)) = Reader!Range(s) \cup {e} /\ Reader!IsInjective(Append(s, e))
<1> DEFINE t == Append(s, e)
<1>1. DOMAIN s = 1 .. Len(s) /\ Len(s) \in Nat
  BY LenProperties
<1>2. /\ t \in Seq(S) /\ Len(t) = Len(s) + 1
      /\ \A i \in 1 .. Len(s) : t[i] = s[i]
      /\ t[Len(s) + 1] = e
  BY AppendProperties
<1>3. DOMAIN t = 1 .. Len(s) + 1
  BY <1>2, LenProperties
<1> HIDE DEF t
<1>4. \A i \in 1 .. Len(s) : s[i] # e
  BY <1>1 DEF Reader!Range
<1>5. \A i \in 1 .. Len(s) + 1 : i \in 1 .. Len(s) \/ i = Len(s) + 1
  BY <1>1
<1>6. Reader!IsInjective(t)
  BY <1>1, <1>2, <1>3, <1>4, <1>5 DEF Reader!IsInjective
<1>7. Reader!Range(t) = Reader!Range(s) \cup {e}
  <2>1. \A i \in DOMAIN t : t[i] \in Reader!Range(s) \cup {e}
    BY <1>1, <1>2, <1>3, <1>5 DEF Reader!Range
  <2>2. \A i \in DOMAIN s : s[i] = t[i] /\ i \in DOMAIN t
    BY <1>1, <1>2, <1>3
  <2>3. Len(s) + 1 \in DOMAIN t
    BY <1>1, <1>3
  <2> QED BY <2>1, <2>2, <2>3, <1>2 DEF Reader!Range
<1> QED BY <1>2, <1>6, <1>7 DEF t

LEMMA TailFacts ==
    ASSUME NEW S, NEW s \in Seq(S), Reader!IsInjective(s), Len(s) > 0
    PROVE  /\ Head(s) \in S /\ Tail(s) \in Seq(S) /\ Len(Tail(s)) = Len(s) - 1
           /\ Reader!Range(Tail(s)) = Reader!Range(s) \ {Head(s)} /\ Reader!IsInjective(Tail(s))
           /\ Head(s) = s[1]
<1> DEFINE t == Tail(s)
<1>1. DOMAIN s = 1 .. Len(s) /\ Len(s) \in Nat /\ s # <<>>
  BY LenProperties, EmptySeq
<1>2. /\ t \in Seq(S) /\ Len(t) = Len(s) - 1 /\ Head(s) \in S /\ Head(s) = s[1]
      /\ \A i \in 1 .. Len(t) : t[i] = s[i + 1]
  BY <1>1, HeadTailProperties
<1>3. DOMAIN t = 1 .. Len(s) - 1
  BY <1>2, LenProperties
<1> HIDE DEF t
<1>5. \A i \in DOMAIN t : i + 1 \in DOMAIN s /\ i + 1 # 1 /\ t[i] = s[i + 1]
  BY <1>1, <1>2, <1>3
<1>4. Reader!IsInjective(t)
  <2> SUFFICES ASSUME NEW i \in DOMAIN t, NEW j \in DOMAIN t, t[i] = t[j] PROVE i = j
    BY DEF Reader!IsInjective
  <2>1. i + 1 = j + 1
    BY <1>5 DEF Reader!IsInjective
  <2> QED BY <2>1, <1>1, <1>3
<1>6. \A i \in DOMAIN s : i # 1 => i - 1 \in DOMAIN t /\ t[i - 1] = s[i]
  BY <1>1, <1>2, <1>3
<1>7. Reader!Range(t) = Reader!Range(s) \ {s[1]}
  <2>1. 1 \in DOMAIN s
    BY <1>1
  <2>2. \A i \in DOMAIN t : t[i] \in Reader!Range(s) \ {s[1]}
    BY <1>5, <2>1 DEF Reader!Range, Reader!IsInjective
  <2>3. \A x \in Reader!Range(s) \ {s[1]} : x \in Reader!Range(t)
    BY <1>6 DEF Reader!Range
  <2> QED BY <2>2, <2>3 DEF Reader!Range
<1> QED BY <1>2, <1>4, <1>7 DEF t
-----------------------------------------------------------------------------
LEMMA Chunks ==
    ASSUME Reader!PageAssumption
    PROVE  /\ Reader!PrimaryChunk \in Reader!Ids
           /\ \A c \in Reader!Askable : Reader!ChunkAt(c) \in Reader!Ids \cup {Absent}
           /\ \A c \in Reader!Askable : Reader!NeedsBlock(c) => Block[c.cell] \in Reader!SellBlocks
           /\ Absent \notin Reader!Ids \cup Reader!SellBlocks /\ Reader!Ids \cap Reader!SellBlocks = {}
  BY DEF Reader!PageAssumption, Reader!PrimaryChunk, Reader!Ids, Reader!SellBlocks,
     Reader!Askable, Reader!ChunkAt, Reader!NeedsBlock

\* A drawn chunk is the last of those kept, and what is let go was not it.
LEMMA Touch ==
    ASSUME Reader!PageAssumption, NEW st, NEW id \in Reader!Ids, Kept(st, {id})
    PROVE  /\ Kept(Reader!Touched(st, id), {})
           /\ id \in {Reader!PrimaryChunk} \cup Reader!Range(Reader!Touched(st, id).kept)
           /\ Reader!Touched(st, id).sells = st.sells
<1> USE DEF KeptRight, Kept
<1>0. st = [chunks |-> st.chunks, kept |-> st.kept, sells |-> st.sells]
      /\ st.chunks \in [Reader!Ids -> Reader!Loads] /\ st.kept \in Seq(Reader!Ids)
      /\ st.sells \in [Reader!SellBlocks -> Reader!Loads]
  BY DEF StoreType
<1>1. CASE id = Reader!PrimaryChunk
  BY <1>1 DEF Reader!Touched
<1>2. CASE id # Reader!PrimaryChunk
  <2> DEFINE less == Reader!RemoveFirst(st.kept, id)
             kept == Append(less, id)
             out  == IF Len(kept) > Keep THEN Head(kept) ELSE Absent
             chunks == [i \in Reader!Ids |-> IF i = out THEN "absent" ELSE st.chunks[i]]
  <2>1. /\ less \in Seq(Reader!Ids) /\ Len(less) <= Len(st.kept) /\ Reader!IsInjective(less)
        /\ Reader!Range(less) = Reader!Range(st.kept) \ {id}
    BY <1>0, RemoveFirstFacts
  <2>2. Len(less) \in Nat /\ Len(st.kept) \in Nat
    BY <1>0, <2>1, LenProperties
  <2> HIDE DEF less
  <2>3. /\ kept \in Seq(Reader!Ids) /\ Len(kept) = Len(less) + 1
        /\ Reader!Range(kept) = Reader!Range(st.kept) \cup {id} /\ Reader!IsInjective(kept)
        /\ kept[Len(less) + 1] = id
    BY <2>1, AppendFacts, AppendProperties
  <2> HIDE DEF kept
  <2>4. Reader!Touched(st, id) = [st EXCEPT !.kept = IF out = Absent THEN kept ELSE Tail(kept),
                                     !.chunks = chunks]
    BY <1>2 DEF Reader!Touched, less, kept
  <2>5. Reader!Touched(st, id) = [chunks |-> chunks, kept |-> IF out = Absent THEN kept ELSE Tail(kept),
                           sells |-> st.sells]
    <3>1. st \in [chunks : {st.chunks}, kept : {st.kept}, sells : {st.sells}]
      BY <1>0
    <3> QED BY <2>4, <3>1
  <2>6. chunks \in [Reader!Ids -> Reader!Loads]
    BY <1>0 DEF Reader!Loads
  <2>7. Keep \in Nat \ {0} /\ Absent \notin Reader!Ids
    BY Chunks DEF Reader!PageAssumption
  <2>8. CASE Len(kept) > Keep
    <3>1. /\ Head(kept) \in Reader!Ids /\ Tail(kept) \in Seq(Reader!Ids)
          /\ Len(Tail(kept)) = Len(kept) - 1
          /\ Reader!Range(Tail(kept)) = Reader!Range(kept) \ {Head(kept)}
          /\ Reader!IsInjective(Tail(kept))
          /\ Head(kept) = kept[1]
      BY <2>2, <2>3, TailFacts
    <3>2. out = Head(kept) /\ out # Absent
      BY <2>7, <2>8, <3>1
    <3>3. Head(kept) # id
      <4>1. DOMAIN kept = 1 .. Len(less) + 1
        BY <2>3, LenProperties
      <4>2. 1 \in DOMAIN kept /\ Len(less) + 1 \in DOMAIN kept /\ Len(less) + 1 # 1
        BY <4>1, <2>2, <2>3, <2>7, <2>8
      <4> QED BY <4>2, <2>3, <3>1 DEF Reader!IsInjective
    <3>4. Head(kept) \in Reader!Range(kept)
      <4>1. 1 \in DOMAIN kept
        BY <2>2, <2>3, LenProperties
      <4> QED BY <4>1, <3>1 DEF Reader!Range
    <3>5. \A i \in Reader!Ids : chunks[i] = "loaded" <=> st.chunks[i] = "loaded" /\ i # Head(kept)
      BY <3>2
    <3>6. Head(kept) # Reader!PrimaryChunk
      BY <3>4, <2>3, <1>2
    <3>7. Reader!Range(Tail(kept)) \cup {Reader!PrimaryChunk} =
            (Reader!Range(st.kept) \cup {Reader!PrimaryChunk, id}) \ {Head(kept)}
      BY <3>1, <3>6, <2>3
    <3> HIDE DEF chunks, out
    <3>8. Reader!Touched(st, id) \in StoreType
      BY <2>5, <2>6, <3>1, <3>2, <1>0 DEF StoreType
    <3>9. Loaded(Reader!Touched(st, id)) = Reader!Range(Tail(kept)) \cup {Reader!PrimaryChunk}
      BY <3>5, <3>7, <2>5 DEF Loaded
    <3>10. Len(Tail(kept)) <= Keep
      BY <3>1, <2>1, <2>2, <2>3, <2>7
    <3> QED BY <3>1, <3>2, <3>3, <3>8, <3>9, <3>10, <2>3, <2>5, <1>2
  <2>9. CASE ~(Len(kept) > Keep)
    <3>1. out = Absent
      BY <2>9
    <3>2. chunks = st.chunks
      BY <3>1, <2>7, <1>0
    <3> HIDE DEF chunks, out
    <3>3. Reader!Touched(st, id) = [chunks |-> st.chunks, kept |-> kept, sells |-> st.sells]
      BY <2>5, <3>1, <3>2
    <3>4. Len(kept) <= Keep
      BY <2>2, <2>3, <2>7, <2>9
    <3>5. Reader!Touched(st, id) \in StoreType
      BY <3>3, <2>3, <1>0 DEF StoreType
    <3>6. Loaded(Reader!Touched(st, id)) = Reader!Range(kept) \cup {Reader!PrimaryChunk}
      BY <3>3, <2>3 DEF Loaded
    <3> QED BY <3>3, <3>4, <3>5, <3>6, <2>3, <1>2
  <2> QED BY <2>8, <2>9
<1> QED BY <1>1, <1>2

\* A chunk that was not drawn goes, unless it was before.
LEMMA Refuse ==
    ASSUME Reader!PageAssumption, NEW st, NEW id \in Reader!Ids, Kept(st, {id})
    PROVE  /\ Kept(Reader!Refused(st, id), {})
           /\ Reader!Refused(st, id).kept = st.kept /\ Reader!Refused(st, id).sells = st.sells
<1> USE DEF KeptRight, Kept
<1>0. st \in [chunks : [Reader!Ids -> Reader!Loads], kept : Seq(Reader!Ids),
             sells : [Reader!SellBlocks -> Reader!Loads]]
  BY DEF StoreType
<1>1. CASE id = Reader!PrimaryChunk \/ id \in Reader!Range(st.kept)
  BY <1>1 DEF Reader!Refused
<1>2. CASE ~(id = Reader!PrimaryChunk \/ id \in Reader!Range(st.kept))
  <2>1. Reader!Refused(st, id) = [st EXCEPT !.chunks[id] = "absent"]
    BY <1>2 DEF Reader!Refused
  <2>2. /\ Reader!Refused(st, id) \in StoreType /\ Reader!Refused(st, id).kept = st.kept
        /\ Reader!Refused(st, id).sells = st.sells
        /\ Reader!Refused(st, id).chunks = [st.chunks EXCEPT ![id] = "absent"]
    BY <1>0, <2>1 DEF StoreType, Reader!Loads
  <2>3. Loaded(Reader!Refused(st, id)) = Loaded(st) \ {id}
    BY <1>0, <2>2 DEF Loaded
  <2> QED BY <1>2, <2>2, <2>3
<1> QED BY <1>1, <1>2
-----------------------------------------------------------------------------
\* A page that works, whatever it holds and waits for.
Alive ==
    /\ Reader!PageAssumption /\ Reader!Working
    /\ sel \in Reader!Askable /\ bar \in BarType

LEMMA PutBackKeeps ==
    ASSUME Alive, NEW st, Kept(st, {}), Drawn(shown, st), Reader!PutBack(st)
    PROVE  ReaderInv'
<1>1. /\ sel' = shown.choice /\ want' = Absent /\ store' = st /\ shown' = shown
      /\ bar' = [bar EXCEPT !.save = Reader!CanSave(shown)]
  BY DEF Reader!PutBack
<1>2. bar' \in BarType /\ bar'.stage = "ready" /\ bar'.save = Reader!CanSave(shown)
  BY <1>1 DEF Alive, Reader!Working, BarType, Reader!CanSave
<1>3. sel' \in Reader!Askable /\ store' \in StoreType
  BY <1>1 DEF Drawn, ShownType, Kept, KeptRight
<1>4. Waits'
  BY <1>1, Chunks DEF Waits, Alive
<1>5. Works'
  BY <1>1, <1>2, <1>4 DEF Works, Reader!CanSave
<1> QED BY <1>2, <1>3, <1>5 DEF ReaderInv, Reader!Working

\* A choice whose chunk is in, or that was never simulated, is drawn; if its
\* mix cannot be had the one on screen is put back.
LEMMA DrawKeeps ==
    ASSUME Alive, NEW st, NEW c \in Reader!Askable, NEW id, id = Reader!ChunkAt(c),
           IF id = Absent THEN Kept(st, {}) ELSE Kept(st, {id}),
           KnownIn(c, st), Drawn(shown, st), Reader!DrawOrRefuse(c, id, st)
    PROVE  ReaderInv'
<1>0. Reader!PageAssumption /\ id \in Reader!Ids \cup {Absent} /\ Absent \notin Reader!Ids
  BY Chunks DEF Alive
<1>1. CASE id = Absent \/ Mixes(id, c.pick)
  <2> DEFINE new == IF id = Absent THEN st ELSE Reader!Touched(st, id)
  <2>1. /\ sel' = c /\ shown' = [choice |-> c, chunk |-> id] /\ want' = Absent /\ store' = new
        /\ bar' = [bar EXCEPT !.save = Reader!CanSave(shown')]
    BY <1>1 DEF Reader!DrawOrRefuse, Reader!Draw
  <2>2. /\ Kept(new, {}) /\ new.sells = st.sells
        /\ id \in {Absent, Reader!PrimaryChunk} \cup Reader!Range(new.kept)
    BY <1>0, Touch
  <2> HIDE DEF new
  <2>3. bar' \in BarType /\ bar'.stage = "ready" /\ bar'.save = Reader!CanSave(shown')
    BY <2>1 DEF Alive, Reader!Working, BarType, Reader!CanSave
  <2>4. shown' \in ShownType /\ shown'.choice = c /\ shown'.chunk = id
    BY <2>1, <1>0 DEF ShownType
  <2>5. Drawn(shown', new)
    BY <2>2, <2>4, <1>1 DEF Drawn, KnownIn
  <2>6. Waits'
    BY <2>1, <2>4, <1>0, Chunks DEF Waits
  <2>7. Works'
    BY <2>1, <2>2, <2>3, <2>5, <2>6 DEF Works, Reader!CanSave
  <2> QED BY <2>1, <2>2, <2>3, <2>7 DEF ReaderInv, Reader!Working, Kept, KeptRight
<1>2. CASE ~(id = Absent \/ Mixes(id, c.pick))
  <2>1. Reader!PutBack(Reader!Refused(st, id)) /\ id \in Reader!Ids /\ Kept(st, {id})
    BY <1>0, <1>2 DEF Reader!DrawOrRefuse
  <2>2. /\ Kept(Reader!Refused(st, id), {})
        /\ Reader!Refused(st, id).kept = st.kept /\ Reader!Refused(st, id).sells = st.sells
    BY <1>0, <2>1, Refuse
  <2>3. Drawn(shown, Reader!Refused(st, id))
    BY <2>2 DEF Drawn, KnownIn
  <2> QED BY <2>1, <2>2, <2>3, PutBackKeeps
<1> QED BY <1>1, <1>2

\* What follows a choice: a wait, or a picture.
LEMMA ChooseKeeps ==
    ASSUME Alive, NEW st, NEW c \in Reader!Askable, Kept(st, {}), Drawn(shown, st), Reader!Choose(c, st)
    PROVE  ReaderInv'
<1> USE DEF Kept, KeptRight
<1>0. /\ Reader!PageAssumption /\ Reader!ChunkAt(c) \in Reader!Ids \cup {Absent}
      /\ Absent \notin Reader!Ids \cup Reader!SellBlocks
      /\ Reader!NeedsBlock(c) => Block[c.cell] \in Reader!SellBlocks
      /\ Reader!Ids \cap Reader!SellBlocks = {}
  BY Chunks DEF Alive
<1>1. st \in [chunks : [Reader!Ids -> Reader!Loads], kept : Seq(Reader!Ids),
             sells : [Reader!SellBlocks -> Reader!Loads]]
  BY DEF StoreType
<1>2. CASE Reader!NeedsBlock(c) /\ st.sells[Block[c.cell]] # "loaded"
  <2> DEFINE b   == Block[c.cell]
             new == [st EXCEPT !.sells[b] = "loading"]
  <2>1. /\ sel' = c /\ want' = b /\ store' = new /\ shown' = shown
        /\ bar' = [bar EXCEPT !.save = FALSE]
    BY <1>2 DEF Reader!Choose, Reader!WaitFor
  <2>2. b \in Reader!SellBlocks
    BY <1>0, <1>2
  <2> HIDE DEF b
  <2>3. /\ new \in StoreType /\ new.kept = st.kept /\ new.chunks = st.chunks
        /\ new.sells = [st.sells EXCEPT ![b] = "loading"]
    BY <1>1, <2>2 DEF StoreType, Reader!Loads
  <2> HIDE DEF new
  <2>4. Kept(new, {})
    BY <2>3 DEF Loaded
  <2>5. Drawn(shown, new)
    <3>1. Reader!NeedsBlock(shown.choice) => Block[shown.choice.cell] # b
      BY <1>2 DEF Drawn, KnownIn, b
    <3>2. Reader!NeedsBlock(shown.choice) => Block[shown.choice.cell] \in Reader!SellBlocks
      BY <1>0, Chunks DEF Drawn, ShownType
    <3> QED BY <1>1, <2>3, <3>1, <3>2 DEF Drawn, KnownIn
  <2>6. bar' \in BarType /\ bar'.stage = "ready" /\ bar'.save = FALSE
    BY <2>1 DEF Alive, Reader!Working, BarType
  <2>7. Waits'
    <3>1. new.sells[b] = "loading"
      BY <1>1, <2>2, <2>3
    <3> QED BY <1>0, <1>2, <2>1, <2>2, <3>1 DEF Waits, b
  <2>8. Works'
    BY <2>1, <2>4, <2>5, <2>6, <2>7 DEF Works
  <2> QED BY <2>1, <2>3, <2>6, <2>8 DEF ReaderInv, Reader!Working
<1>3. CASE ~(Reader!NeedsBlock(c) /\ st.sells[Block[c.cell]] # "loaded")
  <2> DEFINE id == Reader!ChunkAt(c)
  <2>1. KnownIn(c, st)
    BY <1>3 DEF KnownIn
  <2>2. CASE id = Absent \/ st.chunks[id] = "loaded"
    <3>1. Reader!DrawOrRefuse(c, id, st)
      BY <1>3, <2>2 DEF Reader!Choose
    <3>2. IF id = Absent THEN Kept(st, {}) ELSE Kept(st, {id})
      BY <1>0, <2>2 DEF Loaded
    <3> QED BY <3>1, <3>2, <2>1, DrawKeeps
  <2>3. CASE ~(id = Absent \/ st.chunks[id] = "loaded")
    <3> DEFINE new == [st EXCEPT !.chunks[id] = "loading"]
    <3>1. /\ sel' = c /\ want' = id /\ store' = new /\ shown' = shown
          /\ bar' = [bar EXCEPT !.save = FALSE]
      BY <1>3, <2>3 DEF Reader!Choose, Reader!WaitFor
    <3>2. id \in Reader!Ids
      BY <1>0, <2>3
    <3> HIDE DEF id
    <3>3. /\ new \in StoreType /\ new.kept = st.kept /\ new.sells = st.sells
          /\ new.chunks = [st.chunks EXCEPT ![id] = "loading"]
      BY <1>1, <3>2 DEF StoreType, Reader!Loads
    <3> HIDE DEF new
    <3>4. Kept(new, {})
      <4>1. Loaded(new) = Loaded(st)
        BY <1>1, <2>3, <3>2, <3>3 DEF Loaded
      <4> QED BY <3>3, <4>1
    <3>5. Drawn(shown, new)
      BY <3>3 DEF Drawn, KnownIn
    <3>6. bar' \in BarType /\ bar'.stage = "ready" /\ bar'.save = FALSE
      BY <3>1 DEF Alive, Reader!Working, BarType
    <3>7. Waits'
      <4>1. new.chunks[id] = "loading"
        BY <1>1, <3>2, <3>3
      <4>2. Reader!Known(sel)'
        BY <2>1, <3>1, <3>3 DEF Reader!Known, KnownIn
      <4> QED BY <1>0, <3>1, <3>2, <4>1, <4>2 DEF Waits, id
    <3>8. Works'
      BY <3>1, <3>4, <3>5, <3>6, <3>7 DEF Works
    <3> QED BY <3>1, <3>3, <3>6, <3>8 DEF ReaderInv, Reader!Working
  <2> QED BY <2>2, <2>3
<1> QED BY <1>2, <1>3
-----------------------------------------------------------------------------
\* The store after one chunk, or one block, came or failed.
LEMMA OneChunk ==
    ASSUME NEW st \in StoreType, NEW id \in Reader!Ids, NEW how \in Reader!Loads
    PROVE  LET new == [st EXCEPT !.chunks[id] = how]
           IN  /\ new \in StoreType /\ new.kept = st.kept /\ new.sells = st.sells
               /\ new.chunks = [st.chunks EXCEPT ![id] = how]
               /\ Loaded(new) = IF how = "loaded" THEN Loaded(st) \cup {id} ELSE Loaded(st) \ {id}
  BY DEF StoreType, Loaded

LEMMA OneBlock ==
    ASSUME NEW st \in StoreType, NEW b \in Reader!SellBlocks, NEW how \in Reader!Loads
    PROVE  LET new == [st EXCEPT !.sells[b] = how]
           IN  /\ new \in StoreType /\ new.kept = st.kept /\ new.chunks = st.chunks
               /\ new.sells = [st.sells EXCEPT ![b] = how]
               /\ Loaded(new) = Loaded(st)
  BY DEF StoreType, Loaded

LEMMA ReaderInit == Reader!PageAssumption /\ Reader!Init => ReaderInv
<1> SUFFICES ASSUME Reader!PageAssumption, Reader!Init PROVE ReaderInv
  OBVIOUS
<1> USE DEF Reader!Init
<1>1. sel \in Reader!Askable /\ bar \in BarType /\ bar.stage = "base" /\ bar.save = FALSE
  BY DEF Reader!PageAssumption, Reader!Askable, Reader!Start, BarType
<1>2. store \in StoreType
  BY DEF StoreType, Reader!Loads
<1>3. Loaded(store) = {}
  BY DEF Loaded
<1> QED BY <1>1, <1>2, <1>3 DEF ReaderInv, Reader!Working, Rendered

\* A chunk nobody waits for any more is not the one the selects name.
LEMMA Unanswered ==
    ASSUME Reader!PageAssumption, ReaderInv, Reader!Working, NEW id \in Reader!Ids,
           store.chunks[id] = "loading",
           ~Reader!Answers(id)
    PROVE  ~Reader!StillWanted(id)
<1> USE DEF ReaderInv, Works, Kept, KeptRight
<1>1. id \notin Loaded(store)
  BY DEF Loaded
<1>2. id # Reader!PrimaryChunk /\ id \notin Reader!Range(store.kept) /\ id # Absent
  BY <1>1, Chunks
<1>3. CASE want = Absent
  <2>1. Reader!ChunkAt(sel) \in {Absent, Reader!PrimaryChunk} \cup Reader!Range(store.kept)
    BY <1>3 DEF Waits, Drawn
  <2> QED BY <2>1, <1>2 DEF Reader!StillWanted
<1>4. CASE want \in Reader!Ids
  BY <1>2, <1>4 DEF Waits, Reader!StillWanted, Reader!Answers
<1>5. CASE want \in Reader!SellBlocks
  BY <1>2, <1>5 DEF Waits, Reader!StillWanted, Reader!Known
<1> QED BY <1>3, <1>4, <1>5 DEF Waits

\* A load that ends with nobody waiting for it changes the store alone.
LEMMA Aside ==
    ASSUME Reader!PageAssumption, ReaderInv, Reader!Working, NEW st, store' = st,
           UNCHANGED <<sel, shown, want, bar>>,
           Kept(st, {}), st.kept = store.kept,
           \A b \in Reader!SellBlocks : store.sells[b] = "loaded" => st.sells[b] = "loaded",
           want \in Reader!Ids => st.chunks[want] = "loading",
           want \in Reader!SellBlocks => st.sells[want] = "loading"
    PROVE  ReaderInv'
<1>1. sel \in Reader!Askable /\ Works /\ bar \in BarType
  BY DEF ReaderInv
<1>2. \A c \in Reader!Askable : KnownIn(c, store) => KnownIn(c, st)
  BY Chunks DEF KnownIn
<1>3. Drawn(shown, st)
  BY <1>1, <1>2 DEF Works, Drawn, ShownType
<1>4. Reader!Known(sel) <=> KnownIn(sel, store)
  BY DEF Reader!Known, KnownIn
<1>5. Reader!Known(sel)' <=> KnownIn(sel, st)
  BY DEF Reader!Known, KnownIn
<1>6. Waits'
  BY <1>1, <1>2, <1>4, <1>5 DEF Works, Waits
<1>7. Works'
  BY <1>1, <1>3, <1>6 DEF Works
<1> QED BY <1>1, <1>7 DEF ReaderInv, Reader!Working, Kept, KeptRight

LEMMA ReaderStep == Reader!PageAssumption /\ ReaderInv /\ [Reader!Next]_(Reader!vars) => ReaderInv'
<1> SUFFICES ASSUME Reader!PageAssumption, ReaderInv, [Reader!Next]_(Reader!vars) PROVE ReaderInv'
  OBVIOUS
<1>t. store \in StoreType /\ sel \in Reader!Askable /\ bar \in BarType
  BY DEF ReaderInv
<1>w. ASSUME Reader!Working
      PROVE  Alive /\ Works /\ Kept(store, {}) /\ Drawn(shown, store)
  BY <1>w, <1>t DEF Alive, ReaderInv, Works
<1>r. ASSUME ~Reader!Working PROVE Rendered
  BY <1>r DEF ReaderInv
<1>p. Reader!PrimaryChunk \in Reader!Ids
  BY Chunks
<1>l. Reader!Loads = {"absent", "loading", "loaded"}
  BY DEF Reader!Loads
<1>c. ASSUME Reader!Working, NEW c \in Reader!Askable, Reader!Choose(c, store)
      PROVE  ReaderInv'
  BY <1>c, <1>w, ChooseKeeps
<1>1. CASE Reader!BaseArrives
  <2> DEFINE new == [store EXCEPT !.chunks[Reader!PrimaryChunk] = "loading"]
  <2>1. ~Reader!Working /\ store' = new /\ bar' = [bar EXCEPT !.stage = "primary"]
        /\ UNCHANGED <<sel, shown, want>>
    BY <1>1 DEF Reader!BaseArrives, Reader!Working
  <2>2. new \in StoreType /\ new.kept = store.kept /\ new.sells = store.sells
        /\ Loaded(new) = Loaded(store) \ {Reader!PrimaryChunk}
    BY <1>t, <1>p, <1>l, OneChunk
  <2> HIDE DEF new
  <2>3. bar' \in BarType /\ bar'.stage = "primary" /\ bar'.save = bar.save
    BY <2>1, <1>t DEF BarType
  <2>4. Rendered'
    BY <2>1, <2>2, <2>3, <1>r DEF Rendered
  <2> QED BY <2>1, <2>2, <2>3, <2>4, <1>t DEF ReaderInv, Reader!Working
<1>2. CASE Reader!PrimaryArrives
  <2> DEFINE new == [store EXCEPT !.chunks[Reader!PrimaryChunk] = "loaded"]
  <2>1. ~Reader!Working /\ store' = new /\ shown' = [choice |-> sel, chunk |-> Reader!PrimaryChunk]
        /\ bar' = [stage |-> "ready", save |-> Reader!CanSave(shown')] /\ UNCHANGED <<sel, want>>
    BY <1>2 DEF Reader!PrimaryArrives, Reader!Working
  <2>2. new \in StoreType /\ new.kept = store.kept /\ new.sells = store.sells
        /\ Loaded(new) = Loaded(store) \cup {Reader!PrimaryChunk}
    BY <1>t, <1>p, <1>l, OneChunk
  <2> HIDE DEF new
  <2>3. bar' \in BarType /\ bar'.stage = "ready" /\ bar'.save = Reader!CanSave(shown')
    BY <2>1 DEF BarType, Reader!CanSave
  <2>4. Rendered
    BY <2>1, <1>r
  <2>5. Kept(new, {})
    <3>1. Reader!Range(<<>>) = {} /\ Reader!IsInjective(<<>>) /\ Len(<<>>) = 0
      BY DEF Reader!Range, Reader!IsInjective
    <3>2. Keep \in Nat
      BY DEF Reader!PageAssumption
    <3> QED BY <2>2, <2>4, <3>1, <3>2 DEF Kept, KeptRight, Rendered
  <2>6. /\ sel = Reader!Start /\ ~Reader!NeedsBlock(Reader!Start)
        /\ Reader!ChunkAt(Reader!Start) = Reader!PrimaryChunk
        /\ Mixes(Reader!PrimaryChunk, Reader!Start.pick)
    BY <2>4 DEF Rendered, Reader!PageAssumption, Reader!Start, Reader!NeedsBlock, Reader!ChunkAt,
       Reader!PrimaryChunk
  <2>7. shown' \in ShownType /\ shown'.choice = sel /\ shown'.chunk = Reader!PrimaryChunk
    BY <2>1, <1>p, <1>t DEF ShownType
  <2>8. Drawn(shown', new)
    BY <2>6, <2>7 DEF Drawn, KnownIn
  <2>9. Waits'
    BY <2>1, <2>4, <2>7, Chunks DEF Waits, Rendered
  <2>10. want' = Absent
    BY <2>1, <2>4 DEF Rendered
  <2>11. Works'
    BY <2>1, <2>3, <2>5, <2>8, <2>9, <2>10 DEF Works, Reader!CanSave
  <2> QED BY <2>1, <2>2, <2>3, <2>11, <1>t DEF ReaderInv, Reader!Working
<1>3. CASE Reader!StartFails
  <2> DEFINE new == [store EXCEPT !.chunks[Reader!PrimaryChunk] = "absent"]
  <2>1. ~Reader!Working /\ store' = new /\ bar' = [stage |-> "dead", save |-> FALSE]
        /\ UNCHANGED <<sel, shown, want>>
    BY <1>3 DEF Reader!StartFails, Reader!Working
  <2>2. new \in StoreType /\ new.kept = store.kept /\ new.sells = store.sells
        /\ Loaded(new) = Loaded(store) \ {Reader!PrimaryChunk}
    BY <1>t, <1>p, <1>l, OneChunk
  <2> HIDE DEF new
  <2>3. bar' \in BarType /\ bar'.stage = "dead" /\ bar'.save = FALSE
    BY <2>1 DEF BarType
  <2>4. Rendered'
    BY <2>1, <2>2, <2>3, <1>r DEF Rendered
  <2> QED BY <2>1, <2>2, <2>3, <2>4, <1>t DEF ReaderInv, Reader!Working
<1>4. CASE \E cell \in Cells : Reader!PickCell(cell)
  BY <1>4, <1>t, <1>c DEF Reader!PickCell, Reader!Askable
<1>5. CASE Reader!PickRebalance
  BY <1>5, <1>t, <1>c DEF Reader!PickRebalance, Reader!Askable
<1>6. CASE Reader!PickSell
  BY <1>6, <1>t, <1>c DEF Reader!PickSell, Reader!Askable
<1>7. CASE \E p \in Picks : Reader!Tick(p)
  BY <1>7, <1>t, <1>c DEF Reader!Tick, Reader!Askable
<1>8. CASE \E id \in Reader!Ids : Reader!ChunkArrives(id)
  <2> PICK id \in Reader!Ids : Reader!ChunkArrives(id)
    BY <1>8
  <2> DEFINE how == IF Reader!StillWanted(id) THEN "loaded" ELSE "absent"
             st  == [store EXCEPT !.chunks[id] = how]
  <2>1. Reader!Working /\ store.chunks[id] = "loading"
    BY DEF Reader!ChunkArrives
  <2>2. /\ st \in StoreType /\ st.kept = store.kept /\ st.sells = store.sells
        /\ st.chunks = [store.chunks EXCEPT ![id] = how]
        /\ Loaded(st) = IF how = "loaded" THEN Loaded(store) \cup {id} ELSE Loaded(store) \ {id}
    <3>1. how \in Reader!Loads
      BY <1>l
    <3> HIDE DEF how
    <3> QED BY <3>1, <1>t, OneChunk
  <2>3. id \notin Loaded(store)
    BY <2>1 DEF Loaded
  <2>4. CASE Reader!Answers(id)
    <3>1. want = id /\ Reader!ChunkAt(sel) = id /\ Reader!Known(sel) /\ id # Absent
      BY <2>1, <2>4, <1>w, Chunks DEF Reader!Answers, Works, Waits
    <3>2. Reader!StillWanted(id)
      BY <3>1 DEF Reader!StillWanted
    <3>3. Reader!DrawOrRefuse(sel, id, st)
      BY <2>4 DEF Reader!ChunkArrives
    <3>4. how = "loaded"
      BY <3>2
    <3> HIDE DEF how, st
    <3>5. Kept(st, {id})
      BY <2>1, <2>2, <3>4, <1>w DEF Kept, KeptRight
    <3>6. KnownIn(sel, st) /\ Drawn(shown, st)
      BY <2>1, <2>2, <3>1, <1>w DEF Reader!Known, KnownIn, Drawn
    <3> QED BY <2>1, <3>1, <3>3, <3>5, <3>6, <1>t, <1>w, DrawKeeps
  <2>5. CASE ~Reader!Answers(id)
    <3>1. how = "absent"
      BY <2>1, <2>5, Unanswered
    <3>2. store' = st /\ UNCHANGED <<sel, shown, want, bar>>
      BY <2>5 DEF Reader!ChunkArrives
    <3> HIDE DEF how, st
    <3>3. Kept(st, {})
      BY <2>1, <2>2, <2>3, <3>1, <1>w DEF Kept, KeptRight
    <3>4. /\ want \in Reader!Ids => st.chunks[want] = "loading"
          /\ want \in Reader!SellBlocks => st.sells[want] = "loading"
      BY <2>1, <2>2, <2>5, <1>t, <1>w DEF Works, Waits, Reader!Answers, StoreType
    <3> QED BY <2>1, <2>2, <3>2, <3>3, <3>4, Aside
  <2> QED BY <2>4, <2>5
<1>9. CASE \E id \in Reader!Ids : Reader!ChunkFails(id)
  <2> PICK id \in Reader!Ids : Reader!ChunkFails(id)
    BY <1>9
  <2> DEFINE st == [store EXCEPT !.chunks[id] = "absent"]
  <2>1. /\ Reader!Working /\ store.chunks[id] = "loading"
        /\ IF Reader!Answers(id) THEN Reader!PutBack(st)
           ELSE store' = st /\ UNCHANGED <<sel, shown, want, bar>>
    BY DEF Reader!ChunkFails
  <2>2. /\ st \in StoreType /\ st.kept = store.kept /\ st.sells = store.sells
        /\ st.chunks = [store.chunks EXCEPT ![id] = "absent"]
        /\ Loaded(st) = Loaded(store) \ {id}
    BY <1>t, <1>l, OneChunk
  <2> HIDE DEF st
  <2>3. id \notin Loaded(store)
    BY <2>1 DEF Loaded
  <2>4. Kept(st, {}) /\ Drawn(shown, st)
    BY <2>1, <2>2, <2>3, <1>w DEF Kept, KeptRight, Drawn, KnownIn
  <2>5. CASE Reader!Answers(id)
    BY <2>1, <2>4, <2>5, <1>w, PutBackKeeps
  <2>6. CASE ~Reader!Answers(id)
    <3>1. /\ want \in Reader!Ids => st.chunks[want] = "loading"
          /\ want \in Reader!SellBlocks => st.sells[want] = "loading"
      BY <2>1, <2>2, <2>6, <1>t, <1>w DEF Works, Waits, Reader!Answers, StoreType
    <3> QED BY <2>1, <2>2, <2>4, <2>6, <3>1, Aside
  <2> QED BY <2>5, <2>6
<1>10. CASE \E b \in Reader!SellBlocks : Reader!BlockArrives(b)
  <2> PICK b \in Reader!SellBlocks : Reader!BlockArrives(b)
    BY <1>10
  <2> DEFINE st == [store EXCEPT !.sells[b] = "loaded"]
  <2>1. /\ store.sells[b] = "loading"
        /\ IF Reader!Answers(b) THEN Reader!Choose(sel, st)
           ELSE store' = st /\ UNCHANGED <<sel, shown, want, bar>>
    BY DEF Reader!BlockArrives
  <2>2. /\ st \in StoreType /\ st.kept = store.kept /\ st.chunks = store.chunks
        /\ st.sells = [store.sells EXCEPT ![b] = "loaded"] /\ Loaded(st) = Loaded(store)
    BY <1>t, <1>l, OneBlock
  <2> HIDE DEF st
  <2>3. Reader!Working
    BY <2>1, <1>r DEF Rendered
  <2>4. \A x \in Reader!SellBlocks : store.sells[x] = "loaded" => st.sells[x] = "loaded"
    BY <2>2, <1>t DEF StoreType
  <2>5. \A c \in Reader!Askable : KnownIn(c, store) => KnownIn(c, st)
    BY <2>4, Chunks DEF KnownIn
  <2>6. Kept(st, {}) /\ Drawn(shown, st)
    BY <2>2, <2>3, <2>5, <1>w DEF Kept, KeptRight, Drawn, ShownType
  <2>7. CASE Reader!Answers(b)
    BY <2>1, <2>3, <2>6, <2>7, <1>t, <1>w, ChooseKeeps
  <2>8. CASE ~Reader!Answers(b)
    <3>1. /\ want \in Reader!Ids => st.chunks[want] = "loading"
          /\ want \in Reader!SellBlocks => st.sells[want] = "loading"
      BY <2>1, <2>2, <2>3, <2>8, <1>t, <1>w DEF Works, Waits, Reader!Answers, StoreType
    <3> QED BY <2>1, <2>2, <2>3, <2>4, <2>6, <2>8, <3>1, Aside
  <2> QED BY <2>7, <2>8
<1>11. CASE \E b \in Reader!SellBlocks : Reader!BlockFails(b)
  <2> PICK b \in Reader!SellBlocks : Reader!BlockFails(b)
    BY <1>11
  <2> DEFINE st == [store EXCEPT !.sells[b] = "absent"]
  <2>1. /\ store.sells[b] = "loading"
        /\ IF Reader!Answers(b) THEN Reader!PutBack(st)
           ELSE store' = st /\ UNCHANGED <<sel, shown, want, bar>>
    BY DEF Reader!BlockFails
  <2>2. /\ st \in StoreType /\ st.kept = store.kept /\ st.chunks = store.chunks
        /\ st.sells = [store.sells EXCEPT ![b] = "absent"] /\ Loaded(st) = Loaded(store)
    BY <1>t, <1>l, OneBlock
  <2> HIDE DEF st
  <2>3. Reader!Working
    BY <2>1, <1>r DEF Rendered
  <2>4. \A x \in Reader!SellBlocks : store.sells[x] = "loaded" => st.sells[x] = "loaded"
    BY <2>1, <2>2, <1>t DEF StoreType
  <2>5. \A c \in Reader!Askable : KnownIn(c, store) => KnownIn(c, st)
    BY <2>4, Chunks DEF KnownIn
  <2>6. Kept(st, {}) /\ Drawn(shown, st)
    BY <2>2, <2>3, <2>5, <1>w DEF Kept, KeptRight, Drawn, ShownType
  <2>7. CASE Reader!Answers(b)
    BY <2>1, <2>3, <2>6, <2>7, <1>w, PutBackKeeps
  <2>8. CASE ~Reader!Answers(b)
    <3>1. /\ want \in Reader!Ids => st.chunks[want] = "loading"
          /\ want \in Reader!SellBlocks => st.sells[want] = "loading"
      BY <2>1, <2>2, <2>3, <2>8, <1>t, <1>w DEF Works, Waits, Reader!Answers, StoreType
    <3> QED BY <2>1, <2>2, <2>3, <2>4, <2>6, <2>8, <3>1, Aside
  <2> QED BY <2>7, <2>8
<1>12. CASE Reader!Dead \/ UNCHANGED Reader!vars
  <2>1. UNCHANGED Reader!vars
    BY <1>12 DEF Reader!Dead
  <2> QED BY <2>1 DEF Reader!vars, ReaderInv, Reader!Working, Works, Rendered, Waits,
             Reader!Known, Kept, KeptRight, Reader!CanSave
<1> QED BY <1>1, <1>2, <1>3, <1>4, <1>5, <1>6, <1>7, <1>8, <1>9, <1>10, <1>11, <1>12 DEF Reader!Next

\* What the invariant says of the page.
LEMMA PageIsTrue ==
    Reader!PageAssumption /\ ReaderInv =>
        Reader!SavesWhatIsShown /\ Reader!SelectsTrue /\ Reader!HoldsNoMore
<1> SUFFICES ASSUME Reader!PageAssumption, ReaderInv
             PROVE  Reader!SavesWhatIsShown /\ Reader!SelectsTrue /\ Reader!HoldsNoMore
  OBVIOUS
<1>1. CASE ~Reader!Working
  BY <1>1 DEF ReaderInv, Rendered, Reader!SavesWhatIsShown, Reader!SelectsTrue, Reader!HoldsNoMore
<1>2. CASE Reader!Working
  <2>1. Works
    BY <1>2 DEF ReaderInv
  <2>2. Reader!Known(shown.choice) <=> KnownIn(shown.choice, store)
    BY DEF Reader!Known, KnownIn
  <2>3. Reader!SelectsTrue
    BY <2>1, <2>2 DEF Reader!SelectsTrue, Works, Drawn, Waits
  <2>4. Reader!HoldsNoMore
    BY <2>1 DEF Reader!HoldsNoMore, Works, Kept, KeptRight, Drawn, Loaded
  <2>5. Reader!SavesWhatIsShown
    BY <2>1 DEF Reader!SavesWhatIsShown, Works, Drawn, Waits, Reader!CanSave
  <2> QED BY <2>3, <2>4, <2>5
<1> QED BY <1>1, <1>2

-----------------------------------------------------------------------------
(* FilterMenus: the two menus, and the filter a save sends.                 *)

\* What is ticked is of the bar, with all its letter-case twins; no tag is
\* ticked under a category that is.
TicksInv ==
    /\ sel \in Bars
    /\ want \subseteq sel.categories /\ store \subseteq Menus!ShownTags(want)
    /\ Menus!WithCatTwins(want) \subseteq want /\ Menus!WithTagTwins(store) \subseteq store

LEMMA OnTheBar ==
    ASSUME Menus!MenusAssumption, sel \in Bars
    PROVE  /\ \A r \in sel.rows : /\ r = <<r[1], r[2]>> /\ r[1] \in sel.categories /\ r[2] # Absent
                                  /\ Menus!Fold(r[2]) # Menus!Fold(NewTag)
           /\ \A c \in sel.categories : Menus!RowsOf(c) # {} /\ Menus!Fold(c) # Menus!Fold(NewCategory)
  BY DEF Menus!MenusAssumption, Menus!RowsOf

\* Setting ticks to categories with all their twins, and to rows of others.
LEMMA TicksStay ==
    ASSUME Menus!MenusAssumption, TicksInv, NEW cats \in SUBSET sel.categories, NEW rows,
           Menus!WithCatTwins(cats) \subseteq cats, rows \subseteq Menus!ShownTags(cats),
           sel' = sel, want' = Menus!WithCatTwins(cats), store' = Menus!WithTagTwins(rows)
    PROVE  TicksInv'
<1>1. sel' = sel /\ want' = Menus!WithCatTwins(cats) /\ store' = Menus!WithTagTwins(rows)
  OBVIOUS
<1>2. Menus!WithCatTwins(cats) = cats
  BY DEF Menus!WithCatTwins, Menus!CatTwins
<1>3. Menus!WithTagTwins(rows) \subseteq Menus!ShownTags(cats)
  <2> SUFFICES ASSUME NEW r \in rows, NEW s \in Menus!TagTwins(r)
               PROVE  s \in Menus!ShownTags(cats)
    BY DEF Menus!WithTagTwins
  <2>1. s \in sel.rows /\ r \in sel.rows /\ r[1] \notin cats
    BY DEF Menus!TagTwins, Menus!ShownTags
  <2>2. Menus!Fold(s[1]) = Menus!Fold(r[1])
    BY DEF Menus!TagTwins, Menus!FoldRow
  <2>3. s[1] \in sel.categories /\ r[1] \in sel.categories
    BY <2>1, OnTheBar DEF TicksInv
  <2>4. s[1] \in cats => r[1] \in cats
    BY <2>2, <2>3 DEF Menus!WithCatTwins, Menus!CatTwins
  <2> QED BY <2>1, <2>4 DEF Menus!ShownTags
<1>4. \A r, s, t \in sel.rows : s \in Menus!TagTwins(r) /\ t \in Menus!TagTwins(s)
                                       => t \in Menus!TagTwins(r)
  BY DEF Menus!TagTwins
<1>5. Menus!WithTagTwins(Menus!WithTagTwins(rows)) \subseteq Menus!WithTagTwins(rows)
  <2> SUFFICES ASSUME NEW r \in rows, NEW s \in Menus!TagTwins(r), NEW t \in Menus!TagTwins(s)
               PROVE  t \in Menus!TagTwins(r)
    BY DEF Menus!WithTagTwins
  <2> QED BY DEF Menus!TagTwins
<1>6. Menus!WithTagTwins(store)' = Menus!WithTagTwins(Menus!WithTagTwins(rows))
  BY <1>1 DEF Menus!WithTagTwins, Menus!TagTwins
<1>7. Menus!WithCatTwins(want)' = Menus!WithCatTwins(cats)
  BY <1>1, <1>2 DEF Menus!WithCatTwins, Menus!CatTwins
<1>8. Menus!ShownTags(want)' = Menus!ShownTags(cats)
  BY <1>1, <1>2 DEF Menus!ShownTags
<1> QED BY <1>1, <1>2, <1>3, <1>5, <1>6, <1>7, <1>8 DEF TicksInv

LEMMA MenuInit == Menus!MenusAssumption /\ Menus!Init => TicksInv
  BY DEF Menus!Init, TicksInv, Menus!ShownTags, Menus!WithCatTwins, Menus!WithTagTwins

LEMMA MenuStep == Menus!MenusAssumption /\ TicksInv /\ [Menus!Next]_(Menus!vars) => TicksInv'
<1> SUFFICES ASSUME Menus!MenusAssumption, TicksInv, [Menus!Next]_(Menus!vars) PROVE TicksInv'
  OBVIOUS
<1> USE DEF TicksInv
<1>1. ASSUME NEW cats \in SUBSET sel.categories, Menus!WithCatTwins(cats) \subseteq cats,
             Menus!SetCategories(cats)
      PROVE  TicksInv'
  <2>1. {r \in store : r[1] \notin cats} \subseteq Menus!ShownTags(cats)
    BY DEF Menus!ShownTags
  <2> QED BY <1>1, <2>1, TicksStay DEF Menus!SetCategories, Menus!SetTicks
<1>2. CASE Menus!AllCategories
  <2>1. {} \in SUBSET sel.categories /\ Menus!WithCatTwins({}) \subseteq {}
    BY DEF Menus!WithCatTwins
  <2>2. sel.categories \in SUBSET sel.categories /\ Menus!WithCatTwins(sel.categories) \subseteq sel.categories
    BY DEF Menus!WithCatTwins, Menus!CatTwins
  <2> QED BY <1>1, <1>2, <2>1, <2>2 DEF Menus!AllCategories
<1>3. CASE \E c \in sel.categories : Menus!Category(c)
  <2> PICK c \in sel.categories : Menus!Category(c)
    BY <1>3
  <2>1. /\ want \ Menus!CatTwins(c) \in SUBSET sel.categories
        /\ Menus!WithCatTwins(want \ Menus!CatTwins(c)) \subseteq want \ Menus!CatTwins(c)
    BY DEF Menus!WithCatTwins, Menus!CatTwins
  <2>2. /\ Menus!WithCatTwins(want \cup {c}) \in SUBSET sel.categories
        /\ Menus!WithCatTwins(Menus!WithCatTwins(want \cup {c})) \subseteq Menus!WithCatTwins(want \cup {c})
    BY DEF Menus!WithCatTwins, Menus!CatTwins
  <2> QED BY <1>1, <2>1, <2>2 DEF Menus!Category
<1>4. CASE Menus!AllTags
  <2>1. \E rows : rows \subseteq Menus!ShownTags(want) /\ Menus!SetTicks(want, rows)
    BY <1>4 DEF Menus!AllTags
  <2> QED BY <2>1, TicksStay DEF Menus!SetTicks
<1>5. CASE \E r \in sel.rows : Menus!Tag(r)
  <2> PICK r \in sel.rows : Menus!Tag(r)
    BY <1>5
  <2>1. \E rows : rows \subseteq Menus!ShownTags(want) /\ Menus!SetTicks(want, rows)
    BY DEF Menus!Tag
  <2> QED BY <2>1, TicksStay DEF Menus!SetTicks
<1>6. CASE Menus!FollowTheNote
  <2> DEFINE cats == Menus!NotedOut(shown)
             rows == Menus!NotedTags(shown)
  <2>1. cats \in SUBSET sel.categories /\ Menus!WithCatTwins(cats) \subseteq cats
    BY DEF Menus!NotedOut, Menus!WithCatTwins, Menus!CatTwins
  <2>2. rows \subseteq Menus!ShownTags(cats)
    BY DEF Menus!NotedTags
  <2>3. sel' = sel /\ want' = Menus!WithCatTwins(cats) /\ store' = Menus!WithTagTwins(rows) /\ shown' = shown
    BY <1>6 DEF Menus!FollowTheNote
  <2> QED BY <2>1, <2>2, <2>3, TicksStay
<1>7. CASE Menus!Save
  BY <1>7 DEF Menus!Save, Menus!WithCatTwins, Menus!CatTwins, Menus!WithTagTwins, Menus!TagTwins,
     Menus!ShownTags
<1>8. CASE UNCHANGED Menus!vars
  BY <1>8 DEF Menus!vars, Menus!WithCatTwins, Menus!CatTwins, Menus!WithTagTwins, Menus!TagTwins,
     Menus!ShownTags
<1> QED BY <1>2, <1>3, <1>4, <1>5, <1>6, <1>7, <1>8 DEF Menus!Next

\* What the button sends leaves out what is ticked.
LEMMA SentIs ==
    ASSUME Menus!MenusAssumption, TicksInv, ~Menus!Split
    PROVE  /\ want \subseteq Menus!SentCategories
           /\ \A c \in sel.categories :
                 (\E d \in Menus!SentCategories : Menus!Fold(d) = Menus!Fold(c)) <=> Menus!WholeByItself(c)
           /\ \A r \in sel.rows : r \in store <=> \E s \in store : Menus!FoldRow(s) = Menus!FoldRow(r)
<1> USE DEF TicksInv
<1>1. \A c \in sel.categories : Menus!WholeByItself(c) => c \in Menus!SentCategories
  BY DEF Menus!Split, Menus!SentCategories
<1>2. \A c \in want : Menus!WholeByItself(c)
  BY DEF Menus!WholeByItself
<1>3. ASSUME NEW c \in sel.categories, NEW d \in Menus!SentCategories, Menus!Fold(d) = Menus!Fold(c)
      PROVE  Menus!WholeByItself(c)
  <2>1. Menus!Whole(d) /\ c \in Menus!CatTwins(d)
    BY <1>3 DEF Menus!SentCategories, Menus!CatTwins
  <2> QED BY <2>1 DEF Menus!Whole
<1>4. ASSUME NEW r \in sel.rows, NEW s \in store, Menus!FoldRow(s) = Menus!FoldRow(r)
      PROVE  r \in store
  BY <1>4 DEF Menus!WithTagTwins, Menus!TagTwins
<1> QED BY <1>1, <1>2, <1>3, <1>4

LEMMA SavedIs == Menus!MenusAssumption /\ TicksInv => Menus!SavedIsShown
<1> SUFFICES ASSUME Menus!MenusAssumption, TicksInv, ~Menus!Blocked,
                    NEW row \in Menus!Filings, NEW listed \in BOOLEAN
             PROVE  Menus!Trades(Menus!Sent, row, listed) =
                        (Menus!ShownKept(row) /\ (listed \/ Menus!Sent = Menus!Everything))
  BY DEF Menus!SavedIsShown
<1>1. ~Menus!Split
  BY DEF Menus!Blocked
<1>2. /\ Menus!Sent.categories = Menus!SentCategories /\ Menus!Sent.plain = {}
      /\ Menus!Sent.tied = Menus!SentTags
      /\ Menus!SentCategories \subseteq sel.categories /\ store \subseteq sel.rows
  BY DEF Menus!Sent, Menus!SentCategories, TicksInv, Menus!ShownTags
<1>3. \A c, t : Menus!Keeps(Menus!Sent, c, t) <=>
         /\ ~\E d \in Menus!SentCategories : Menus!Fold(d) = Menus!Fold(c)
         /\ ~\E s \in Menus!SentTags : Menus!FoldRow(s) = <<Menus!Fold(c), Menus!Fold(t)>>
  BY <1>2 DEF Menus!Keeps
<1>4. ASSUME NEW c \in sel.categories
      PROVE  Menus!WholeByItself(c) <=> ~\E r \in Menus!Atoms : r[1] = c
  BY OnTheBar DEF Menus!WholeByItself, Menus!Atoms, Menus!RowsOf, TicksInv
<1>5. Menus!Keeps(Menus!Sent, row[1], row[2]) <=> Menus!ShownKept(row)
  <2>1. CASE row \in sel.rows
    <3>1. row = <<row[1], row[2]>> /\ row[1] \in sel.categories
      BY <2>1, OnTheBar DEF TicksInv
    <3>2. Menus!ShownKept(row) <=> row[1] \notin want /\ row \notin store
      BY <2>1 DEF Menus!ShownKept, Menus!Atoms
    <3>3. CASE Menus!WholeByItself(row[1])
      <4>1. row[1] \in want \/ row \in store
        BY <2>1, <3>3 DEF Menus!WholeByItself, Menus!RowsOf
      <4>2. ~Menus!Keeps(Menus!Sent, row[1], row[2])
        BY <1>1, <1>3, <3>1, <3>3, SentIs
      <4> QED BY <3>2, <4>1, <4>2
    <3>4. CASE ~Menus!WholeByItself(row[1])
      <4>1. row[1] \notin want /\ ~\E d \in Menus!SentCategories : Menus!Fold(d) = Menus!Fold(row[1])
        BY <1>1, <3>1, <3>4, SentIs DEF Menus!WholeByItself
      <4>2. \A s \in store : Menus!FoldRow(s) = Menus!FoldRow(row) => row \in store
        BY <1>1, <2>1, SentIs
      <4>3. row \in store => row \in Menus!SentTags
        BY <4>1 DEF Menus!SentTags
      <4>4. (\E s \in Menus!SentTags : Menus!FoldRow(s) = Menus!FoldRow(row)) <=> row \in store
        BY <4>2, <4>3 DEF Menus!SentTags
      <4> QED BY <1>3, <3>2, <4>1, <4>4 DEF Menus!FoldRow
    <3> QED BY <3>3, <3>4
  <2>2. CASE row \notin sel.rows
    <3>1. row[1] \in sel.categories \cup {NewCategory} /\ row[2] = NewTag
      BY <2>2 DEF Menus!Filings
    <3>2. ~\E s \in Menus!SentTags : Menus!FoldRow(s) = <<Menus!Fold(row[1]), Menus!Fold(row[2])>>
      <4> SUFFICES ASSUME NEW s \in Menus!SentTags PROVE Menus!FoldRow(s) # <<Menus!Fold(row[1]), Menus!Fold(row[2])>>
        OBVIOUS
      <4>1. Menus!Fold(s[2]) # Menus!Fold(NewTag)
        BY <1>2, OnTheBar DEF Menus!SentTags, TicksInv
      <4> QED BY <3>1, <4>1 DEF Menus!FoldRow
    <3>3. CASE row[1] \in sel.categories
      <4>1. Menus!Keeps(Menus!Sent, row[1], row[2]) <=> ~Menus!WholeByItself(row[1])
        BY <1>1, <1>3, <3>2, <3>3, SentIs
      <4>2. Menus!ShownKept(row) <=> ~Menus!WholeByItself(row[1])
        BY <1>4, <2>2, <3>3 DEF Menus!ShownKept
      <4> QED BY <4>1, <4>2
    <3>4. CASE row[1] \notin sel.categories
      <4>1. row[1] = NewCategory /\ Menus!ShownKept(row)
        BY <2>2, <3>1, <3>4 DEF Menus!ShownKept
      <4>2. ~\E d \in Menus!SentCategories : Menus!Fold(d) = Menus!Fold(row[1])
        BY <1>2, <4>1, OnTheBar DEF TicksInv
      <4> QED BY <1>3, <3>2, <4>1, <4>2
    <3> QED BY <3>3, <3>4
  <2> QED BY <2>1, <2>2
<1>6. CASE Menus!Sent = Menus!Everything
  <2>1. Menus!SentCategories = {} /\ Menus!SentTags = {}
    BY <1>2, <1>6 DEF Menus!Everything
  <2>2. Menus!Keeps(Menus!Sent, row[1], row[2])
    BY <1>3, <2>1
  <2> QED BY <1>5, <1>6, <2>2 DEF Menus!Trades
<1>7. CASE Menus!Sent # Menus!Everything
  BY <1>5, <1>7 DEF Menus!Trades, Menus!TradesByGuess
<1> QED BY <1>6, <1>7

LEMMA NoteIs == Menus!MenusAssumption /\ TicksInv => Menus!NoteShowsTheFilter
<1> SUFFICES ASSUME Menus!MenusAssumption, TicksInv, want = Menus!WithCatTwins(Menus!NotedOut(shown)),
                    store = Menus!WithTagTwins(Menus!NotedTags(shown)), NEW row \in sel.rows
             PROVE  (row \in Menus!Atoms) = Menus!Keeps(shown, row[1], row[2])
  BY DEF Menus!NoteShowsTheFilter
<1>1. /\ row = <<row[1], row[2]>> /\ row[1] \in sel.categories /\ row[2] # Absent
      /\ row \in Menus!RowsOf(row[1])
  BY OnTheBar DEF TicksInv, Menus!RowsOf
<1>2. want = Menus!NotedOut(shown)
  BY DEF Menus!NotedOut, Menus!WithCatTwins, Menus!CatTwins
<1>3. ASSUME Menus!Keeps(shown, row[1], row[2]) PROVE row \in Menus!Atoms
  <2>1. Menus!Kept(shown, row) /\ row \in Menus!RowsNamed(row[1]) /\ row[1] \in Menus!CatTwins(row[1])
    BY <1>1, <1>3 DEF Menus!Kept, Menus!RowsNamed, Menus!CatTwins
  <2>2. row[1] \notin want
    BY <1>2, <2>1 DEF Menus!NotedOut
  <2>3. row \notin store
    <3> SUFFICES ASSUME NEW r \in Menus!NotedTags(shown), row \in Menus!TagTwins(r) PROVE FALSE
      BY DEF Menus!WithTagTwins
    <3>1. r \in sel.rows /\ ~Menus!Kept(shown, r)
      BY DEF Menus!NotedTags, Menus!ShownTags
    <3>2. Menus!Fold(r[1]) = Menus!Fold(row[1]) /\ Menus!Fold(r[2]) = Menus!Fold(row[2]) /\ Menus!FoldRow(r) = Menus!FoldRow(row)
      BY DEF Menus!TagTwins, Menus!FoldRow
    <3>3. r[2] # Absent
      BY <3>1, OnTheBar DEF TicksInv
    <3> QED BY <1>3, <3>1, <3>2, <3>3 DEF Menus!Kept, Menus!Keeps
  <2> QED BY <2>2, <2>3 DEF Menus!Atoms
<1>4. ASSUME ~Menus!Keeps(shown, row[1], row[2]), row[1] \notin want PROVE row \in store
  <2>1. row \in Menus!NotedTags(shown)
    BY <1>1, <1>2, <1>4 DEF Menus!NotedTags, Menus!ShownTags, Menus!Kept
  <2> QED BY <2>1 DEF Menus!WithTagTwins, Menus!TagTwins
<1>5. Menus!Keeps(shown, row[1], row[2]) \in BOOLEAN /\ (row \in Menus!Atoms) \in BOOLEAN
  BY DEF Menus!Keeps
<1> QED BY <1>3, <1>4, <1>5 DEF Menus!Atoms

-----------------------------------------------------------------------------
(* The two, side by side.                                                   *)

PagesInv ==
    /\ part \in {"page", "menus"}
    /\ part = "page" => ReaderInv
    /\ part = "menus" => TicksInv

LEMMA PagesInitInv == PagesInit => PagesInv
  BY ReaderInit, MenuInit, PageAssumption, MenusAssumption DEF PagesInit, PagesInv

LEMMA PagesStep == PagesInv /\ [PagesNext]_<<part, sel, shown, want, store, bar>> => PagesInv'
<1> SUFFICES ASSUME PagesInv, [PagesNext]_<<part, sel, shown, want, store, bar>> PROVE PagesInv'
  OBVIOUS
<1>1. PagesNext => \/ In("page") /\ Reader!Next
                   \/ In("menus") /\ Menus!Next
  BY DEF PagesNext, Reader!Next, Menus!Next
<1>2. CASE In("page") /\ Reader!Next
  BY <1>2, ReaderStep, PageAssumption DEF In, PagesInv
<1>3. CASE In("menus") /\ Menus!Next
  BY <1>3, MenuStep, MenusAssumption DEF In, PagesInv
<1>4. CASE UNCHANGED <<part, sel, shown, want, store, bar>>
  <2>1. [Reader!Next]_(Reader!vars) /\ [Menus!Next]_(Menus!vars) /\ part' = part
    BY <1>4 DEF Reader!vars, Menus!vars
  <2> QED BY <2>1, ReaderStep, MenuStep, PageAssumption, MenusAssumption DEF PagesInv
<1> QED BY <1>1, <1>2, <1>3, <1>4

\* The save button is open only on what is on screen, the page holds no more
\* than it should, and a saved filter trades what the page shows kept.
THEOREM PageSavesWhatIsShown == PagesSpec => []SavesWhatIsShown
<1>1. PagesInv => SavesWhatIsShown
  BY PageIsTrue, SavedIs, NoteIs, PageAssumption, MenusAssumption DEF PagesInv, SavesWhatIsShown
<1> QED BY <1>1, PagesInitInv, PagesStep, PTL DEF PagesSpec

=============================================================================
