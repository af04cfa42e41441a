-------------------------- MODULE Scheduler_proofs --------------------------
(* Proofs about Scheduler, for any length of the week, any cap on retries and  *)
(* any number of kills, faults and sleeps.                                     *)
EXTENDS Scheduler, TLAPS

Typed ==
    /\ now \in 1 .. Horizon
    /\ daemon \in {"down", "starting", "idle", "running", "asleep"}
    /\ run \in [kind : Kinds \cup {"none"}, slot : Slots, retries : 0 .. MaxRetries, began : Nat]
    /\ file \in [slot : Slots \cup {-1}, exit : {"none", "blind", "done"}, retries : 0 .. MaxRetries]
    /\ weekly \in Nat
    /\ retry \in SUBSET [due : Nat, retries : 1 .. MaxRetries, for : Slots]
    /\ runs \in [Slots -> Nat] /\ retried \in [Slots -> Nat]
    /\ strayed \in SUBSET Slots

\* What is counted is what is recorded: no slot after the recorded one has had a
\* run, and the recorded one had as many retries as the file says.
Recorded ==
    /\ file.slot <= Slot(now)
    /\ \A s \in Slots : s > file.slot => runs[s] = 0 /\ retried[s] = 0
    /\ \A s \in Slots \ strayed :
          /\ runs[s] <= 1 /\ retried[s] <= MaxRetries
          /\ s = file.slot => /\ retried[s] = file.retries
                              /\ file.exit = "blind" => runs[s] = 0

\* A run that is going on has claimed its slot, and counts.
Running ==
    /\ daemon = "running" <=> run.kind # "none"
    /\ run.kind = "none" => run = NoRun
    /\ daemon = "running" => /\ file.slot = run.slot /\ file.retries = run.retries
                             /\ runs[run.slot] >= 1 /\ file.exit = "none"

\* A registered retry is the only one of its slot, which has no run; it comes next
\* in number, and before the slot's end.
Registered ==
    /\ daemon \in {"down", "starting"} => retry = {}
    /\ \A r \in retry : r.for <= file.slot
    /\ \A r \in retry : r.for \notin strayed =>
          /\ runs[r.for] = 0 /\ retried[r.for] = r.retries - 1
          /\ r.for < Slot(weekly)
          /\ \A q \in retry : q.for = r.for => q = r

\* The weekly job is due after the recorded slot, unless a retry strayed there.
WeeklyLater ==
    daemon \in {"idle", "asleep"} \/ run.kind = "retry"
        => file.slot < Slot(weekly) \/ file.slot \in strayed

SchedIInv == Typed /\ Recorded /\ Running /\ Registered /\ WeeklyLater

-----------------------------------------------------------------------------
(* Slots of time.                                                              *)

\* Time is cut into slots of one length.
LEMMA SlotBounds ==
    ASSUME NEW t \in Nat
    PROVE  Slot(t) \in Nat /\ Week * Slot(t) <= t /\ t < Week * (Slot(t) + 1)
BY SchedulerAssumption DEF Slot

\* A later time is in no earlier slot.
LEMMA SlotsInOrder ==
    ASSUME NEW t \in Nat, NEW u \in Nat, t <= u
    PROVE  Slot(t) <= Slot(u)
<1> DEFINE a == Slot(t)
           b == Slot(u)
<1>1. a \in Nat /\ b \in Nat /\ Week \in Nat /\ Week >= 1
  BY SlotBounds, SchedulerAssumption
<1>2. Week * a <= t /\ u < Week * (b + 1)
  BY SlotBounds
<1> HIDE DEF a, b
<1>3. ASSUME b + 1 <= a PROVE FALSE
  <2>1. PICK d \in Nat : a = b + 1 + d
    <3>1. a - (b + 1) \in Nat
      BY <1>1, <1>3
    <3>2. a = b + 1 + (a - (b + 1))
      BY <1>1
    <3> QED BY <3>1, <3>2
  <2>2. Week * a = Week * (b + 1) + Week * d
    BY <1>1, <2>1
  <2>3. Week * d \in Nat /\ Week * (b + 1) \in Nat
    BY <1>1
  <2> QED BY <1>2, <2>2, <2>3
<1>4. a <= b
  BY <1>1, <1>3
<1> QED BY <1>4 DEF a, b

\* The weekly job is due at the beginning of the next slot.
LEMMA FiresNext ==
    ASSUME NEW t \in Nat
    PROVE  NextFire(t) \in Nat /\ Slot(NextFire(t)) = Slot(t) + 1
<1> DEFINE n == Slot(t) + 1
           u == NextFire(t)
<1>1. n \in Nat /\ Week \in Nat /\ Week >= 1 /\ u = n * Week
  BY SlotBounds, SchedulerAssumption DEF NextFire
<1>2. u \in Nat
  BY <1>1
<1>3. Slot(u) = n
  <2> HIDE DEF n
  <2> QED BY <1>1, <1>2 DEF Slot
<1> QED BY <1>2, <1>3

\* The clock is in some slot.
LEMMA NowInSlots == ASSUME Typed PROVE Slot(now) \in Slots /\ Slot(now) \in Nat /\ now \in Nat
<1>1. now \in Nat /\ Horizon \in Nat /\ now <= Horizon
  BY SchedulerAssumption DEF Typed
<1> QED BY <1>1, SlotBounds, SlotsInOrder DEF Slots

-----------------------------------------------------------------------------
(* The initial state, and how a job's return leaves the weekly job.            *)

\* Nothing is recorded, and nothing has run.
LEMMA InitInv == Init => SchedIInv
<1> SUFFICES ASSUME Init PROVE SchedIInv
  OBVIOUS
<1> USE SchedulerAssumption
<1>1. now \in 1 .. Horizon
  BY DEF Init
<1>2. 0 \in Slots
  BY SlotBounds DEF Slots
<1>3. Typed
  <2>1. run \in [kind : Kinds \cup {"none"}, slot : Slots, retries : 0 .. MaxRetries, began : Nat]
    BY <1>2 DEF Init, NoRun
  <2>2. file \in [slot : Slots \cup {-1}, exit : {"none", "blind", "done"}, retries : 0 .. MaxRetries]
    BY DEF Init, NoFile
  <2> QED BY <1>1, <2>1, <2>2 DEF Init, Typed
<1>4. Recorded
  <2>1. Slot(now) \in Nat
    BY <1>3, NowInSlots
  <2>2. \A s \in Slots : s # -1
    BY DEF Slots
  <2> QED BY <2>1, <2>2 DEF Init, Recorded, NoFile
<1>5. Running /\ Registered /\ WeeklyLater
  BY DEF Init, Running, Registered, WeeklyLater, NoRun
<1> QED BY <1>3, <1>4, <1>5 DEF SchedIInv

\* When a job returns, the weekly job is due after the recorded slot.
LEMMA ReturnsLater ==
    ASSUME SchedIInv, NEW kind \in Kinds, JobReturns(kind),
           kind = "retry" => daemon \in {"idle", "asleep"} \/ run.kind = "retry"
    PROVE  /\ weekly' \in Nat /\ run' = NoRun /\ daemon' = "idle"
           /\ file.slot < Slot(weekly') \/ file.slot \in strayed
           /\ \A r \in retry : r.for \notin strayed => r.for < Slot(weekly')
<1>i. Typed /\ Recorded /\ Registered /\ WeeklyLater
  BY DEF SchedIInv
<1>1. CASE kind = "retry"
  BY <1>1, <1>i DEF JobReturns, Typed, Registered, WeeklyLater
<1>2. CASE kind # "retry"
  <2>1. weekly' = NextFire(now) /\ now \in Nat /\ Slot(now) \in Nat
    BY <1>i, <1>2, NowInSlots DEF JobReturns
  <2>2. weekly' \in Nat /\ Slot(weekly') = Slot(now) + 1
    BY <2>1, FiresNext
  <2>3. file.slot \in Int /\ file.slot <= Slot(now)
    BY <1>i DEF Typed, Recorded, Slots
  <2>4. \A r \in retry : r.for \in Int /\ r.for <= file.slot
    BY <1>i DEF Typed, Registered, Slots
  <2> QED BY <2>1, <2>2, <2>3, <2>4 DEF JobReturns
<1> QED BY <1>1, <1>2

-----------------------------------------------------------------------------
(* A run is started, or its claim cannot be written.                           *)

\* The slot a run claims, and what must be known of it.
Fresh(k, s) == runs[s] = 0 /\ retried[s] = (IF k = 0 THEN 0 ELSE k - 1)

\* A job that starts a run of a fresh slot, or of one strayed into, keeps the invariant.
LEMMA StartKeeps ==
    ASSUME SchedIInv, NEW kind \in Kinds, NEW k \in 0 .. MaxRetries, StartRun(kind, k),
           daemon # "running", UNCHANGED now,
           retry' \subseteq retry, strayed \subseteq strayed', strayed' \subseteq strayed \cup {Slot(now)},
           Slot(now) \in strayed' \/ Fresh(k, Slot(now)),
           \A r \in retry' : r.for \notin strayed' => r.for # Slot(now),
           kind = "retry" => /\ daemon = "idle"
                             /\ Slot(now) < Slot(weekly) \/ Slot(now) \in strayed'
    PROVE  SchedIInv'
<1> DEFINE c == Slot(now)
<1>i. Typed /\ Recorded /\ Running /\ Registered /\ WeeklyLater
  BY DEF SchedIInv
<1>c. c \in Slots /\ c \in Nat /\ now \in Nat
  BY <1>i, NowInSlots
<1>s. Slots \subseteq Nat /\ file.slot \in Int
  BY <1>i DEF Typed, Slots
<1>t. strayed' \in SUBSET Slots /\ retry' \in SUBSET [due : Nat, retries : 1 .. MaxRetries, for : Slots]
  BY <1>c, <1>i DEF Typed
<1> HIDE DEF c
<1>1. CASE JobReturns(kind) /\ UNCHANGED <<file, runs, retried>>
  <2>1. /\ weekly' \in Nat /\ run' = NoRun /\ daemon' = "idle"
        /\ file.slot < Slot(weekly') \/ file.slot \in strayed
        /\ \A r \in retry : r.for \notin strayed => r.for < Slot(weekly')
    BY <1>1, ReturnsLater
  <2>2. run' \in [kind : Kinds \cup {"none"}, slot : Slots, retries : 0 .. MaxRetries, began : Nat]
    BY <2>1, SlotBounds, SchedulerAssumption DEF NoRun, Slots
  <2>3. Typed'
    BY <1>1, <1>i, <1>t, <2>1, <2>2 DEF Typed
  <2>4. Recorded'
    BY <1>1, <1>i DEF Recorded
  <2>5. Running'
    BY <2>1 DEF Running, NoRun
  <2>6. Registered'
    BY <1>1, <1>i, <2>1 DEF Registered
  <2>7. WeeklyLater'
    BY <1>1, <2>1 DEF WeeklyLater
  <2> QED BY <2>3, <2>4, <2>5, <2>6, <2>7 DEF SchedIInv
<1>2. CASE /\ daemon' = "running"
           /\ run' = [kind |-> kind, slot |-> c, retries |-> k, began |-> now]
           /\ file' = Claim(k)
           /\ runs' = [runs EXCEPT ![c] = @ + 1]
           /\ retried' = [retried EXCEPT ![c] = IF k = 0 THEN @ ELSE @ + 1]
           /\ UNCHANGED weekly
  <2>1. file' = [slot |-> c, exit |-> "none", retries |-> k]
    BY <1>2 DEF Claim, SaveState, c
  <2>2. runs \in [Slots -> Nat] /\ retried \in [Slots -> Nat]
    BY <1>i DEF Typed
  <2>3. /\ runs'[c] = runs[c] + 1 /\ retried'[c] = IF k = 0 THEN retried[c] ELSE retried[c] + 1
        /\ \A s \in Slots : s # c => runs'[s] = runs[s] /\ retried'[s] = retried[s]
    BY <1>2, <1>c, <2>2
  <2>4. runs' \in [Slots -> Nat] /\ retried' \in [Slots -> Nat]
    BY <1>2, <1>c, <2>2
  <2>5. Typed'
    <3>1. run' \in [kind : Kinds \cup {"none"}, slot : Slots, retries : 0 .. MaxRetries, began : Nat]
      BY <1>2, <1>c
    <3>2. file' \in [slot : Slots \cup {-1}, exit : {"none", "blind", "done"}, retries : 0 .. MaxRetries]
      BY <1>c, <2>1
    <3> QED BY <1>2, <1>i, <1>t, <2>4, <3>1, <3>2 DEF Typed
  <2>6. file.slot <= c /\ Slot(now') = c
    BY <1>i DEF Recorded, c
  <2>7. Recorded'
    <3>1. file'.slot <= Slot(now')
      BY <1>c, <2>1, <2>6
    <3>2. ASSUME NEW s \in Slots, s > c PROVE runs'[s] = 0 /\ retried'[s] = 0
      <4>1. s > file.slot /\ s # c
        BY <1>c, <1>s, <2>6, <3>2
      <4> QED BY <1>i, <2>3, <4>1 DEF Recorded
    <3>3. ASSUME NEW s \in Slots \ strayed', s # c
          PROVE  runs'[s] <= 1 /\ retried'[s] <= MaxRetries
      BY <1>i, <2>3, <3>3 DEF Recorded
    <3>4. c \notin strayed' => runs'[c] = 1 /\ retried'[c] = k
      BY <1>c, <2>2, <2>3 DEF Fresh, c
    <3>5. k \in Nat /\ k <= MaxRetries
      BY SchedulerAssumption
    <3>6. ASSUME NEW s \in Slots \ strayed'
          PROVE  /\ runs'[s] <= 1 /\ retried'[s] <= MaxRetries
                 /\ s = file'.slot => /\ retried'[s] = file'.retries
                                      /\ file'.exit = "blind" => runs'[s] = 0
      BY <2>1, <3>3, <3>4, <3>5
    <3> QED BY <2>1, <3>1, <3>2, <3>6 DEF Recorded
  <2>8. Running'
    <3>1. file'.slot = c /\ file'.exit = "none" /\ file'.retries = k
      BY <2>1
    <3>2. run'.kind = kind /\ run'.slot = c /\ run'.retries = k /\ kind # "none"
      BY <1>2 DEF Kinds
    <3>3. runs'[c] >= 1
      BY <1>c, <2>2, <2>3
    <3> QED BY <1>2, <3>1, <3>2, <3>3 DEF Running
  <2>9. Registered'
    <3>1. \A r \in retry' : r.for \in Slots /\ r.for <= file.slot
      BY <1>i DEF Typed, Registered
    <3>2. \A r \in retry' : r.for <= file'.slot
      <4>1. file'.slot = c
        BY <2>1
      <4>2. ASSUME NEW r \in retry' PROVE r.for <= c
        <5>1. r.for \in Nat /\ r.for <= file.slot
          BY <1>s, <3>1
        <5> QED BY <1>c, <1>s, <2>6, <5>1
      <4> QED BY <4>1, <4>2
    <3>3. ASSUME NEW r \in retry', r.for \notin strayed'
          PROVE  /\ runs'[r.for] = 0 /\ retried'[r.for] = r.retries - 1
                 /\ r.for < Slot(weekly')
                 /\ \A q \in retry' : q.for = r.for => q = r
      <4>1. r.for # c
        BY <3>3 DEF c
      <4>2. r.for \notin strayed /\ r \in retry
        BY <3>3
      <4> QED BY <1>2, <1>i, <2>3, <3>1, <4>1, <4>2 DEF Registered
    <3> QED BY <1>2, <3>2, <3>3 DEF Registered
  <2>10. WeeklyLater'
    BY <1>2, <2>1 DEF WeeklyLater, c
  <2> QED BY <2>5, <2>7, <2>8, <2>9, <2>10 DEF SchedIInv
<1> QED BY <1>1, <1>2 DEF StartRun, c

\* A restarted daemon catches up on a slot without a run, or on one that was blind.
LEMMA CatchUpKeeps == ASSUME SchedIInv, CatchUp PROVE SchedIInv'
<1>i. Typed /\ Recorded /\ Registered
  BY DEF SchedIInv
<1>c. Slot(now) \in Slots /\ Slot(now) \in Nat
  BY <1>i, NowInSlots
<1>1. daemon = "starting" /\ retry = {} /\ UNCHANGED <<now, retry, strayed>>
  BY <1>i DEF CatchUp, Registered
<1>2. CatchUpCount \in 0 .. MaxRetries /\ StartRun("catch up", CatchUpCount)
  <2>1. file.retries \in 0 .. MaxRetries /\ MaxRetries \in Nat
    BY <1>i, SchedulerAssumption DEF Typed
  <2>2. CASE Stale
    <3>1. CatchUpCount = 0
      BY <2>2 DEF CatchUpCount
    <3>2. CatchUpCount \in 0 .. MaxRetries
      BY <2>1, <3>1
    <3> QED BY <3>2 DEF CatchUp
  <2>3. CASE ~Stale
    <3>1. file.retries < MaxRetries /\ CatchUpCount = file.retries + 1
      BY <2>3 DEF CatchUp, CatchUpCount, Blind
    <3>2. CatchUpCount \in 0 .. MaxRetries
      <4> HIDE DEF CatchUpCount
      <4> QED BY <2>1, <3>1
    <3> QED BY <3>2 DEF CatchUp
  <2> QED BY <2>2, <2>3
<1>3. Slot(now) \in strayed' \/ Fresh(CatchUpCount, Slot(now))
  <2>1. CASE Stale
    BY <1>c, <1>i, <2>1 DEF Stale, Recorded, Fresh, CatchUpCount
  <2>2. CASE ~Stale
    <3>1. file.slot = Slot(now)
      BY <1>c, <1>i, <2>2 DEF Stale, Recorded, Typed, Slots
    <3>2. file.exit = "blind" /\ CatchUpCount = file.retries + 1
      BY <2>2 DEF CatchUp, Blind, CatchUpCount
    <3>r. file.retries \in 0 .. MaxRetries
      BY <1>i DEF Typed
    <3>3. CASE Slot(now) \notin strayed
      <4>1. runs[Slot(now)] = 0 /\ retried[Slot(now)] = file.retries
        BY <1>c, <1>i, <3>1, <3>2, <3>3 DEF Recorded
      <4>2. CatchUpCount # 0 /\ CatchUpCount - 1 = file.retries
        BY <3>2, <3>r, SchedulerAssumption
      <4> QED BY <4>1, <4>2 DEF Fresh
    <3> QED BY <1>1, <3>3
  <2> QED BY <2>1, <2>2
<1> QED BY <1>1, <1>2, <1>3, StartKeeps DEF Kinds

\* The weekly job comes to a slot without a run, or one a retry strayed into.
LEMMA FireWeeklyKeeps == ASSUME SchedIInv, FireWeekly PROVE SchedIInv'
<1>i. Typed /\ Recorded /\ Registered /\ WeeklyLater
  BY DEF SchedIInv
<1>c. Slot(now) \in Slots /\ Slot(now) \in Nat /\ now \in Nat /\ MaxRetries \in Nat
  BY <1>i, NowInSlots, SchedulerAssumption
<1>1. daemon = "idle" /\ StartRun("weekly", 0) /\ UNCHANGED <<now, retry, strayed>>
  BY DEF FireWeekly
<1>2. Slot(weekly) <= Slot(now) /\ Slot(weekly) \in Nat
  BY <1>c, <1>i, SlotsInOrder, SlotBounds DEF FireWeekly, WeeklyDue, Typed
<1>3. file.slot \in Int /\ file.slot <= Slot(now)
  BY <1>i DEF Typed, Slots, Recorded
<1>4. file.slot < Slot(now) \/ Slot(now) \in strayed
  BY <1>1, <1>2, <1>3, <1>c, <1>i DEF WeeklyLater
<1>5. Slot(now) \in strayed' \/ Fresh(0, Slot(now))
  BY <1>1, <1>4, <1>c, <1>i DEF Recorded, Fresh
<1>6. \A r \in retry' : r.for \notin strayed' => r.for # Slot(now)
  <2>1. \A r \in retry : r.for \in Int /\ r.for <= file.slot
    BY <1>i DEF Typed, Slots, Registered
  <2> SUFFICES ASSUME NEW r \in retry', r.for = Slot(now) PROVE r.for \in strayed'
    OBVIOUS
  <2>2. r.for \in Int /\ r.for <= file.slot
    BY <1>1, <2>1
  <2>3. ~(file.slot < Slot(now))
    BY <1>3, <1>c, <2>2
  <2> QED BY <1>1, <1>4, <2>3
<1>7. /\ 0 \in 0 .. MaxRetries /\ "weekly" \in Kinds /\ daemon # "running"
      /\ retry' \subseteq retry /\ strayed \subseteq strayed'
      /\ strayed' \subseteq strayed \cup {Slot(now)}
  BY <1>1, <1>c DEF Kinds
<1> QED BY <1>1, <1>5, <1>6, <1>7, StartKeeps

\* A retry comes to the blind slot it was registered for, or strays.
LEMMA FireRetryKeeps == ASSUME SchedIInv, NEW r \in retry, FireRetry(r) PROVE SchedIInv'
<1>i. Typed /\ Recorded /\ Registered
  BY DEF SchedIInv
<1>c. Slot(now) \in Slots
  BY <1>i, NowInSlots
<1>1. /\ daemon = "idle" /\ StartRun("retry", r.retries) /\ UNCHANGED now
      /\ retry' = retry \ {r} /\ strayed' = strayed \cup ({Slot(now)} \ {r.for})
  BY DEF FireRetry
<1>2. r.retries \in 1 .. MaxRetries /\ r.retries \in 0 .. MaxRetries
  BY <1>i, SchedulerAssumption DEF Typed
<1>3. CASE Slot(now) \in strayed'
  BY <1>1, <1>2, <1>3, StartKeeps DEF Kinds
<1>4. CASE Slot(now) \notin strayed'
  <2>1. Slot(now) = r.for /\ r.for \notin strayed
    BY <1>1, <1>4
  <2>2. /\ runs[r.for] = 0 /\ retried[r.for] = r.retries - 1 /\ r.for < Slot(weekly)
        /\ \A q \in retry : q.for = r.for => q = r
    BY <1>i, <2>1 DEF Registered
  <2>3. Fresh(r.retries, Slot(now))
    BY <1>2, <2>1, <2>2 DEF Fresh
  <2>4. \A q \in retry' : q.for # Slot(now)
    BY <1>1, <2>1, <2>2
  <2> QED BY <1>1, <1>2, <2>1, <2>2, <2>3, <2>4, StartKeeps DEF Kinds
<1> QED BY <1>3, <1>4

-----------------------------------------------------------------------------
(* A run ends.                                                                 *)

\* A run that raises leaves its claim as the record.
LEMMA RunRaisesKeeps == ASSUME SchedIInv, RunRaises PROVE SchedIInv'
<1>i. Typed /\ Recorded /\ Running /\ Registered
  BY DEF SchedIInv
<1>1. daemon = "running" /\ JobReturns(run.kind) /\ UNCHANGED <<now, file, retry, runs, retried, strayed>>
  BY DEF RunRaises
<1>2. run.kind \in Kinds
  BY <1>1, <1>i DEF Running, Typed
<1>3. /\ weekly' \in Nat /\ run' = NoRun /\ daemon' = "idle"
      /\ file.slot < Slot(weekly') \/ file.slot \in strayed
      /\ \A r \in retry : r.for \notin strayed => r.for < Slot(weekly')
  BY <1>1, <1>2, ReturnsLater
<1>4. Typed'
  <2>1. run' \in [kind : Kinds \cup {"none"}, slot : Slots, retries : 0 .. MaxRetries, began : Nat]
    BY <1>3, SlotBounds, SchedulerAssumption DEF NoRun, Slots
  <2> QED BY <1>1, <1>3, <1>i, <2>1 DEF Typed
<1>5. Recorded'
  BY <1>1, <1>i DEF Recorded
<1>6. Running'
  BY <1>3 DEF Running, NoRun
<1>7. Registered'
  BY <1>1, <1>3, <1>i DEF Registered
<1>8. WeeklyLater'
  BY <1>1, <1>3 DEF WeeklyLater
<1> QED BY <1>4, <1>5, <1>6, <1>7, <1>8 DEF SchedIInv

\* A run that ends blind counts no longer, and registers the next retry below the cap.
LEMMA RunEndsKeeps ==
    ASSUME SchedIInv, NEW outcome \in {"blind", "none", "done"}, NEW written \in BOOLEAN,
           RunEnds(outcome, written)
    PROVE  SchedIInv'
<1> DEFINE s == run.slot
<1>i. Typed /\ Recorded /\ Running /\ Registered
  BY DEF SchedIInv
<1>0. daemon = "running" /\ JobReturns(run.kind) /\ UNCHANGED <<now, retried, strayed>>
  BY DEF RunEnds
<1>1. /\ run.kind \in Kinds /\ s \in Slots /\ run.retries \in 0 .. MaxRetries
      /\ file.slot = s /\ file.retries = run.retries /\ file.exit = "none" /\ runs[s] \in Nat /\ runs[s] >= 1
  BY <1>0, <1>i DEF Running, Typed
<1>2. /\ weekly' \in Nat /\ run' = NoRun /\ daemon' = "idle"
      /\ s < Slot(weekly') \/ s \in strayed
      /\ \A r \in retry : r.for \notin strayed => r.for < Slot(weekly')
  BY <1>0, <1>1, ReturnsLater
<1>3. file'.slot = s /\ file'.retries = run.retries /\ file'.exit \in {"none", outcome}
      /\ file' \in [slot : Slots \cup {-1}, exit : {"none", "blind", "done"}, retries : 0 .. MaxRetries]
  <2>1. CASE written
    <3>1. file' = [slot |-> s, exit |-> outcome, retries |-> run.retries]
      BY <2>1 DEF RunEnds, SaveState
    <3> QED BY <1>1, <3>1
  <2>2. CASE ~written
    BY <1>1, <1>i, <2>2 DEF RunEnds, Typed
  <2> QED BY <2>1, <2>2
<1>4. runs' = IF outcome = "blind" THEN [runs EXCEPT ![s] = @ - 1] ELSE runs
  BY DEF RunEnds
<1>5. /\ runs' \in [Slots -> Nat]
      /\ outcome = "blind" => runs'[s] = runs[s] - 1
      /\ outcome # "blind" => runs'[s] = runs[s]
      /\ \A u \in Slots : u # s => runs'[u] = runs[u]
  <2>1. runs \in [Slots -> Nat]
    BY <1>i DEF Typed
  <2> HIDE DEF s
  <2> QED BY <1>1, <1>4, <2>1
<1> DEFINE new == [due |-> now + 1, retries |-> run.retries + 1, for |-> s]
<1>6. /\ \A r \in retry' : r \in retry \/ (r = new /\ outcome = "blind")
      /\ new.for = s /\ new.retries = run.retries + 1
      /\ retry' \in SUBSET [due : Nat, retries : 1 .. MaxRetries, for : Slots]
  <2>1. now \in Nat
    BY <1>i, NowInSlots
  <2>2. run.retries < MaxRetries => run.retries + 1 \in 1 .. MaxRetries
    BY <1>1, SchedulerAssumption
  <2>3. run.retries < MaxRetries => new \in [due : Nat, retries : 1 .. MaxRetries, for : Slots]
    BY <1>1, <2>1, <2>2
  <2>4. retry' = retry \/ (retry' = retry \cup {new} /\ outcome = "blind" /\ run.retries < MaxRetries)
    BY DEF RunEnds, RetryAfter
  <2>5. new.for = s /\ new.retries = run.retries + 1
    OBVIOUS
  <2>6. retry \in SUBSET [due : Nat, retries : 1 .. MaxRetries, for : Slots]
    BY <1>i DEF Typed
  <2> HIDE DEF new, s
  <2> QED BY <2>3, <2>4, <2>5, <2>6
<1>n. s \in Nat /\ run.retries \in Nat
  BY <1>1, SchedulerAssumption DEF Slots
<1>k. run.kind = "retry" \/ run.kind # "retry"
  OBVIOUS
<1> HIDE DEF s, new
<1>7. Typed'
  <2>1. run' \in [kind : Kinds \cup {"none"}, slot : Slots, retries : 0 .. MaxRetries, began : Nat]
    BY <1>2, SlotBounds, SchedulerAssumption DEF NoRun, Slots
  <2> QED BY <1>0, <1>2, <1>3, <1>5, <1>6, <1>i, <2>1 DEF Typed
<1>8. Recorded'
  <2>1. ASSUME NEW u \in Slots, u > s PROVE runs'[u] = 0 /\ retried[u] = 0
    BY <1>1, <1>5, <1>i, <1>n, <2>1 DEF Recorded, Slots
  <2>2. ASSUME NEW u \in Slots \ strayed
        PROVE  runs'[u] <= 1 /\ retried[u] <= MaxRetries /\ (u = s => retried[u] = run.retries)
    BY <1>1, <1>5, <1>i DEF Recorded
  <2>3. s \notin strayed /\ file'.exit = "blind" => runs'[s] = 0
    <3>1. s \notin strayed => runs[s] <= 1
      BY <1>1, <1>i DEF Recorded
    <3> QED BY <1>1, <1>3, <1>5, <3>1
  <2>4. file'.slot <= Slot(now')
    BY <1>0, <1>1, <1>3, <1>i DEF Recorded
  <2> QED BY <1>0, <1>3, <2>1, <2>2, <2>3, <2>4 DEF Recorded
<1>9. Running'
  BY <1>2 DEF Running, NoRun
<1>10. Registered'
  <2>1. \A r \in retry : r.for \in Slots /\ r.for <= s
    BY <1>1, <1>i DEF Registered, Typed
  <2>2. \A r \in retry' : r.for <= file'.slot
    <3>1. ASSUME NEW r \in retry' PROVE r.for <= s
      BY <1>6, <1>n, <2>1
    <3> QED BY <1>3, <3>1
  <2>3. \A r \in retry : r.for = s => s \in strayed
    BY <1>1, <1>i DEF Registered
  <2>4. ASSUME NEW r \in retry', r.for \notin strayed
        PROVE  /\ runs'[r.for] = 0 /\ retried[r.for] = r.retries - 1
               /\ r.for < Slot(weekly')
               /\ \A q \in retry' : q.for = r.for => q = r
    <3>1. CASE r \in retry
      <4>1. r.for # s /\ r.for \in Slots
        BY <2>1, <2>3, <2>4, <3>1
      <4>2. runs'[r.for] = 0 /\ retried[r.for] = r.retries - 1 /\ r.for < Slot(weekly')
        BY <1>2, <1>5, <1>i, <2>4, <3>1, <4>1 DEF Registered
      <4>3. \A q \in retry' : q.for = r.for => q \in retry
        BY <1>6, <4>1
      <4> QED BY <1>i, <2>4, <3>1, <4>2, <4>3 DEF Registered
    <3>2. CASE r \notin retry
      <4>1. outcome = "blind" /\ r = new
        BY <1>6, <3>2
      <4>2. r.for = s /\ r.retries = run.retries + 1
        BY <1>6, <4>1
      <4>3. runs'[s] = 0
        <5>1. runs[s] <= 1
          BY <1>1, <1>i, <2>4, <4>2 DEF Recorded
        <5> QED BY <1>1, <1>5, <4>1, <5>1
      <4>4. retried[s] = run.retries
        BY <1>1, <1>i, <2>4, <4>2 DEF Recorded
      <4>5. \A q \in retry' : q.for = s => q = r
        BY <1>6, <2>3, <2>4, <4>1, <4>2
      <4> QED BY <1>2, <1>n, <2>4, <4>2, <4>3, <4>4, <4>5
    <3> QED BY <3>1, <3>2
  <2> QED BY <1>0, <1>2, <2>2, <2>4 DEF Registered
<1>11. WeeklyLater'
  BY <1>0, <1>2, <1>3 DEF WeeklyLater
<1> QED BY <1>7, <1>8, <1>9, <1>10, <1>11 DEF SchedIInv

-----------------------------------------------------------------------------
(* Every step, and what follows.                                               *)

\* What starts no run and ends none.
LEMMA OthersKeep ==
    ASSUME SchedIInv, Start \/ Register \/ Tick \/ Crash \/ Sleep \/ Wake \/ UNCHANGED vars
    PROVE  SchedIInv'
<1>i. Typed /\ Recorded /\ Running /\ Registered /\ WeeklyLater
  BY DEF SchedIInv
<1>c. now \in Nat /\ Slot(now) \in Nat /\ file.slot \in Int /\ Horizon \in Nat
  BY <1>i, NowInSlots, SchedulerAssumption DEF Typed, Slots
<1>n. NoRun \in [kind : Kinds \cup {"none"}, slot : Slots, retries : 0 .. MaxRetries, began : Nat]
      /\ NoRun.kind = "none"
  BY SlotBounds, SchedulerAssumption DEF NoRun, Slots
<1>1. CASE Start
  <2>1. daemon = "down" /\ daemon' = "starting"
        /\ UNCHANGED <<now, run, file, weekly, retry, runs, retried, strayed>>
    BY <1>1 DEF Start
  <2> QED BY <1>i, <2>1 DEF SchedIInv, Typed, Recorded, Running, Registered, WeeklyLater
<1>2. CASE Register
  <2>1. /\ daemon = "starting" /\ JobReturns("catch up")
        /\ UNCHANGED <<now, file, retry, runs, retried, strayed>>
    BY <1>2 DEF Register
  <2>2. /\ weekly' \in Nat /\ run' = NoRun /\ daemon' = "idle"
        /\ file.slot < Slot(weekly') \/ file.slot \in strayed
    BY <2>1, ReturnsLater DEF Kinds
  <2>3. retry = {}
    BY <1>i, <2>1 DEF Registered
  <2>4. Typed'
    BY <1>i, <1>n, <2>1, <2>2 DEF Typed
  <2>5. Recorded' /\ Registered' /\ WeeklyLater'
    BY <1>i, <2>1, <2>2, <2>3 DEF Recorded, Registered, WeeklyLater
  <2>6. Running'
    BY <1>n, <2>2 DEF Running
  <2> QED BY <2>4, <2>5, <2>6 DEF SchedIInv
<1>3. CASE Tick
  <2>1. now' = now + 1 /\ now < Horizon
        /\ UNCHANGED <<daemon, run, file, weekly, retry, runs, retried, strayed>>
    BY <1>3 DEF Tick
  <2>2. now' \in 1 .. Horizon /\ now' \in Nat /\ now <= now'
    BY <1>c, <2>1
  <2>3. Slot(now) <= Slot(now') /\ Slot(now') \in Nat
    BY <1>c, <2>2, SlotsInOrder, SlotBounds
  <2>4. file'.slot <= Slot(now')
    BY <1>c, <1>i, <2>1, <2>3 DEF Recorded
  <2>5. Typed' /\ Recorded'
    BY <1>i, <2>1, <2>2, <2>4 DEF Typed, Recorded
  <2>6. Running' /\ Registered' /\ WeeklyLater'
    BY <1>i, <2>1 DEF Running, Registered, WeeklyLater
  <2> QED BY <2>5, <2>6 DEF SchedIInv
<1>4. CASE Crash
  <2>1. /\ daemon' = "down" /\ run' = NoRun /\ weekly' = 0 /\ retry' = {}
        /\ UNCHANGED <<now, file, runs, retried, strayed>>
    BY <1>4 DEF Crash
  <2>2. Typed' /\ Recorded'
    BY <1>i, <1>n, <2>1 DEF Typed, Recorded
  <2>3. Running' /\ Registered' /\ WeeklyLater'
    BY <1>n, <2>1 DEF Running, Registered, WeeklyLater
  <2> QED BY <2>2, <2>3 DEF SchedIInv
<1>5. CASE Sleep \/ Wake
  <2>1. daemon \in {"idle", "asleep"} /\ daemon' \in {"idle", "asleep"}
        /\ UNCHANGED <<now, run, file, weekly, retry, runs, retried, strayed>>
    BY <1>5 DEF Sleep, Wake
  <2> QED BY <1>i, <2>1 DEF SchedIInv, Typed, Recorded, Running, Registered, WeeklyLater
<1>6. CASE UNCHANGED vars
  BY <1>6, <1>i DEF vars, SchedIInv, Typed, Recorded, Running, Registered, WeeklyLater
<1> QED BY <1>1, <1>2, <1>3, <1>4, <1>5, <1>6

\* Every step keeps the invariant.
LEMMA NextInv == SchedIInv /\ [Next]_vars => SchedIInv'
<1> SUFFICES ASSUME SchedIInv, [Next]_vars PROVE SchedIInv'
  OBVIOUS
<1>1. CASE Daemon
  BY <1>1, OthersKeep, CatchUpKeeps, FireWeeklyKeeps, FireRetryKeeps, RunEndsKeeps, RunRaisesKeeps
     DEF Daemon
<1>2. CASE Tick \/ Crash \/ Sleep \/ Wake \/ AtHorizon \/ UNCHANGED vars
  BY <1>2, OthersKeep DEF AtHorizon
<1> QED BY <1>1, <1>2 DEF Next

\* So it holds always.
LEMMA SchedIInvHolds == Spec => []SchedIInv
BY InitInv, NextInv, PTL DEF Spec

\* No slot is traded twice after a run that was not seen to be blind, and none is
\* retried past the cap, through kills, failed writes and sleeps, unless a retry
\* meant for an earlier slot strayed into it (_maybe_catch_up, run_job).
THEOREM SlotsAreNotRepeated == Spec => []SlotsNotRepeated
<1>1. SchedIInv => SlotsNotRepeated
  <2> SUFFICES ASSUME SchedIInv PROVE SlotsNotRepeated
    OBVIOUS
  <2>i. Typed /\ Recorded /\ Running
    BY DEF SchedIInv
  <2>1. OneRunPerSlot /\ RetriesCapped
    BY <2>i DEF OneRunPerSlot, RetriesCapped, Recorded
  <2>2. run = NoRun \/ (run.kind \in Kinds /\ run.slot \in Slots /\ run.retries \in 0 .. MaxRetries)
    BY <2>i DEF Typed, Running
  <2>3. TypeOK
    BY <2>i, <2>2 DEF TypeOK, Typed
  <2> QED BY <2>1, <2>3 DEF SlotsNotRepeated
<1> QED BY <1>1, SchedIInvHolds, PTL

-----------------------------------------------------------------------------
(* No slot is missed.                                                          *)

\* The weekly job was last registered at moment t, when t's slot was claimed or had
\* begun during the run that was then ending.
RegisteredAt(t) == /\ weekly = NextFire(t)
                   /\ Slot(t) <= file.slot \/ Slot(t) \in skipped

\* As long as no write failed and no run raised: the weekly job stands as it was
\* registered; the run that is to register it claimed the present slot, or this one
\* began meanwhile; and a polling daemon remembers the retry of a blind slot.
Timed      == daemon \in {"idle", "asleep"} \/ run.kind = "retry"
                 => \E t \in 0 .. now : RegisteredAt(t)
Prompt     == daemon = "running" /\ run.kind # "retry"
                 => run.slot = Slot(now) \/ Slot(now) \in skipped
Remembered == daemon \in {"idle", "asleep"} /\ Blind
                 => \E r \in retry : r.retries = file.retries + 1 /\ r.due <= now + 1

Unmissed == faults \in Nat /\ (faults = 0 => Timed /\ Prompt /\ Remembered)

\* Until the weekly job is due, the slot is the one it was registered in.
LEMMA SameSlotUntilFire ==
    ASSUME NEW t \in Nat, NEW u \in Nat, t <= u, u < NextFire(t)
    PROVE  Slot(u) = Slot(t)
<1> DEFINE a == Slot(t)
           b == Slot(u)
<1>1. a \in Nat /\ b \in Nat /\ a <= b /\ Week \in Nat /\ Week >= 1
  BY SlotBounds, SlotsInOrder, SchedulerAssumption
<1>2. Week * b <= u /\ u < (a + 1) * Week
  BY SlotBounds DEF NextFire
<1> HIDE DEF a, b
<1>3. ASSUME a + 1 <= b PROVE FALSE
  <2>1. PICK d \in Nat : b = a + 1 + d
    <3>1. b - (a + 1) \in Nat
      BY <1>1, <1>3
    <3>2. b = a + 1 + (b - (a + 1))
      BY <1>1
    <3> QED BY <3>1, <3>2
  <2>2. Week * b = (a + 1) * Week + Week * d
    BY <1>1, <2>1
  <2>3. Week * d \in Nat /\ (a + 1) * Week \in Nat
    BY <1>1
  <2> QED BY <1>1, <1>2, <2>2, <2>3
<1>4. a = b
  BY <1>1, <1>3
<1> QED BY <1>4 DEF a, b

\* A run that starts claims the present slot.
LEMMA StartUnmissed ==
    ASSUME SchedIInv, Unmissed, NEW kind \in Kinds, NEW k \in 0 .. MaxRetries,
           StartRun(kind, k), UNCHANGED <<now, skipped>>,
           kind = "retry" => daemon = "idle"
    PROVE  Unmissed'
<1>i. Typed /\ Recorded
  BY DEF SchedIInv
<1>c. Slot(now) \in Nat /\ now \in Nat /\ file.slot \in Int /\ file.slot <= Slot(now)
  BY <1>i, NowInSlots DEF Typed, Recorded, Slots
<1>1. CASE faults' = faults + 1
  BY <1>1 DEF Unmissed
<1>2. CASE /\ daemon' = "running"
           /\ run' = [kind |-> kind, slot |-> Slot(now), retries |-> k, began |-> now]
           /\ file' = Claim(k)
           /\ UNCHANGED <<weekly, faults>>
  <2>1. file'.slot = Slot(now) /\ run'.kind = kind /\ run'.slot = Slot(now)
    BY <1>2 DEF Claim, SaveState
  <2>2. ASSUME faults = 0, kind = "retry"
        PROVE  \E t \in 0 .. now' : RegisteredAt(t)'
    <3>1. PICK t \in 0 .. now : RegisteredAt(t)
      BY <2>2 DEF Unmissed, Timed
    <3>2. t \in Nat /\ Slot(t) \in Nat
      BY <1>c, SlotBounds
    <3>3. weekly' = NextFire(t)
      BY <1>2, <3>1 DEF RegisteredAt
    <3>4. Slot(t) <= file'.slot \/ Slot(t) \in skipped'
      BY <1>c, <2>1, <3>1, <3>2 DEF RegisteredAt
    <3>5. RegisteredAt(t)'
      BY <3>3, <3>4 DEF RegisteredAt
    <3> QED BY <3>5
  <2>3. faults = 0 => Timed'
    BY <1>2, <2>1, <2>2 DEF Timed
  <2>4. Prompt' /\ Remembered'
    BY <1>2, <2>1 DEF Prompt, Remembered
  <2> QED BY <1>2, <2>3, <2>4 DEF Unmissed
<1> QED BY <1>1, <1>2 DEF StartRun

\* A run that ends leaves the present slot claimed, or skipped, and a blind one's
\* retry registered.
LEMMA EndUnmissed ==
    ASSUME SchedIInv, Unmissed, NEW outcome \in {"blind", "none", "done"},
           NEW written \in BOOLEAN, RunEnds(outcome, written)
    PROVE  Unmissed'
<1>i. Typed /\ Running
  BY DEF SchedIInv
<1>1. CASE ~written
  BY <1>1 DEF RunEnds, Unmissed
<1>2. CASE written
  <2>1. /\ daemon = "running" /\ JobReturns(run.kind)
        /\ file' = [slot |-> run.slot, exit |-> outcome, retries |-> run.retries]
        /\ retry' = retry \cup RetryAfter(outcome)
        /\ UNCHANGED <<now, skipped, faults>>
    BY <1>2 DEF RunEnds, SaveState
  <2>2. file'.slot = run.slot /\ file.slot = run.slot /\ run.slot \in Nat
    BY <1>i, <2>1 DEF Running, Typed, Slots
  <2>3. daemon' = "idle" /\ run' = NoRun /\ run'.kind = "none" /\ now \in Nat
    BY <1>i, <2>1, NowInSlots DEF JobReturns, NoRun
  <2>4. ASSUME faults = 0 PROVE \E t \in 0 .. now' : RegisteredAt(t)'
    <3>1. CASE run.kind = "retry"
      <4>1. PICK t \in 0 .. now : RegisteredAt(t)
        BY <2>4, <3>1 DEF Unmissed, Timed
      <4>2. weekly' = weekly
        BY <2>1, <3>1 DEF JobReturns
      <4>3. RegisteredAt(t)'
        BY <2>1, <2>2, <4>1, <4>2 DEF RegisteredAt
      <4> QED BY <2>1, <4>3
    <3>2. CASE run.kind # "retry"
      <4>1. weekly' = NextFire(now)
        BY <2>1, <3>2 DEF JobReturns
      <4>2. run.slot = Slot(now) \/ Slot(now) \in skipped
        BY <2>1, <2>4, <3>2 DEF Unmissed, Prompt
      <4>3. Slot(now) <= file'.slot \/ Slot(now) \in skipped'
        BY <2>1, <2>2, <4>2
      <4>4. RegisteredAt(now)'
        BY <2>1, <4>1, <4>3 DEF RegisteredAt
      <4> QED BY <2>1, <2>3, <4>4
    <3> QED BY <3>1, <3>2
  <2>5. ASSUME Blind'
        PROVE  \E r \in retry' : r.retries = file'.retries + 1 /\ r.due <= now' + 1
    <3> DEFINE new == [due |-> now + 1, retries |-> run.retries + 1, for |-> run.slot]
    <3>1. outcome = "blind" /\ run.retries < MaxRetries
      BY <2>1, <2>5 DEF Blind
    <3>2. new \in retry'
      BY <2>1, <3>1 DEF RetryAfter
    <3>3. new.retries = file'.retries + 1 /\ new.due <= now' + 1
      BY <2>1, <2>3
    <3> QED BY <3>2, <3>3
  <2>6. faults = 0 => Timed'
    BY <2>4 DEF Timed
  <2>7. Prompt' /\ Remembered'
    BY <2>3, <2>5 DEF Prompt, Remembered
  <2> QED BY <2>1, <2>6, <2>7 DEF Unmissed
<1> QED BY <1>1, <1>2

\* What starts no run and ends none misses nothing.
LEMMA OthersMissNothing ==
    ASSUME SchedIInv, Unmissed,
           Start \/ Register \/ Tick \/ Crash \/ Sleep \/ Wake \/ UNCHANGED vars
    PROVE  Unmissed'
<1>i. Typed /\ Running
  BY DEF SchedIInv
<1>c. now \in Nat /\ Slot(now) \in Nat /\ file.slot \in Int
  BY <1>i, NowInSlots DEF Typed, Slots
<1>1. CASE Start
  <2>1. /\ daemon' = "starting" /\ run.kind = "none"
        /\ UNCHANGED <<run, faults>>
    BY <1>1, <1>i DEF Start, Running
  <2> QED BY <2>1 DEF Unmissed, Timed, Prompt, Remembered
<1>2. CASE Register
  <2>1. UNCHANGED <<now, file, skipped, faults>>
    BY <1>2 DEF Register
  <2>2. weekly' = NextFire(now) /\ daemon' = "idle"
    BY <1>2 DEF Register, JobReturns
  <2>3. Slot(now) <= file.slot
    <3>1. ~(file.slot < Slot(now))
      BY <1>2 DEF Register, Stale
    <3> QED BY <1>c, <3>1
  <2>4. RegisteredAt(now)'
    BY <2>1, <2>2, <2>3 DEF RegisteredAt
  <2>5. now \in 0 .. now'
    BY <1>c, <2>1
  <2>6. Timed' /\ Prompt'
    <3>1. \E t \in 0 .. now' : RegisteredAt(t)'
      BY <2>1, <2>4, <2>5
    <3> QED BY <2>2, <3>1 DEF Timed, Prompt
  <2>7. Remembered'
    BY <1>2, <2>1 DEF Register, Remembered, Blind
  <2> QED BY <2>1, <2>6, <2>7 DEF Unmissed
<1>3. CASE Tick
  <2>1. /\ now' = now + 1
        /\ skipped' = IF daemon = "running" /\ run.kind # "retry"
                      THEN skipped \cup ({Slot(now')} \ {Slot(now)}) ELSE skipped
        /\ UNCHANGED <<daemon, run, file, weekly, retry, faults>>
    BY <1>3 DEF Tick
  <2>2. Timed => Timed'
    <3>1. \A t \in 0 .. now : RegisteredAt(t) => RegisteredAt(t)'
      BY <2>1 DEF RegisteredAt
    <3>2. 0 .. now \subseteq 0 .. now'
      BY <1>c, <2>1
    <3> QED BY <2>1, <3>1, <3>2 DEF Timed
  <2>3. Prompt => Prompt'
    BY <2>1 DEF Prompt
  <2>4. Remembered => Remembered'
    <3>1. ASSUME NEW r \in retry, r.due <= now + 1 PROVE r.due <= now' + 1
      <4>1. r.due \in Nat
        BY <1>i DEF Typed
      <4> QED BY <1>c, <2>1, <3>1, <4>1
    <3> QED BY <2>1, <3>1 DEF Remembered, Blind
  <2> QED BY <2>1, <2>2, <2>3, <2>4 DEF Unmissed
<1>4. CASE Crash
  <2>1. daemon' = "down" /\ run'.kind = "none" /\ faults' = faults
    BY <1>4 DEF Crash, NoRun
  <2> QED BY <2>1 DEF Unmissed, Timed, Prompt, Remembered
<1>5. CASE Sleep \/ Wake \/ UNCHANGED vars
  <2>1. /\ UNCHANGED <<now, run, file, weekly, retry, skipped, faults>>
        /\ daemon' = daemon \/ {daemon, daemon'} = {"idle", "asleep"}
    BY <1>5 DEF Sleep, Wake, vars
  <2>2. Timed => Timed'
    BY <2>1 DEF Timed, RegisteredAt
  <2>3. Prompt /\ Remembered => Prompt' /\ Remembered'
    BY <2>1 DEF Prompt, Remembered, Blind
  <2> QED BY <2>1, <2>2, <2>3 DEF Unmissed
<1> QED BY <1>1, <1>2, <1>3, <1>4, <1>5

\* Every step keeps it.
LEMMA UnmissedStep == SchedIInv /\ Unmissed /\ [Next]_vars => Unmissed'
<1> SUFFICES ASSUME SchedIInv, Unmissed, [Next]_vars PROVE Unmissed'
  OBVIOUS
<1>i. Typed /\ Registered
  BY DEF SchedIInv
<1>1. ASSUME CatchUp PROVE Unmissed'
  <2>1. CatchUpCount \in 0 .. MaxRetries
    <3>1. file.retries \in 0 .. MaxRetries /\ MaxRetries \in Nat
      BY <1>i, SchedulerAssumption DEF Typed
    <3>2. CatchUpCount = 0 \/ (CatchUpCount = file.retries + 1 /\ file.retries < MaxRetries)
      BY <1>1 DEF CatchUp, CatchUpCount, Blind
    <3> HIDE DEF CatchUpCount
    <3> QED BY <3>1, <3>2
  <2>2. StartRun("catch up", CatchUpCount) /\ UNCHANGED <<now, skipped>>
    BY <1>1 DEF CatchUp
  <2> QED BY <2>1, <2>2, StartUnmissed DEF Kinds
<1>2. ASSUME FireWeekly PROVE Unmissed'
  <2>1. StartRun("weekly", 0) /\ UNCHANGED <<now, skipped>>
    BY <1>2 DEF FireWeekly
  <2>2. 0 \in 0 .. MaxRetries
    BY SchedulerAssumption
  <2> QED BY <2>1, <2>2, StartUnmissed DEF Kinds
<1>3. ASSUME NEW r \in retry, FireRetry(r) PROVE Unmissed'
  <2>1. daemon = "idle" /\ StartRun("retry", r.retries) /\ UNCHANGED <<now, skipped>>
    BY <1>3 DEF FireRetry
  <2>2. r.retries \in 0 .. MaxRetries
    BY <1>i, SchedulerAssumption DEF Typed
  <2> QED BY <2>1, <2>2, StartUnmissed DEF Kinds
<1>4. ASSUME RunRaises PROVE Unmissed'
  BY <1>4 DEF RunRaises, Unmissed
<1>5. ASSUME Daemon PROVE Unmissed'
  BY <1>1, <1>2, <1>3, <1>4, <1>5, EndUnmissed, OthersMissNothing DEF Daemon
<1>6. ASSUME Tick \/ Crash \/ Sleep \/ Wake \/ AtHorizon \/ UNCHANGED vars
      PROVE  Unmissed'
  BY <1>6, OthersMissNothing DEF AtHorizon
<1> QED BY <1>5, <1>6 DEF Next

\* So it holds always.
LEMMA UnmissedHolds == Spec => []Unmissed
<1>1. Init => Unmissed
  BY DEF Init, Unmissed, Timed, Prompt, Remembered, NoRun
<1> QED BY <1>1, UnmissedStep, SchedIInvHolds, PTL DEF Spec

\* A daemon that polls with nothing due has claimed the present slot, and remembers
\* the retry of a blind one, however it was killed, restarted or put to sleep, as
\* long as its file could be written (_maybe_catch_up, run_job, main's loop).
THEOREM SlotsAreNotMissed == Spec => []SlotsNotMissed
<1>1. SchedIInv /\ Unmissed => SlotsNotMissed
  <2> SUFFICES ASSUME SchedIInv, Unmissed PROVE SlotClaimed /\ BlindSlotRetried
    BY DEF SlotsNotMissed
  <2>i. Typed /\ Recorded
    BY DEF SchedIInv
  <2>1. ASSUME daemon = "idle", NothingDue, faults = 0, Slot(now) \notin skipped
        PROVE  file.slot = Slot(now)
    <3>1. PICK t \in 0 .. now : RegisteredAt(t)
      BY <2>1 DEF Unmissed, Timed
    <3>2. now \in Nat /\ t \in Nat /\ t <= now /\ Slot(now) \in Nat
      BY <2>i, NowInSlots
    <3>3. now < NextFire(t)
      <4>1. weekly \in Nat /\ ~(weekly <= now)
        BY <2>1, <2>i DEF NothingDue, WeeklyDue, Typed
      <4>2. weekly = NextFire(t)
        BY <3>1 DEF RegisteredAt
      <4>3. now < weekly
        BY <3>2, <4>1
      <4> QED BY <4>2, <4>3
    <3>4. Slot(now) = Slot(t)
      BY <3>2, <3>3, SameSlotUntilFire
    <3>5. Slot(now) <= file.slot
      BY <2>1, <3>1, <3>4 DEF RegisteredAt
    <3>6. file.slot \in Int /\ file.slot <= Slot(now)
      BY <2>i DEF Typed, Recorded, Slots
    <3> QED BY <3>2, <3>5, <3>6
  <2>2. BlindSlotRetried
    BY DEF Unmissed, Remembered, BlindSlotRetried
  <2> QED BY <2>1, <2>2 DEF SlotClaimed
<1> QED BY <1>1, SchedIInvHolds, UnmissedHolds, PTL
=============================================================================
