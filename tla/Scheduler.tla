------------------------------ MODULE Scheduler ------------------------------
(***************************************************************************)
(* scheduler.py: the daemon that runs the production bot once a week, as a  *)
(* subprocess, and records each run's weekly slot in a file so that a       *)
(* restart can catch up.  A run that could scan nothing ("blind", exit 30)  *)
(* leaves its slot open and is retried some hours later; every other end    *)
(* counts the slot as done.                                                 *)
(*                                                                          *)
(* Time is counted in ticks of the retry delay, which is also the longest a *)
(* run may take (both 3600 s).  Slot s begins at tick s * Week.  Jobs are   *)
(* kept by the external library `schedule`: the earliest overdue job is run *)
(* first, and the weekly job gets its next date when its run has returned.  *)
(***************************************************************************)
EXTENDS Integers

CONSTANTS
    Week,       \* ticks from one slot to the next
    MaxRetries, \* config.SCHEDULER_BLIND_MAX_RETRIES
    Horizon,    \* bound: the last tick looked at
    MaxCrashes, \* bound: times the daemon is killed
    MaxFaults,  \* bound: failed writes of the state file, and runs that raise
    MaxSleeps   \* bound: times the host sleeps under a running daemon

ASSUME SchedulerAssumption ==
    /\ Week \in Nat \ {0} /\ MaxRetries \in Nat
    /\ Horizon \in Nat /\ Week <= Horizon
    /\ MaxCrashes \in Nat /\ MaxFaults \in Nat /\ MaxSleeps \in Nat

VARIABLES
    now,     \* the host's clock
    daemon,  \* "down", "starting", "idle" (polling), "running" or "asleep"
    run,     \* the run in progress
    file,    \* scheduler_state.json
    weekly,  \* when the weekly job is next due; 0 before it is registered
    retry,   \* the registered one-shot retries
    runs,    \* history: slot -> runs that were not seen to be blind
    retried, \* history: slot -> retries of it that were started
    skipped, \* history: slots that began during a catch-up or weekly run
    strayed, \* history: slots that got a retry meant for an earlier one
    crashes, faults, sleeps \* history: how many so far

vars == <<now, daemon, run, file, weekly, retry, runs, retried, skipped,
          strayed, crashes, faults, sleeps>>

Slot(t)     == t \div Week
NextFire(t) == (Slot(t) + 1) * Week
Slots       == 0 .. Slot(Horizon)

Kinds == {"catch up", "weekly", "retry"}
NoRun == [kind |-> "none", slot |-> 0, retries |-> 0, began |-> 0]

\* No file reads as a record of a slot before any other.
NoFile == [slot |-> -1, exit |-> "none", retries |-> 0]

Init ==
    /\ now \in 1 .. Week /\ daemon = "down" /\ run = NoRun
    /\ file = NoFile /\ weekly = 0 /\ retry = {}
    /\ runs = [s \in Slots |-> 0] /\ retried = [s \in Slots |-> 0]
    /\ skipped = {} /\ strayed = {} /\ crashes = 0 /\ faults = 0 /\ sleeps = 0

----------------------------------------------------------------------------
(* One run of the bot (run_job).                                            *)

\* What follows a run, or the failure to start one, by the kind of its job: the
\* weekly job is (re)registered from now on; a retry was used up when it began.
JobReturns(kind) ==
    /\ daemon' = "idle" /\ run' = NoRun
    /\ weekly' = IF kind = "retry" THEN weekly ELSE NextFire(now)

\* Mutant: the slot is recorded only when its run has ended.
ClaimLate(k) == file

\* A new file replaces the record whole.
SaveState(slot, exit, retries) == [slot |-> slot, exit |-> exit, retries |-> retries]

\* The record that claims the slot, written before the bot is started.
Claim(k) == SaveState(Slot(now), "none", k)

StartRun(kind, k) ==
    \/ /\ daemon' = "running"
       /\ run' = [kind |-> kind, slot |-> Slot(now), retries |-> k,
                  began |-> now]
       /\ file' = Claim(k)
       /\ runs' = [runs EXCEPT ![Slot(now)] = @ + 1]
       /\ retried' = [retried EXCEPT ![Slot(now)] = IF k = 0 THEN @ ELSE @ + 1]
       /\ UNCHANGED <<weekly, faults>>
    \/ /\ faults < MaxFaults \* the claim cannot be written: nothing is started
       /\ faults' = faults + 1
       /\ JobReturns(kind)
       /\ UNCHANGED <<file, runs, retried>>

\* Mutants: only the first blind run of a slot is retried; one retry too many.
RetryOnce(outcome) ==
    IF outcome = "blind" /\ run.retries = 0
    THEN {[due |-> now + 1, retries |-> 1, for |-> run.slot]} ELSE {}
RetryPastCap(outcome) ==
    IF outcome = "blind" /\ run.retries <= MaxRetries
    THEN {[due |-> now + 1, retries |-> run.retries + 1, for |-> run.slot]}
    ELSE {}

\* The retry that a run ending so registers (for which slot is history: the job
\* does not remember it, and its run claims the slot of its own time).
RetryAfter(outcome) ==
    IF outcome = "blind" /\ run.retries < MaxRetries
    THEN {[due |-> now + 1, retries |-> run.retries + 1, for |-> run.slot]}
    ELSE {}

\* The bot ends: blind, killed at the timeout or never spawned (no exit code),
\* or with any other exit code.  The last write of the record may fail.
RunEnds(outcome, written) ==
    /\ daemon = "running"
    /\ written \/ faults < MaxFaults
    /\ faults' = IF written THEN faults ELSE faults + 1
    /\ retry' = retry \cup RetryAfter(outcome)
    /\ file' = IF written THEN SaveState(run.slot, outcome, run.retries) ELSE file
    /\ runs' = IF outcome = "blind"
               THEN [runs EXCEPT ![run.slot] = @ - 1] ELSE runs
    /\ JobReturns(run.kind)
    /\ UNCHANGED <<now, retried, skipped, strayed,
                   crashes, sleeps>>

\* Its output cannot be decoded: the job raises, and _guarded_job drops it.
RunRaises ==
    /\ daemon = "running"
    /\ faults < MaxFaults /\ faults' = faults + 1
    /\ JobReturns(run.kind)
    /\ UNCHANGED <<now, file, retry, runs, retried, skipped, strayed,
                   crashes, sleeps>>

----------------------------------------------------------------------------
(* The daemon (main, _maybe_catch_up, the poll loop).                       *)

Start ==
    /\ daemon = "down"
    /\ daemon' = "starting"
    /\ UNCHANGED <<now, run, file, weekly, retry, runs, retried, skipped,
                   strayed,
                   crashes, faults, sleeps>>

\* Mutant: only a host without any record catches up.
StaleIfNoFile == file = NoFile

Stale == file.slot < Slot(now)
Blind == file.exit = "blind" /\ file.retries < MaxRetries

\* Mutant: a catch-up of a blind slot starts its count anew.
CatchUpCountAnew == 0

CatchUpCount == IF Stale THEN 0 ELSE file.retries + 1

CatchUp ==
    /\ daemon = "starting"
    /\ Stale \/ Blind
    /\ StartRun("catch up", CatchUpCount)
    /\ UNCHANGED <<now, retry, skipped, strayed, crashes, sleeps>>

\* The slot is recorded: go straight on to the weekly job and the poll loop.
Register ==
    /\ daemon = "starting"
    /\ ~Stale /\ ~Blind
    /\ JobReturns("catch up")
    /\ UNCHANGED <<now, file, retry, runs, retried, skipped, strayed,
                   crashes, faults, sleeps>>

DueRetries == {r \in retry : r.due <= now}
WeeklyDue  == weekly <= now
NothingDue == ~WeeklyDue /\ DueRetries = {}

FireWeekly ==
    /\ daemon = "idle" /\ WeeklyDue
    /\ \A r \in DueRetries : r.due >= weekly
    /\ StartRun("weekly", 0)
    /\ UNCHANGED <<now, retry, skipped, strayed, crashes, sleeps>>

FireRetry(r) ==
    /\ daemon = "idle" /\ r \in DueRetries
    /\ WeeklyDue => r.due < weekly
    /\ \A q \in DueRetries : r.due <= q.due
    /\ StartRun("retry", r.retries)
    /\ retry' = retry \ {r}
    /\ strayed' = strayed \cup ({Slot(now)} \ {r.for})
    /\ UNCHANGED <<now, skipped, crashes, sleeps>>

----------------------------------------------------------------------------
(* The host.                                                                *)

\* An hour passes.  A polling daemon has run what was due by then, and a run is
\* killed when it has taken as long.
Tick ==
    /\ now < Horizon
    /\ daemon \in {"down", "asleep"} \/ (daemon = "idle" /\ NothingDue)
           \/ (daemon = "running" /\ run.began = now)
    /\ now' = now + 1
    /\ skipped' = IF daemon = "running" /\ run.kind # "retry"
                  THEN skipped \cup ({Slot(now')} \ {Slot(now)}) ELSE skipped
    /\ UNCHANGED <<daemon, run, file, weekly, retry, runs, retried, strayed,
                   crashes, faults, sleeps>>

\* The daemon is killed; the library's jobs live in its memory.  A bot it had
\* started may trade on alone, so its run still counts.
Crash ==
    /\ daemon # "down" /\ crashes < MaxCrashes
    /\ crashes' = crashes + 1
    /\ daemon' = "down" /\ run' = NoRun /\ weekly' = 0 /\ retry' = {}
    /\ UNCHANGED <<now, file, runs, retried, skipped, strayed, faults, sleeps>>

Sleep ==
    /\ daemon = "idle" /\ sleeps < MaxSleeps
    /\ sleeps' = sleeps + 1
    /\ daemon' = "asleep"
    /\ UNCHANGED <<now, run, file, weekly, retry, runs, retried, skipped,
                   strayed,
                   crashes, faults>>

Wake ==
    /\ daemon = "asleep"
    /\ daemon' = "idle"
    /\ UNCHANGED <<now, run, file, weekly, retry, runs, retried, skipped,
                   strayed,
                   crashes, faults, sleeps>>

Daemon == \/ Start \/ CatchUp \/ Register \/ FireWeekly
          \/ \E r \in retry : FireRetry(r)
          \/ \E outcome \in {"blind", "none", "done"}, written \in BOOLEAN :
                RunEnds(outcome, written)
          \/ RunRaises

AtHorizon == now = Horizon /\ UNCHANGED vars

Next == Daemon \/ Tick \/ Crash \/ Sleep \/ Wake \/ AtHorizon

Spec == Init /\ [][Next]_vars

----------------------------------------------------------------------------
(* Properties.                                                              *)

TypeOK ==
    /\ now \in 1 .. Horizon
    /\ daemon \in {"down", "starting", "idle", "running", "asleep"}
    /\ run = NoRun \/ (run.kind \in Kinds /\ run.slot \in Slots
                          /\ run.retries \in 0 .. MaxRetries)
    /\ file.slot \in Slots \cup {-1} /\ file.retries \in 0 .. MaxRetries
    /\ weekly \in Nat
    /\ \A r \in retry : r.retries \in 1 .. MaxRetries

\* Real money is traded at most once for a slot: however the daemon crashes,
\* restarts and retries, no slot gets a second run after one that was not seen
\* to be blind (unless a retry meant for an earlier slot strayed into it).
OneRunPerSlot == \A s \in Slots \ strayed : runs[s] <= 1

\* A slot's blind runs are retried at most MaxRetries times, restarts included
\* (unless a retry meant for an earlier slot strayed into it).
RetriesCapped == \A s \in Slots \ strayed : retried[s] <= MaxRetries

\* No slot is traded twice, nor retried past the cap, which neither the daemon's
\* memory nor its file ever exceeds.
SlotsNotRepeated == TypeOK /\ OneRunPerSlot /\ RetriesCapped

\* A daemon that polls, and has nothing due, has claimed the current slot, be it
\* on time, after a sleep or by catching up at its start (unless the slot began
\* while a catch-up or the week before's run was still going on).
SlotClaimed ==
    daemon = "idle" /\ NothingDue /\ faults = 0 /\ Slot(now) \notin skipped
    => file.slot = Slot(now)

\* A slot left open by a blind run below the cap is never forgotten: a polling
\* daemon has the next retry registered, due within a retry delay, with the next
\* number, also after a restart that lost the registered one.
BlindSlotRetried ==
    daemon = "idle" /\ Blind /\ faults = 0
    => \E r \in retry : r.retries = file.retries + 1 /\ r.due <= now + 1

\* No slot is missed, nor left blind below the cap.
SlotsNotMissed == SlotClaimed /\ BlindSlotRetried

\* run_job: its retries argument is "greater than 0 only when _blind_retry or
\* _maybe_catch_up is re-running a slot that a blind run left unsatisfied".
RetriesOnlyUnsatisfied ==
    [][daemon # "running" /\ daemon' = "running" /\ run'.retries > 0
       => ~(file.slot = Slot(now) /\ file.exit = "done")]_vars

\* run_job: a run "cannot block the daemon past the next scheduled fire".
NeverBlockedPastFire ==
    daemon = "idle" /\ NothingDue /\ faults = 0 => file.slot = Slot(now)
=============================================================================
