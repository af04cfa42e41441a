------------------------------ MODULE PairTrade ------------------------------
(***************************************************************************)
(* One run's purchases: trader.execute_trades and the two-order protocol    *)
(* it runs for each pair (trader._execute_one and what that calls).         *)
(*                                                                          *)
(* A pair buys NO contracts in one market and then YES contracts in the     *)
(* other.  There is no atomic two-order request, a reply can be lost after  *)
(* the exchange acted on the order, and the account's positions can be read *)
(* a little late, so every uncertain outcome is decided by how the account  *)
(* CHANGED since a baseline read before the first order.  One process-wide  *)
(* question is settled on the way: that the order sent for a NO buy really  *)
(* opens NO (the "mapping"); two latches remember the answer.               *)
(*                                                                          *)
(* The pairs share no market (strategy.select_portfolio), so the account is *)
(* one signed position per pair and leg: NO contracts count negative.       *)
(***************************************************************************)
EXTENDS Integers, FiniteSets

CONSTANTS
    N,          \* pairs in the batch, bought in the order 1 .. N
    Workers,    \* threads of the pool (config.TRADER_MAX_WORKERS)
    Count,      \* contracts each pair buys on each side
    Rechecks,   \* re-reads the mapping check makes of an unmoved position
    Worlds,     \* what may be planned, held and met: see IsWorld
    MaxFaults,  \* bound: failed reads, lost replies and failed builds
    MaxOutside, \* bound: trades by someone else on the batch's markets
    Unread      \* a position reading that failed

Pairs == 1 .. N
Legs  == {"no", "yes"}

\* A pair is new, or it adds to contracts the account held when it was planned:
\* then on each market exactly those contracts must still be there.
Plan == [adds : BOOLEAN, no : Int, yes : Int]

IsWorld(w) == w \in [plan : [Pairs -> Plan], held : [Pairs -> [Legs -> Int]],
                     noMove : Int, lag : Nat]

ASSUME PairAssumption ==
    /\ N \in Nat \ {0} /\ Workers \in Nat \ {0} /\ Count \in Nat \ {0}
    /\ Rechecks \in Nat
    /\ MaxFaults \in Nat /\ MaxOutside \in Nat
    /\ \A w \in Worlds : IsWorld(w)
    /\ Unread \notin Int

VARIABLES
    main,      \* execute_trades itself: what the submitting thread is doing
    nextp,     \* the pair it submits next or is waiting for
    expired,   \* the time budget of the one-at-a-time phase has run out
    pc,        \* pair -> the step its worker is about to take
    tries,     \* pair -> re-reads made by its mapping check
    before,    \* pair -> its two baseline readings
    result,    \* pair -> TradeResult.status, "none" until there is one
    confirmed, \* _V2_NO_MAPPING_CONFIRMED
    disproven, \* _V2_NO_MAPPING_DISPROVEN
    unchecked, \* _V2_UNCHECKED_NO_LEGS, by pair
    named,     \* pairs that the alert of a disproof told a person to check
    pos,       \* pair -> leg -> the account's true position
    led,       \* pair -> leg -> the newest position any reading has shown
    plan,      \* pair -> what it was planned as
    noMove,    \* what a NO buy really does to the signed position
    lag,       \* re-read pauses that a late position reading can survive
    pos0,      \* history: the account before the batch
    faults,    \* history: faults so far
    impaired,  \* history: pairs that met a failed read or a failed build
    touched    \* history: pairs one of whose markets someone else traded

mainVars == <<main, nextp, expired>>
latches  == <<confirmed, disproven, unchecked, named>>
fixed    == <<plan, noMove, lag, pos0>>
vars     == <<main, nextp, expired, pc, tries, before, result, confirmed,
              disproven, unchecked, named, pos, led, plan, noMove, lag, pos0,
              faults, impaired, touched>>

Steps    == {"waiting", "queued", "baseline", "sendNo", "askNo", "recheckNo",
             "confirm", "check", "sendYes", "askYes", "recheckYes", "unwind",
             "done"}
Statuses == {"none", "executed", "failed", "rolled_back", "rollback_failed",
             "manual_review"}

Init ==
    /\ main = "submit" /\ nextp = 1 /\ expired = FALSE
    /\ pc = [p \in Pairs |-> "waiting"]
    /\ tries = [p \in Pairs |-> 0]
    /\ before = [p \in Pairs |-> [l \in Legs |-> Unread]]
    /\ result = [p \in Pairs |-> "none"]
    /\ confirmed = FALSE /\ disproven = FALSE
    /\ unchecked = {} /\ named = {}
    /\ \E w \in Worlds :
          pos = w.held /\ plan = w.plan /\ noMove = w.noMove /\ lag = w.lag
    /\ led = pos /\ pos0 = pos
    /\ faults = 0 /\ impaired = {} /\ touched = {}

----------------------------------------------------------------------------
(* The submitting thread (execute_trades).                                  *)

Verified == confirmed \/ disproven

Submit ==
    /\ main = "submit"
    /\ main' = "watch"
    /\ pc' = [pc EXCEPT ![nextp] = "queued"]
    /\ UNCHANGED <<nextp, expired, tries, before, result, latches, pos, led,
                   fixed, faults, impaired, touched>>

\* Mutants: the wait is left out; it does not look at whether the pair ended.
MayGoOnAtOnce      == TRUE
MayGoOnOnceSettled == Verified \/ expired

\* Until the mapping is settled the next pair waits for this one to end.
MayGoOn == Verified \/ expired \/ pc[nextp] = "done"

Watch ==
    /\ main = "watch"
    /\ MayGoOn
    /\ main' = IF nextp = N THEN "join" ELSE "submit"
    /\ nextp' = IF nextp = N THEN N ELSE nextp + 1
    /\ UNCHANGED <<expired, pc, tries, before, result, latches, pos, led,
                   fixed, faults, impaired, touched>>

BudgetExpires ==
    /\ main \in {"submit", "watch"} /\ ~expired
    /\ expired' = TRUE
    /\ UNCHANGED <<main, nextp, pc, tries, before, result, latches, pos, led,
                   fixed, faults, impaired, touched>>

Return ==
    /\ main = "join"
    /\ \A p \in Pairs : pc[p] = "done"
    /\ main' = "returned"
    /\ UNCHANGED <<nextp, expired, pc, tries, before, result, latches, pos,
                   led, fixed, faults, impaired, touched>>

----------------------------------------------------------------------------
(* What a worker does for one pair.                                         *)

Active == {p \in Pairs : pc[p] \notin {"waiting", "queued", "done"}}

\* The pool starts queued work in order when a thread is free.
CanStart(p) ==
    /\ pc[p] = "queued"
    /\ \A q \in Pairs : q < p => pc[q] # "queued"
    /\ Cardinality(Active) < Workers

Goto(p, step) == /\ pc' = [pc EXCEPT ![p] = step]
                 /\ UNCHANGED result

End(p, status) == /\ pc' = [pc EXCEPT ![p] = "done"]
                  /\ result' = [result EXCEPT ![p] = status]

\* What a reading of one position can give after k re-read pauses.
Readings(p, l, k) ==
    (IF k > lag THEN {pos[p][l]} ELSE {pos[p][l], led[p][l]})
        \cup (IF faults < MaxFaults THEN {Unread} ELSE {})

\* The reading of leg l gave v: a failed one is a fault, and no later reading
\* is older than one that succeeded.
Read(p, l, v) ==
    IF v = Unread
    THEN /\ faults' = faults + 1
         /\ impaired' = impaired \cup {p}
         /\ UNCHANGED led
    ELSE /\ led' = [led EXCEPT ![p][l] = v]
         /\ UNCHANGED <<faults, impaired>>

\* A reply is lost only within the bound on faults.
MayLose(lost) == lost => faults < MaxFaults
Lose(lost)    == faults' = IF lost THEN faults + 1 ELSE faults

\* _fill_delta: the change since the baseline, unknown unless both are known.
Delta(b, v) == IF b = Unread \/ v = Unread THEN Unread ELSE v - b

\* Mutant: a first unmoved reading is taken at its word.
RecheckNever(b, v) == FALSE

\* A leg whose reply was lost: an unmoved first reading is looked at again.
RecheckDue(b, v) == Delta(b, v) = 0

\* Mutant: the alert names nobody.
DisproveSilently == disproven' = TRUE /\ UNCHANGED <<confirmed, unchecked, named>>

\* _stop_run_on_v2_mapping_disproof: set the latch and name the pairs that
\* went ahead unchecked so far.
Disprove == /\ disproven' = TRUE
            /\ named' = named \cup unchecked
            /\ UNCHANGED <<confirmed, unchecked>>

\* A disproof stops every pair that has not begun, before anything is sent.
StopAtEntry(p) ==
    /\ CanStart(p) /\ disproven
    /\ End(p, "failed")
    /\ UNCHANGED <<mainVars, tries, before, latches, pos, led, fixed, faults,
                   impaired, touched>>

\* An order that cannot be built raises out of the worker.
BuildRaises(p) ==
    /\ CanStart(p) /\ ~disproven
    /\ faults < MaxFaults
    /\ faults' = faults + 1 /\ impaired' = impaired \cup {p}
    /\ End(p, "manual_review")
    /\ UNCHANGED <<mainVars, tries, before, latches, pos, led, fixed, touched>>

Begin(p) ==
    /\ CanStart(p) /\ ~disproven
    /\ Goto(p, "baseline")
    /\ UNCHANGED <<mainVars, tries, before, latches, pos, led, fixed, faults,
                   impaired, touched>>

\* Mutant: only the YES market is compared.
MismatchYesOnly(p, b) == plan[p].adds /\ b["yes"] # plan[p].yes

\* _add_on_mismatch: an add-on goes ahead only onto the planned holding.
Mismatch(p, b) == plan[p].adds /\ (b["no"] # plan[p].no \/ b["yes"] # plan[p].yes)

\* Both baselines are read before anything is sent.
ReadBaselines(p) ==
    /\ pc[p] = "baseline"
    /\ \E no \in Readings(p, "no", 0), yes \in Readings(p, "yes", 0) :
         LET b == [l \in Legs |-> IF l = "no" THEN no ELSE yes]
             failed == {l \in Legs : b[l] = Unread}
         IN /\ faults + Cardinality(failed) <= MaxFaults
            /\ faults' = faults + Cardinality(failed)
            /\ impaired' = IF failed = {} THEN impaired ELSE impaired \cup {p}
            /\ led' = [led EXCEPT ![p] = [l \in Legs |->
                          IF l \in failed THEN led[p][l] ELSE b[l]]]
            /\ before' = [before EXCEPT ![p] = b]
            /\ IF Mismatch(p, b) THEN End(p, "failed") ELSE Goto(p, "sendNo")
    /\ UNCHANGED <<mainVars, tries, latches, pos, fixed, touched>>

\* The NO order (fill-or-kill): it fills or not, and the reply arrives or not.
\* An order that fills after its reply was given up on is a late reading.
SendNo(p) ==
    /\ pc[p] = "sendNo"
    /\ \E fills, lost \in BOOLEAN :
         /\ MayLose(lost) /\ Lose(lost)
         /\ pos' = IF fills THEN [pos EXCEPT ![p]["no"] = @ + noMove] ELSE pos
         /\ IF lost THEN Goto(p, "askNo")
            ELSE IF fills THEN Goto(p, "confirm") ELSE End(p, "failed")
    /\ UNCHANGED <<mainVars, tries, before, latches, led, fixed, impaired, touched>>

\* Mutant: an order not seen to fill is unwound all the same.
DecideNoUnwinds(p, v) ==
    IF Delta(before[p]["no"], v) = Unread
    THEN End(p, "manual_review") /\ UNCHANGED latches
    ELSE Goto(p, "unwind") /\ UNCHANGED latches

\* What a reading v after a lost NO reply leads to.  A change no NO buy can make
\* also disproves a mapping that is not confirmed yet.
DecideNo(p, v) ==
    LET d == Delta(before[p]["no"], v)
    IN IF d = 0 THEN End(p, "failed") /\ UNCHANGED latches
       ELSE IF d = -Count THEN Goto(p, "unwind") /\ UNCHANGED latches
       ELSE /\ End(p, "manual_review")
            /\ IF d # Unread /\ ~confirmed THEN Disprove ELSE UNCHANGED latches

AskNo(p) ==
    /\ pc[p] = "askNo"
    /\ \E v \in Readings(p, "no", 0) :
         /\ Read(p, "no", v)
         /\ IF RecheckDue(before[p]["no"], v)
            THEN Goto(p, "recheckNo") /\ UNCHANGED latches
            ELSE DecideNo(p, v)
    /\ UNCHANGED <<mainVars, tries, before, pos, fixed, touched>>

RecheckNo(p) ==
    /\ pc[p] = "recheckNo"
    /\ \E v \in Readings(p, "no", 1) : Read(p, "no", v) /\ DecideNo(p, v)
    /\ UNCHANGED <<mainVars, tries, before, pos, fixed, touched>>

\* The mapping check first looks at the latches: a disproof wins.
ConfirmEntry(p) ==
    /\ pc[p] = "confirm"
    /\ IF disproven THEN End(p, "manual_review")
       ELSE Goto(p, IF confirmed THEN "sendYes" ELSE "check")
    /\ UNCHANGED <<mainVars, tries, before, latches, pos, led, fixed, faults,
                   impaired, touched>>

\* Mutant: one re-read only.
RechecksLeftOne(p) == tries[p] < 1

\* The pauses of V2_MAPPING_ZERO_RECHECK_DELAYS_SECONDS not used up yet.
RechecksLeft(p) == tries[p] < Rechecks

\* Then it reads the position, again after each pause while it has not moved.
CheckMapping(p) ==
    /\ pc[p] = "check"
    /\ \E v \in Readings(p, "no", tries[p]) :
         LET d == Delta(before[p]["no"], v)
         IN /\ Read(p, "no", v)
            /\ \/ /\ d = Unread
                  /\ unchecked' = unchecked \cup {p}
                  /\ Goto(p, "sendYes")
                  /\ UNCHANGED <<tries, confirmed, disproven, named>>
               \/ /\ d = 0 /\ RechecksLeft(p)
                  /\ tries' = [tries EXCEPT ![p] = @ + 1]
                  /\ UNCHANGED <<pc, result, latches>>
               \/ /\ d = -Count
                  /\ confirmed' = TRUE
                  /\ Goto(p, "sendYes")
                  /\ UNCHANGED <<tries, disproven, unchecked, named>>
               \/ /\ d \notin {Unread, -Count}
                  /\ d = 0 => ~RechecksLeft(p)
                  /\ Disprove
                  /\ End(p, "manual_review")
                  /\ UNCHANGED tries
    /\ UNCHANGED <<mainVars, before, pos, fixed, touched>>

SendYes(p) ==
    /\ pc[p] = "sendYes"
    /\ \E fills, lost \in BOOLEAN :
         /\ MayLose(lost) /\ Lose(lost)
         /\ pos' = IF fills THEN [pos EXCEPT ![p]["yes"] = @ + Count] ELSE pos
         /\ IF lost THEN Goto(p, "askYes")
            ELSE IF fills THEN End(p, "executed") ELSE Goto(p, "unwind")
    /\ UNCHANGED <<mainVars, tries, before, latches, led, fixed, impaired, touched>>

DecideYes(p, v) ==
    LET d == Delta(before[p]["yes"], v)
    IN IF d = Count THEN End(p, "executed")
       ELSE IF d = 0 THEN Goto(p, "unwind")
       ELSE End(p, "manual_review")

AskYes(p) ==
    /\ pc[p] = "askYes"
    /\ \E v \in Readings(p, "yes", 0) :
         /\ Read(p, "yes", v)
         /\ IF RecheckDue(before[p]["yes"], v)
            THEN Goto(p, "recheckYes") ELSE DecideYes(p, v)
    /\ UNCHANGED <<mainVars, tries, before, latches, pos, fixed, touched>>

RecheckYes(p) ==
    /\ pc[p] = "recheckYes"
    /\ \E v \in Readings(p, "yes", 1) : Read(p, "yes", v) /\ DecideYes(p, v)
    /\ UNCHANGED <<mainVars, tries, before, latches, pos, fixed, touched>>

\* The NO contracts on a market, which is all a reduce-only bid can close.
NoHeld(p) == IF pos[p]["no"] < 0 THEN -pos[p]["no"] ELSE 0

\* _rollback_no_leg: one immediate-or-cancel, reduce-only order for the NO count.
\* Only a reply that says all of it closed counts; a partial one raises.
Unwind(p) ==
    /\ pc[p] = "unwind"
    /\ \E closed \in 0 .. Count, lost \in BOOLEAN :
         /\ closed <= NoHeld(p)
         /\ MayLose(lost) /\ Lose(lost)
         /\ pos' = [pos EXCEPT ![p]["no"] = @ + closed]
         /\ End(p, IF closed = Count /\ ~lost THEN "rolled_back"
                                              ELSE "rollback_failed")
    /\ UNCHANGED <<mainVars, tries, before, latches, led, fixed, impaired, touched>>

\* Someone else (a person, another program) trades one of a pair's markets.
OutsideTrade(p, l) ==
    /\ main # "returned"
    /\ Cardinality(touched) < MaxOutside
    /\ p \notin touched
    /\ touched' = touched \cup {p}
    /\ \E d \in {-Count, Count} : pos' = [pos EXCEPT ![p][l] = @ + d]
    /\ UNCHANGED <<mainVars, pc, tries, before, result, latches, led, fixed,
                   faults, impaired>>

PairStep(p) ==
    \/ StopAtEntry(p) \/ BuildRaises(p) \/ Begin(p) \/ ReadBaselines(p)
    \/ SendNo(p) \/ AskNo(p) \/ RecheckNo(p)
    \/ ConfirmEntry(p) \/ CheckMapping(p)
    \/ SendYes(p) \/ AskYes(p) \/ RecheckYes(p) \/ Unwind(p)

\* The batch has ended: nothing more happens.
Returned == main = "returned" /\ UNCHANGED vars

Next ==
    \/ Submit \/ Watch \/ BudgetExpires \/ Return \/ Returned
    \/ \E p \in Pairs : PairStep(p) \/ \E l \in Legs : OutsideTrade(p, l)

Spec == Init /\ [][Next]_vars

\* Each thread keeps running, and every call it makes returns or raises in the
\* end; nothing is assumed of the clock or of anyone else's trades.
Fairness ==
    /\ WF_vars(Submit) /\ WF_vars(Watch) /\ WF_vars(Return)
    /\ \A p \in Pairs : WF_vars(PairStep(p))

FairSpec == Spec /\ Fairness

----------------------------------------------------------------------------
(* Properties.                                                              *)

\* Every variable keeps its type (the shape of the state of execute_trades).
TypeOK ==
    /\ main \in {"submit", "watch", "join", "returned"}
    /\ nextp \in Pairs /\ expired \in BOOLEAN
    /\ pc \in [Pairs -> Steps]
    /\ tries \in [Pairs -> 0 .. Rechecks]
    /\ before \in [Pairs -> [Legs -> Int \cup {Unread}]]
    /\ result \in [Pairs -> Statuses]
    /\ confirmed \in BOOLEAN /\ disproven \in BOOLEAN
    /\ unchecked \subseteq Pairs /\ named \subseteq Pairs
    /\ pos \in [Pairs -> [Legs -> Int]] /\ led \in [Pairs -> [Legs -> Int]]
    /\ pos0 \in [Pairs -> [Legs -> Int]]
    /\ plan \in [Pairs -> Plan] /\ noMove \in Int /\ lag \in Nat
    /\ faults \in 0 .. MaxFaults /\ impaired \subseteq Pairs
    /\ touched \subseteq Pairs

RightMapping == noMove = -Count
Change(p, l) == pos[p][l] - pos0[p][l]

\* A reported status says what the account really holds of the pair: both legs
\* ("executed"), nothing ("failed", "rolled_back"), or at most the NO leg
\* ("rollback_failed"), whatever replies were lost and readings failed, as long
\* as nobody else traded its markets, a NO buy opens NO and a reading made after
\* a pause is up to date (_execute_one's outcome table).
ReportMatchesAccount ==
    RightMapping /\ lag = 0 => \A p \in Pairs \ touched :
        /\ result[p] = "executed" =>
              Change(p, "no") = -Count /\ Change(p, "yes") = Count
        /\ result[p] \in {"failed", "rolled_back"} =>
              Change(p, "no") = 0 /\ Change(p, "yes") = 0
        /\ result[p] = "rollback_failed" =>
              Change(p, "no") \in -Count .. 0 /\ Change(p, "yes") = 0

\* A pair never closes contracts the account held before it, and never buys
\* more than its own count on either side, however its orders end
\* (_execute_legs: an unwind only ever follows a NO leg known to have filled).
OlderContractsKept ==
    \A p \in Pairs \ touched : RightMapping =>
        /\ Change(p, "no") \in -Count .. 0
        /\ Change(p, "yes") \in 0 .. Count

\* An add-on planned on a holding that is no longer there trades nothing
\* (_add_on_mismatch, with a failed reading counted as a mismatch).
AddsOnlyToPlannedHolding ==
    \A p \in Pairs \ touched :
        plan[p].adds /\ pos0[p] # [l \in Legs |-> plan[p][l]] => pos[p] = pos0[p]

\* A late ledger and lost replies alone never stop the run or call for a person:
\* with a right mapping and no outside trade the mapping is never disproven, and
\* a pair whose reads all worked is never left for manual review
\* (_confirm_v2_no_mapping's re-reads and the ambiguous-leg re-reads).
NoFalseAlarm ==
    RightMapping /\ touched = {} /\ lag < Rechecks =>
        /\ ~disproven
        /\ \A p \in Pairs \ impaired : result[p] # "manual_review"

\* While pairs run one at a time a wrong mapping costs one wrong-side position,
\* not counting pairs whose readings failed, with a ledger that one pause brings
\* up to date (execute_trades' serial phase, the mapping check and the stop at
\* entry together).
WrongMappingCostsOne ==
    ~RightMapping /\ lag = 0 /\ ~expired /\ touched = {} =>
        Cardinality({p \in Pairs \ impaired : pos[p] # pos0[p]}) <= 1

\* Every pair reported "executed" on a mapping that was then disproven is one the
\* alert names, as long as pairs ran one at a time (_V2_UNCHECKED_NO_LEGS).
WrongSideNamed ==
    ~RightMapping /\ disproven /\ ~expired /\ touched = {} =>
        \A p \in Pairs : result[p] = "executed" => p \in named

\* The verdict on the mapping: no false alarm, and a wrong mapping costs one
\* position, which is named.
MappingJudgedRight == NoFalseAlarm /\ WrongMappingCostsOne /\ WrongSideNamed

\* The batch always returns, with a status for every pair (execute_trades' wait
\* for a verdict is always released, and the pool is joined).
BatchReturns == <>(main = "returned" /\ \A p \in Pairs : result[p] # "none")
=============================================================================
