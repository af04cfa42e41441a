--------------------------- MODULE ShardCollateral ---------------------------
(***************************************************************************)
(* trader.ensure_shard_collateral: before any order is sent, cash is moved  *)
(* between the exchange's shards so that each leg of each selected pair can *)
(* be paid on its own shard, and the pairs that still cannot are dropped.   *)
(*                                                                          *)
(* A transfer is asynchronous (accepting it debits the source, the          *)
(* destination is credited some time later) and not idempotent (a request   *)
(* whose reply was lost is never sent again, and may have been accepted).   *)
(* The only proof that money arrived is a balance read.                     *)
(***************************************************************************)
EXTENDS Integers, Sequences, FiniteSetsExt

CONSTANTS
    Shards,     \* exchange_index values
    Portfolios, \* selected pairs: sequences of [a, ca, b, cb], a shard and the
                \* whole cents of cash it must hold for each leg
    Openings,   \* the cash the run read on each shard
    Switches,   \* the sets of shards on which transfers may be active
    Polls,      \* balance reads that fit into the settlement timeout
    MaxFaults   \* bound: failed transfer requests and failed reads

CollateralAssumption ==
    /\ Shards \subseteq Nat /\ IsFiniteSet(Shards)
    /\ Openings \subseteq [Shards -> Nat]
    /\ \A f \in Portfolios : f \in Seq([a : Shards, ca : Nat, b : Shards, cb : Nat])
    /\ Switches \subseteq SUBSET Shards
    /\ Polls \in Nat \ {0} /\ MaxFaults \in Nat

VARIABLES
    portfolio, opening, active, dry, \* the call's arguments
    required, \* shard -> the cents its legs need
    plan,     \* the planned transfers, [from, to, cents]
    pc,       \* "start", "send", "await" or "done"
    fate,     \* what became of each planned transfer's request so far
    arrived,  \* the transfers whose destination has been credited
    bal,      \* the cash really on each shard
    reading,  \* the balances the decision uses: the last read
    polls,    \* reads made while waiting
    kept,     \* the pairs handed on to be bought
    inFlight, \* the shards named in the "MONEY IS IN FLIGHT" alert
    short,    \* the shards reported as settled but still short
    faults    \* history: failed requests and failed reads so far

arguments == <<portfolio, opening, active, dry, required>>
vars == <<portfolio, opening, active, dry, required, plan, pc, fate, arrived,
          bal, reading, polls, kept, inFlight, short, faults>>

----------------------------------------------------------------------------
(* What is needed where, and the plan that moves it there.                  *)

Total(f, S) == MapThenSumSet(LAMBDA x : f[x], S)

\* What the pairs ks need on shard s.
PairCost(p, s) == (IF p.a = s THEN p.ca ELSE 0) + (IF p.b = s THEN p.cb ELSE 0)
Cost(ks, s)    == Total([k \in DOMAIN portfolio |-> PairCost(portfolio[k], s)], ks)

\* _required_cents_by_shard.
Required == [s \in Shards |-> Cost(DOMAIN portfolio, s)]

Unfunded(balances) == {s \in Shards : balances[s] < required[s]}

Above(x) == IF x > 0 THEN x ELSE 0

\* Mutants: a source gives away what it needs itself; only shards that some leg
\* needs are looked at for cash.
SpareAll(s)    == opening[s]
SpareNeeded(s) == IF required[s] = 0 THEN 0 ELSE Above(opening[s] - required[s])

Spare(s) == Above(opening[s] - required[s])

\* The next move: to the lowest shard still short, from the largest surplus
\* (of equals the lowest shard), as much as both allow.
Move(need, spare) ==
    LET d == Min({s \in Shards : need[s] > 0})
        f == CHOOSE s \in Shards : \A r \in Shards :
                 spare[s] > spare[r] \/ (spare[s] = spare[r] /\ s <= r)
    IN  [from |-> f, to |-> d, cents |-> Min({need[d], spare[f]})]

\* _plan_transfers: moves until nothing is short or nothing is left to move;
\* each move ends a shortage or empties a surplus.
Over(st) == (\A s \in Shards : st.need[s] = 0) \/ (\A s \in Shards : st.spare[s] = 0)

Unmoved == [need  |-> [s \in Shards |-> Above(required[s] - opening[s])],
            spare |-> [s \in Shards |-> Spare(s)],
            moves |-> <<>>]

Moved(st) ==
    LET m == Move(st.need, st.spare)
    IN  IF Over(st) THEN st
        ELSE [need  |-> [st.need EXCEPT ![m.to] = @ - m.cents],
              spare |-> [st.spare EXCEPT ![m.from] = @ - m.cents],
              moves |-> Append(st.moves, m)]

After[k \in 0 .. Cardinality(Shards)] == IF k = 0 THEN Unmoved ELSE Moved(After[k - 1])

Plan == After[Cardinality(Shards)].moves

Requests == DOMAIN fate

AcceptedTo(s) == {k \in Requests : fate[k] = "accepted" /\ plan[k].to = s}

\* Mutant: only the last accepted transfer to a shard is remembered.
AcceptedLast(s) ==
    IF AcceptedTo(s) = {} THEN 0 ELSE plan[Max(AcceptedTo(s))].cents

\* The cents that the accepted transfers take to shard s.
Cents       == [k \in DOMAIN plan |-> plan[k].cents]
Accepted(s) == Total(Cents, AcceptedTo(s))

Destinations == {s \in Shards : AcceptedTo(s) # {}}

\* What the accepted transfers can deliver to their destinations.
Awaitable ==
    [s \in Destinations |-> Min({required[s], opening[s] + Accepted(s)})]

\* Mutant: acceptance is taken for settlement.
ReadAccepted == [s \in Shards |-> opening[s] + Accepted(s)]

BalancesRead == bal

Nothing == [s \in Shards |-> 0]

----------------------------------------------------------------------------
Init ==
    /\ portfolio \in Portfolios /\ opening \in Openings
    /\ active \in Switches /\ dry \in BOOLEAN
    /\ required = Required /\ plan = <<>>
    /\ pc = "start" /\ fate = <<>> /\ arrived = {}
    /\ bal = opening /\ reading = opening
    /\ polls = 0 /\ kept = {} /\ inFlight = {} /\ short = {} /\ faults = 0

\* Nothing selected, nothing short, or a dry run: every pair is handed back and
\* nothing is sent.
NoTransfers ==
    /\ pc = "start"
    /\ Unfunded(opening) = {} \/ dry
    /\ pc' = "done" /\ kept' = DOMAIN portfolio
    /\ UNCHANGED <<arguments, plan, fate, arrived, bal, reading, polls,
                   inFlight, short, faults>>

Begin ==
    /\ pc = "start"
    /\ Unfunded(opening) # {} /\ ~dry
    /\ pc' = "send" /\ plan' = Plan
    /\ UNCHANGED <<arguments, fate, arrived, bal, reading, polls, kept,
                   inFlight, short, faults>>

\* The next planned transfer, by what becomes of it.
Following == plan[Len(fate) + 1]

\* Transfers are not active on one of the two shards: it is not requested.
Skip ==
    /\ pc = "send" /\ Len(fate) < Len(plan)
    /\ ~({Following.from, Following.to} \subseteq active)
    /\ fate' = Append(fate, "skipped")
    /\ UNCHANGED <<arguments, plan, pc, arrived, bal, reading, polls, kept,
                   inFlight, short, faults>>

\* What is heard of a request.  An answer that says it was taken but cannot be
\* read counts as taken; one that never arrives may be of either kind, and looks
\* to the caller like a refusal.
Replies == {"transfer id", "not JSON", "no object", "refused", "nothing"}
ExecuteTransfer(reply) ==
    CASE reply \in {"transfer id", "not JSON", "no object"} -> "accepted"
      [] reply = "refused" -> "refused"
      [] reply = "nothing" -> "lost"

\* A request that is "lost" was accepted all the same.
Request(reply) ==
    LET outcome == ExecuteTransfer(reply)
    IN  /\ pc = "send" /\ Len(fate) < Len(plan)
        /\ {Following.from, Following.to} \subseteq active
        /\ reply # "transfer id" => faults < MaxFaults
        /\ fate' = Append(fate, outcome)
        /\ bal' = IF outcome = "refused" THEN bal
                  ELSE [bal EXCEPT ![Following.from] = @ - Following.cents]
        /\ faults' = IF reply = "transfer id" THEN faults ELSE faults + 1
        /\ UNCHANGED <<arguments, plan, pc, arrived, reading, polls, kept, inFlight,
                       short>>

\* The exchange credits a destination, at any time after it took the request.
Settle(k) ==
    /\ fate[k] \in {"accepted", "lost"} /\ k \notin arrived
    /\ arrived' = arrived \cup {k}
    /\ bal' = [bal EXCEPT ![plan[k].to] = @ + plan[k].cents]
    /\ UNCHANGED <<arguments, plan, pc, fate, reading, polls, kept, inFlight,
                   short, faults>>

\* Mutant: an alert for every accepted transfer to a shard still short.
InFlightAll(balances) == Unfunded(balances) \cap Destinations

\* The shards short of what the accepted transfers could deliver.
InFlight(balances) ==
    {s \in Unfunded(balances) \cap Destinations : balances[s] < Awaitable[s]}

\* _partition_by_funding: both legs' shards are funded.
Payable(p, balances) == {p.a, p.b} \cap Unfunded(balances) = {}

Decide(balances) ==
    /\ pc' = "done"
    /\ kept' = {k \in DOMAIN portfolio : Payable(portfolio[k], balances)}
    /\ inFlight' = InFlight(balances)
    /\ short' = (Unfunded(balances) \cap Destinations) \ InFlight(balances)

\* All requests made: with none accepted the opening balances still stand.
Sent ==
    /\ pc = "send" /\ Len(fate) = Len(plan)
    /\ IF Destinations = {}
       THEN Decide(opening)
       ELSE pc' = "await" /\ UNCHANGED <<kept, inFlight, short>>
    /\ UNCHANGED <<arguments, plan, fate, arrived, bal, reading, polls, faults>>

\* The deadline has passed: at the latest when the timeout's reads are made.
TimeUp(late) == polls + 1 >= Polls => late

\* One read of the settlement wait; a failed one shows nothing.
Poll ==
    /\ pc = "await"
    /\ \E failed, late \in BOOLEAN :
          /\ failed => faults < MaxFaults
          /\ TimeUp(late)
          /\ reading' = IF failed THEN Nothing ELSE BalancesRead
          /\ faults' = IF failed THEN faults + 1 ELSE faults
          /\ polls' = Min({polls + 1, Polls})
          /\ IF late \/ \A s \in Destinations : reading'[s] >= Awaitable[s]
             THEN Decide(reading')
             ELSE UNCHANGED <<pc, kept, inFlight, short>>
    /\ UNCHANGED <<arguments, plan, fate, arrived, bal>>

\* The call is over; a transfer still under way may settle.
Finished == pc = "done" /\ UNCHANGED vars

Step == NoTransfers \/ Begin \/ Skip \/ Sent \/ Poll
        \/ \E o \in Replies : Request(o)

Next == Step \/ (\E k \in Requests : Settle(k)) \/ Finished

Spec == Init /\ [][Next]_vars

----------------------------------------------------------------------------
(* Properties.                                                              *)

TypeOK ==
    /\ pc \in {"start", "send", "await", "done"}
    /\ Len(fate) <= Len(plan)
    /\ \A k \in Requests :
          fate[k] \in {"skipped", "accepted", "refused", "lost"}
    /\ arrived \subseteq Requests
    /\ bal \in [Shards -> Nat] /\ reading \in [Shards -> Nat]
    /\ polls \in 0 .. Polls /\ faults \in 0 .. MaxFaults
    /\ kept \subseteq DOMAIN portfolio
    /\ inFlight \subseteq Shards /\ short \subseteq Shards

\* Every pair handed on can be paid on each shard from cash that is really
\* there, never from a transfer under way: acceptance is not settlement.
KeptIsPayable ==
    pc = "done" /\ ~dry => \A s \in Shards : Cost(kept, s) <= bal[s]

\* When the account as a whole can pay, transfers are active everywhere, none
\* fails and all had settled by the last read, no pair is dropped.
WaitPaysOff ==
    /\ pc = "done" /\ faults = 0 /\ active = Shards
    /\ reading = bal /\ arrived = Requests
    /\ Total(opening, Shards) >= Total(required, Shards)
    => kept = DOMAIN portfolio

\* ensure_shard_collateral drops neither too few pairs nor too many: what it
\* hands on can be paid from settled cash, and what the account could pay for
\* is handed on.
KeepsWhatCanBePaid == KeptIsPayable /\ WaitPaysOff

\* A transfer never takes cash that the source's own legs need, even when one
\* was accepted without the caller knowing (_plan_transfers).
MovesOnlySpare == \A s \in Shards : bal[s] >= Min({opening[s], required[s]})

\* A shard is dropped with an accepted transfer still under way: the alert names
\* it, unless a request thought to have failed brought money there.
InFlightReported ==
    pc = "done" =>
        \A k \in Requests :
            /\ fate[k] = "accepted" /\ k \notin arrived
            /\ plan[k].to \in Unfunded(reading)
            /\ \A j \in arrived : fate[j] = "lost" => plan[j].to # plan[k].to
            => plan[k].to \in inFlight

\* A step that raises the alert with a fresh reading names no shard to which
\* every accepted transfer had been credited (DR-65).
NamesNothingArrived ==
    \A s \in Shards :
        /\ pc = "await" /\ reading' = bal
        /\ \A k \in Requests : fate[k] = "accepted" /\ plan[k].to = s
                                 => k \in arrived
        => s \notin inFlight'

\* The "MONEY IS IN FLIGHT" alert names each shard that waits for an accepted
\* transfer, and none for which nothing is under way.
AlertIsRight == [][InFlightReported' /\ NamesNothingArrived]_vars
=============================================================================
