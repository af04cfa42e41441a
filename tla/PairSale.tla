------------------------------ MODULE PairSale ------------------------------
(***************************************************************************)
(* trader._sell_one: selling one planned sale, a pair's two markets or a    *)
(* lone market, in whole or in part.  The thinner market is sold first with *)
(* an order that may fill partly, then the other market is asked for just   *)
(* what the first one sold.  A reply that is lost or unreadable leaves it   *)
(* to the account: how far its position moved toward zero since a reading   *)
(* made before the first order.                                             *)
(*                                                                          *)
(* A market's position is counted in contracts of the side the plan sells,  *)
(* so a sale makes it smaller.  Sales run one after another, on different   *)
(* markets, so one of them stands for the loop of trader.sell_positions.    *)
(***************************************************************************)
EXTENDS Integers

CONSTANTS
    Plans,      \* planned sales, see IsPlan
    Holdings,   \* what the account may hold on a market of the plan
    Lag,        \* re-read pauses that a late position reading can survive
    Rechecks,   \* config.V2_MAPPING_ZERO_RECHECK_DELAYS_SECONDS: its length
    MaxFaults,  \* bound: failed reads, lost replies and unexpected errors
    MaxOutside, \* bound: contracts someone else buys or sells on the markets
    Unread      \* a reading that failed, a number sold that cannot be told

Legs == {"first", "other"}

\* usable: _sale_legs finds nothing wrong with it; held: what each market held
\* when it was planned.
IsPlan(p) ==
    /\ p \in [usable : BOOLEAN, legs : {{"first"}, Legs}, count : Nat \ {0},
              held : Nat]
    /\ p.count <= p.held

ASSUME SaleAssumption ==
    /\ \A p \in Plans : IsPlan(p)
    /\ Holdings \subseteq Int
    /\ Lag \in Nat /\ Rechecks \in Nat
    /\ MaxFaults \in Nat /\ MaxOutside \in Nat
    /\ Unread \notin Int

VARIABLES
    plan, dry,
    disproven, \* trader._V2_NO_MAPPING_DISPROVEN, which a purchase would set
    pc,        \* "start", "send" or "ask" on some leg, or "done"
    leg,       \* the leg being sold
    asked,     \* contracts its order asks for
    before,    \* leg -> the reading made before the first order
    looks,     \* readings made after the current order
    sold,      \* leg -> contracts this sale is taken to have sold
    status,    \* SaleResult.status, "none" until there is one
    pos,       \* leg -> the account's true position
    led,       \* leg -> the newest position any reading has shown
    pos0,      \* history: the account before the sale
    outside,   \* history: the contracts others traded so far
    faults     \* history: faults so far

account == <<pos, led>>
fixed   == <<plan, dry, disproven, pos0>>
vars    == <<plan, dry, disproven, pc, leg, asked, before, looks, sold, status,
             pos, led, pos0, outside, faults>>

Least(m, n) == IF m < n THEN m ELSE n

Init ==
    /\ plan \in Plans /\ dry \in BOOLEAN /\ disproven \in BOOLEAN
    /\ pc = "start" /\ leg = "first" /\ asked = 0 /\ looks = 0
    /\ before = [l \in Legs |-> Unread] /\ sold = [l \in Legs |-> 0]
    /\ status = "none"
    /\ pos \in [Legs -> Holdings] /\ led = pos /\ pos0 = pos
    /\ outside = 0 /\ faults = 0

End(s) == pc' = "done" /\ status' = s

\* A reading of leg l after k pauses; an old position may show for Lag of them.
Readings(l, k) ==
    (IF k > Lag THEN {pos[l]} ELSE {pos[l], led[l]})
        \cup (IF faults < MaxFaults THEN {Unread} ELSE {})

Fault(happens) == /\ happens => faults < MaxFaults
                  /\ faults' = IF happens THEN faults + 1 ELSE faults

----------------------------------------------------------------------------
\* Nothing is sent: a plan that cannot be used, a dry run, a disproven mapping.
Refuse ==
    /\ pc = "start"
    /\ \/ ~plan.usable /\ End("not_sold")
       \/ plan.usable /\ dry /\ End("simulated")
       \/ plan.usable /\ ~dry /\ disproven /\ End("not_sold")
    /\ UNCHANGED <<leg, asked, before, looks, sold, account, fixed, outside,
                   faults>>

\* Mutant: only the first market's holding is compared with the plan.
AsPlannedFirst(b) == b["first"] = plan.held

\* _holding_problem: each market holds just what the plan says it holds.
AsPlanned(b) == \A l \in plan.legs : b[l] = plan.held

\* The baselines; a sale whose markets hold anything else is not begun.
ReadHoldings ==
    /\ pc = "start" /\ plan.usable /\ ~dry /\ ~disproven
    /\ \E failed \in SUBSET plan.legs :
          /\ Fault(failed # {})
          /\ before' = [l \in Legs |-> IF l \in failed THEN Unread ELSE pos[l]]
          /\ IF AsPlanned(before')
             THEN pc' = "send" /\ asked' = plan.count /\ UNCHANGED status
             ELSE End("not_sold") /\ UNCHANGED asked
    /\ UNCHANGED <<leg, looks, sold, account, fixed, outside>>

\* Mutant: the other market is asked for the whole plan.
AskPlanned(n) == plan.count

\* What the second order asks for.
AskSold(n) == n

\* The status of a lone sale, or of a pair whose two numbers are known.
Verdict(first, other) ==
    IF first = 0 THEN "not_sold"
    ELSE IF other < first THEN "unbalanced"
    ELSE IF first < plan.count THEN "partly_sold" ELSE "sold"

\* What follows when the order on the current leg is taken to have sold n.
Told(n) ==
    /\ sold' = [sold EXCEPT ![leg] = n]
    /\ looks' = 0
    /\ \/ /\ n = Unread
          /\ End("manual_review") /\ UNCHANGED <<leg, asked>>
       \/ /\ n # Unread /\ leg = "first"
          /\ IF n = 0 \/ plan.legs = {"first"}
             THEN End(Verdict(n, n)) /\ UNCHANGED <<leg, asked>>
             ELSE /\ pc' = "send" /\ leg' = "other" /\ asked' = AskSold(n)
                  /\ UNCHANGED status
       \/ /\ n # Unread /\ leg = "other"
          /\ End(Verdict(sold["first"], n)) /\ UNCHANGED <<leg, asked>>

\* The order sells up to what it asks for and, being reduce-only, never more
\* than is held; its reply arrives and says so, or the account is asked.
Send ==
    /\ pc = "send"
    /\ \E n \in 0 .. Least(asked, IF pos[leg] > 0 THEN pos[leg] ELSE 0),
          lost \in BOOLEAN :
          /\ Fault(lost)
          /\ pos' = [pos EXCEPT ![leg] = @ - n]
          /\ IF lost
             THEN pc' = "ask" /\ UNCHANGED <<leg, asked, looks, sold, status>>
             ELSE Told(n)
    /\ UNCHANGED <<before, led, fixed, outside>>

\* Building or pricing an order raises: sell_positions reports the sale unknown.
Raise ==
    /\ pc = "send"
    /\ Fault(TRUE)
    /\ End("manual_review")
    /\ UNCHANGED <<leg, asked, before, looks, sold, account, fixed, outside>>

\* _whole_count of _contracts_sold: unknown unless the order can have sold it.
SoldBy(v) ==
    IF v = Unread THEN Unread
    ELSE LET moved == before[leg] - v
         IN  IF moved \in 0 .. asked THEN moved ELSE Unread

\* Mutant: the first reading is final.
LookAgainNever(v) == FALSE

\* While the position has not moved by all that was asked, it is read again.
LookAgain(v) ==
    v # Unread /\ before[leg] - v < asked /\ looks < Rechecks

Ask ==
    /\ pc = "ask"
    /\ \E v \in Readings(leg, looks) :
          /\ Fault(v = Unread)
          /\ led' = IF v = Unread THEN led ELSE [led EXCEPT ![leg] = v]
          /\ IF LookAgain(v)
             THEN looks' = looks + 1
                  /\ UNCHANGED <<pc, leg, asked, sold, status>>
             ELSE Told(SoldBy(v))
    /\ UNCHANGED <<before, pos, fixed, outside>>

OutsideTrade ==
    /\ pc # "done" /\ outside < MaxOutside
    /\ \E l \in Legs, d \in {-1, 1} : pos' = [pos EXCEPT ![l] = @ + d]
    /\ outside' = outside + 1
    /\ UNCHANGED <<pc, leg, asked, before, looks, sold, status, led, fixed,
                   faults>>

Finished == pc = "done" /\ UNCHANGED vars

Next == \/ Refuse \/ ReadHoldings \/ Send \/ Raise \/ Ask
        \/ OutsideTrade \/ Finished
Spec == Init /\ [][Next]_vars

----------------------------------------------------------------------------
(* Properties.                                                              *)

Statuses == {"none", "simulated", "not_sold", "partly_sold", "sold",
             "unbalanced", "manual_review"}

TypeOK ==
    /\ pc \in {"start", "send", "ask", "done"} /\ leg \in plan.legs
    /\ asked \in 0 .. plan.count /\ looks \in 0 .. Rechecks
    /\ \A l \in Legs : /\ sold[l] \in 0 .. plan.count \cup {Unread}
                       /\ before[l] = Unread \/ before[l] \in Int
                       /\ pos[l] \in Int /\ led[l] \in Int
    /\ status \in Statuses /\ faults \in 0 .. MaxFaults

Gone(l) == pos0[l] - pos[l]

\* What a finished sale reports is what happened to the account, when nobody
\* else traded: whatever replies were lost, and with a ledger no later than the
\* re-reads allow for.
SaleReportMatchesAccount ==
    /\ pc = "done" /\ outside = 0 /\ Lag <= Rechecks - 1
    => /\ status \in {"simulated", "not_sold"} => \A l \in Legs : Gone(l) = 0
       /\ status = "sold"        => \A l \in plan.legs : Gone(l) = plan.count
       /\ status = "partly_sold" => \E n \in 1 .. plan.count - 1 :
                                        \A l \in plan.legs : Gone(l) = n
       /\ status = "unbalanced"  => /\ Gone("other") < Gone("first")
                                    /\ \A l \in Legs : Gone(l) = sold[l]

\* The other market never sells more than the first one did, however late the
\* ledger and whatever is lost: a sale cannot open the opposite imbalance.
HedgeNeverOversold == outside = 0 => Gone("other") <= Gone("first")

\* A sale touches only the contracts it was planned for: when either market held
\* something else before it, nothing is sold on either.
SellsOnlyThePlannedHolding ==
    outside = 0 /\ (\E l \in plan.legs : pos0[l] # plan.held) => pos = pos0
=============================================================================
