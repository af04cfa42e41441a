-------------------------------- MODULE Funds --------------------------------
(***************************************************************************)
(* What a run does besides the orders of a pair, each on state of its own:  *)
(* deciding what of its positions to sell, trim and add to (Holdings), one  *)
(* planned sale (PairSale), the search of the open markets for pairs to buy *)
(* (LiveScan), the transfers between shards before the purchases            *)
(* (ShardCollateral), and the one-cent probe of the order path (Probe).     *)
(* They run one at a time: `part` says which, the variables of the others   *)
(* stand still.                                                             *)
(***************************************************************************)
EXTENDS PairSale

CONSTANTS
    Shards, Portfolios, Openings, Switches, Polls, MaxFailures, \* ShardCollateral's
    Count, None, NaN,                                           \* Probe's
    Runs, MaxPages, MaxBarren, Confirmed,                       \* LiveScan's
    MaxGap, ShortGap, Apart, TwinDiff,
    HeldMarkets, HeldQuestion, HeldSide, HeldCloses,            \* Holdings'
    HeldResults, HeldBefore, HeldBids, LastDay, Counts, MaxTrades,
    SellFrom, HoldDays, SellLeft, TradeLeft, MinDays, MaxAge

VARIABLES
    part, \* "sale", "scan", "shards", "probe", "holdings", or another part
    portfolio, opening, active, dryShards, required, transfers, stage, fate,
    arrived, bal, reading, polls, kept, inFlight, short, failures,
    step, phase, world, position, shown, reply, opened, cent, outcome, told,
    found, walk, served, listed, claims, ladders, offers, searched,
    day, acct, ruled, done

shards == <<portfolio, opening, active, dryShards, required, transfers, stage,
            fate, arrived, bal, reading, polls, kept, inFlight, short, failures>>
probe == <<step, phase, world, position, shown, reply, opened, cent, outcome, told>>
scan == <<found, walk, served, listed, claims, ladders, offers, searched>>
holdings == <<day, acct, ruled, done>>

C == INSTANCE ShardCollateral WITH
        MaxFaults <- MaxFailures,
        dry <- dryShards, plan <- transfers, pc <- stage, faults <- failures

Q == INSTANCE Probe WITH pc <- phase, pos <- position, led <- shown, held <- opened

L == INSTANCE LiveScan WITH stage <- searched

H == INSTANCE Holdings WITH
        Markets <- HeldMarkets, Question <- HeldQuestion, Side <- HeldSide,
        Closes <- HeldCloses, Results <- HeldResults, Before <- HeldBefore, Bids <- HeldBids

ASSUME CollateralAssumption == C!CollateralAssumption
ASSUME ProbeAssumption == Q!ProbeAssumption
ASSUME ScanAssumption == L!ScanAssumption
ASSUME HoldingsAssumption == H!HoldingsAssumption

\* What is sold, trimmed or added to was due, judged with the partner it was
\* bought with.
TradesAreDue == part = "holdings" => H!TradesAreDue /\ H!PartnerIsTrue

\* What a run says of the shards it scanned is so, and the pairs it hands on to
\* be priced are open, not held otherwise, on no ladder the account is on, and
\* the best of their group.
ScanIsTrue == part = "scan" => L!ScanIsTrue

\* What ensure_shard_collateral hands on can be paid, and all that can be paid
\* is handed on; a transfer leaves the source what its own legs need.
KeepsWhatCanBePaid == part = "shards" => C!KeepsWhatCanBePaid /\ C!MovesOnlySpare

\* The alert names the shards that wait for an accepted transfer, no others.
AlertIsRight == C!AlertIsRight

\* A verdict of the probe means what its closing line says, and whatever is
\* left open or away from home is told; with a faithful exchange no more than
\* one cent is ever at stake.
ProbeSpeaksTrue == Q!ProbeSpeaksTrue
=============================================================================
