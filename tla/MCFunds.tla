------------------------------- MODULE MCFunds -------------------------------
(***************************************************************************)
(* What is done with the account besides the orders of a pair, side by      *)
(* side: deciding what to sell, trim and add to (Holdings) and how much of  *)
(* it (KellyTrim), selling a planned sale (PairSale), searching the open    *)
(* markets (LiveScan), choosing what to buy and how much (PairSizing),      *)
(* moving cash between shards (ShardCollateral) and trying the order path   *)
(* with one cent (Probe).  A behaviour is one of them; the variables of the *)
(* others stand still.                                                      *)
(***************************************************************************)
EXTENDS Funds, Sequences, TLC

VARIABLES h1, h2, h3, h4, h5, h6   \* of KellyTrim and PairSizing

plans == <<h1, h2, h3, h4, h5, h6>>

\* One or two pairs, each with its legs on any two shards (or on one).
MCSpecs == [a : Shards, ca : {1}, b : Shards, cb : {2}]
MCPortfolios ==
    {<<p>> : p \in MCSpecs} \cup {<<p, q>> : p \in MCSpecs, q \in MCSpecs}

MCOpenings == [Shards -> {0, 1, 3}]
MCSwitches == {Shards, {0, 1}, {0, 2}}

\* Two stakes on one question may share the later market; x of another
\* question settled with as many contracts.
MCHeldMarkets == {"e", "f", "l", "x"}
MCHeldQuestion == [e |-> "q", f |-> "q", l |-> "q", x |-> "r"]
MCHeldSide == [e |-> "yes", f |-> "yes", l |-> "no", x |-> "yes"]
MCHeldCloses == [e |-> 1, f |-> 2, l |-> 5, x |-> 1]
MCHeldResults == [e |-> {"yes", "no"}, f |-> {"yes", "void"}, l |-> {}, x |-> {}]
MCHeldBefore == [e |-> {0}, f |-> {0}, l |-> {0}, x |-> {1}]
MCHeldBids == [e |-> {3}, f |-> {1}, l |-> {1, 3, None}, x |-> {1}]

K == INSTANCE KellyTrim WITH
        Payout <- 10, Count <- 5, Values <- {20, 40, 60, 100}, Chances <- {5, 8, 9},
        Caps <- {5, 10, 20, 30, 40, 60, 100}, Tops <- {2, 4, 6, 7, 8}, Drops <- {-1, 0, 1},
        Scan <- 1, input <- h1, answer <- h2

(* Time-series pairs of two questions, e and l on one ladder as a new pair, *)
(* an add-on and the partner of a market held alone; f and g on that ladder *)
(* too; same-title pairs that share a market with one of them, or none.     *)
Offer(kind, a, b, adds, stake, labels, lone) ==
    [kind |-> kind, a |-> a, b |-> b, adds |-> adds, stake |-> stake, labels |-> labels,
     lone |-> lone, mult |-> [a |-> 1, b |-> IF kind = "time_series" THEN 2 ELSE 1]]
MCNewEL == Offer("time_series", "e", "l", "no", 0, {"v"}, {})
MCMoreEL == Offer("time_series", "e", "l", "pair", 8, {"v"}, {})
MCLoneEL == Offer("time_series", "e", "l", "lone", 5, {"v"}, {"v"})
MCNewFG == Offer("time_series", "f", "g", "no", 0, {"v"}, {})
MCSameGF == Offer("same_title", "g", "f", "no", 0, {}, {})
MCSameLF == Offer("same_title", "l", "f", "no", 0, {}, {})
MCScans ==
    {[pairs |-> <<MCNewEL, MCSameGF>>, held |-> {}], [pairs |-> <<MCMoreEL, MCSameGF>>, held |-> {"v"}],
     [pairs |-> <<MCLoneEL, MCNewFG>>, held |-> {"v", "w"}],
     [pairs |-> <<MCNewEL, MCSameLF>>, held |-> {}], [pairs |-> <<MCNewEL, MCNewFG>>, held |-> {}]}

(* Replies in dollars and in cents, one whose keys are of two generations,  *)
(* an empty one and a failure; bids nobody can pay; books crossed and not.  *)
Bids(yes, no) == [yes |-> yes, no |-> no]
Dollars(bids) == [under |-> "orderbook_fp", sides |-> [dollars |-> bids]]
Cents(bids)   == [under |-> "orderbook", sides |-> [cents |-> bids]]
MCReplies ==
    [e |-> {Dollars(Bids(y, n)) : y \in {<<1>>, <<6>>},
                n \in {<<12, 11, 10, 10>>, <<12, 13, 12>>, <<10, 10, 16, 0>>}} \cup {None},
     l |-> {Cents(Bids(y, n)) : y \in {<<10, 9, 8, 7>>, <<9, 9, 9>>, <<7, 7>>},
                n \in {<<5>>, <<7, 3>>}},
     f |-> {Dollars(Bids(<<4, 3>>, <<12, 12, 11>>)), [under |-> "orderbook_fp", sides |-> [cents |-> <<>>]]},
     g |-> {Dollars(Bids(<<10, 10, 9>>, n)) : n \in {<<10, 10, 8>>, <<5, 4>>}}
             \cup {[under |-> "orderbook", sides |-> <<>>]}]

Z == INSTANCE PairSizing WITH
        Payout <- 16, TakerFee <- [n |-> 1, d |-> 14], Coarse <- 2, Fine <- {"e", "g"}, Edge <- 4,
        Slippage <- 1, Worlds <- MCScans, Discount <- [n |-> 1, d |-> 2],
        SizeCap <- [n |-> 3, d |-> 5], SameTitleCap <- [n |-> 2, d |-> 5],
        SameTitleChance <- [n |-> 19, d |-> 20], Floor <- 2, Ceiling <- 10, SameTitleDiff <- 1,
        Replies <- MCReplies, Values <- {90, 260}, Cashes <- {22, 45, 90},
        world <- h1, books <- h2, account <- h3, stage <- h4, specs <- h5, chosen <- h6

MCShards == 0 .. 2

\* Whole sales and trims of a pair and of a lone market.
MCPlans == {[usable |-> u, legs |-> ls, count |-> c, held |-> h] :
                u \in BOOLEAN, ls \in {{"first"}, Legs}, c \in {1, 2}, h \in {2, 3}}

MCHoldings == {0, 2, 3}

----------------------------------------------------------------------------
(* The search.  Listings of pages that repeat, run short or end in nothing, *)
(* and listings of one page, whose markets vary with what is held.          *)

Listed(t, ev, se, q, x, says, close, prices) ==
    [ticker |-> t, event |-> ev, series |-> se, question |-> q, about |-> q, text |-> x,
     says |-> says, states |-> says, close |-> close, yes |-> prices[1], no |-> prices[2],
     active |-> TRUE, shard |-> 1, label |-> "s", meta |-> "absent",
     quadratic |-> TRUE, override |-> None]

Rung(t, ev, says, prices) == Listed(t, ev, "k", "q", t, says, says, prices)
Twin(t, ev, se, prices)   == Listed(t, ev, se, t, "x", None, 4, prices)
Page(markets, cursor) == [markets |-> markets, cursor |-> cursor]
LastPages(lists) == [open |-> {Page(l, None) : l \in lists}, mve |-> {Page(<<>>, None)}]
NobodyHome == [held |-> {}, sold |-> {}, looked |-> <<>>, addOns |-> {}]
Plain0 == [status |-> None, funds |-> {1}, account |-> NobodyHome,
          rule |-> [floor |-> [long \in BOOLEAN |-> IF long THEN 30 ELSE 10], ceiling |-> 60],
          series |-> <<>>, horizon |-> None, pages |-> LastPages({<<>>})]

Entry(i, a) == [index |-> i, active |-> a]
MCStatuses ==
    {None, <<>>, <<Entry(None, "true")>>}
    \cup {<<Entry(2, a)>> : a \in {"true", "off"}}
    \cup {<<Entry(0, a), Entry(1, b)>> : a \in {"true", "off", "empty", "null"}, b \in {"1", "0", "maybe"}}
    \cup {<<Entry(1, a), Entry(2, "on"), Entry(1, b)>> : a \in {"true", "false"}, b \in {"true", "false"}}
r1 == Rung("m", "e", 3, <<20, 80>>)
r2 == [Rung("n", "e", 5, <<50, 60>>) EXCEPT !.shard = None]
ByListing ==
    {[Plain0 EXCEPT !.status = st, !.funds = f,
        !.pages = [open |-> {Page(<<r1>>, None), Page(<<r1>>, "c"), Page(<<r2>>, "d"),
                             Page(<<[r2 EXCEPT !.active = FALSE]>>, None)},
                   mve |-> {Page(<<>>, "c"), Page(<<>>, "d"), Page(<<r2>>, "d"), Page(<<r1>>, None)}]] :
        st \in MCStatuses, f \in {{}, {1}, {0, 2}}}

\* Three rungs of one question, and two that are listed by other events.
Rungs == <<Rung("m", "e", 3, <<20, 80>>), Rung("n", "e", 5, <<50, 60>>), Rung("o", "f", 4, <<40, 60>>)>>
Held(h, gone, looked, adds) == [held |-> h, sold |-> gone, looked |-> looked, addOns |-> adds]
Shut(t) ==
    CASE t = "m" -> {[Rungs[1] EXCEPT !.active = FALSE]}
      [] t = "n" -> {[Rungs[2] EXCEPT !.active = FALSE]}
      [] t = "z" -> {[Rung("z", e, 2, <<50, 50>>) EXCEPT !.question = q, !.about = q] :
                        e \in {"e", "f", "g"}, q \in {"q", "r"}}
Looks(h) == {l \in [h -> {None} \cup UNION {Shut(t) : t \in h}] : \A t \in h : l[t] \in {None} \cup Shut(t)}
MCAdds(h) ==
    {{}} \cup {{[t \in {x} |-> s]} : x \in h, s \in {"yes", "no"}}
         \cup {{x :> "yes" @@ y :> "no"} : x \in h, y \in h \ {"z"}}
MCAccounts ==
    UNION {{Held(h, gone, looked, adds) :
               gone \in SUBSET ({"m", "n"} \ h), looked \in Looks(h),
               adds \in {a \in MCAdds(h) : \A o \in a : DOMAIN o \subseteq h}} :
           h \in {{}, {"m"}, {"n"}, {"z"}, {"m", "n"}, {"m", "z"}, {"m", "n", "z"}}}
ByHolding ==
    {[Plain0 EXCEPT !.account = a, !.horizon = hz,
         !.pages = LastPages({Rungs, Tail(Rungs), <<Rungs[1], Rungs[3]>>})] : a \in MCAccounts, hz \in {None, 4}}

\* Prices, events, fees and what a listing says of a market.
MCPrices == {<<20, 80>>, <<20, 50>>, <<40, 60>>, <<60, 78>>, <<78, 30>>, <<0, 100>>, <<40, None>>}
ByPrices ==
    {[Plain0 EXCEPT !.series = [k \in {"k"} |-> mult[1]], !.pages = LastPages(
        {<<[Rung("m", e, 3, p) EXCEPT !.override = mult[2]],
           [Rung("n", f, s, q) EXCEPT !.close = c],
           Rung("o", "e", 6, r)>> : r \in {<<50, 60>>, <<1, 99>>}})] :
        mult \in {<<0, None>>, <<1, 2>>, <<2, 1>>},
        e \in {"e", ""}, f \in {"e", ""}, s \in {None, 3, 5}, c \in {None, 2, 9},
        p \in MCPrices, q \in MCPrices}
ByTwin ==
    {[Plain0 EXCEPT !.account = a, !.pages = LastPages(
        {<<[Twin("m", "e", "k", p) EXCEPT !.meta = c],
           [Twin("n", f[1], f[2], q) EXCEPT !.meta = d, !.quadratic = d = "cup"],
           Twin("o", "h", "l", <<40, 60>>),
           Rung("v", "u", 3, <<20, 80>>), Rung("w", "u", 4, <<50, 52>>)>> : c \in {"absent", "odd", "cup"}, d \in {"absent", "cup"}})] :
        p \in MCPrices, q \in MCPrices, f \in {<<"e", "k">>, <<"f", "l">>, <<"f", "">>},
        a \in {NobodyHome, Held({"z"}, {}, [t \in {"z"} |-> None], {}), Held({"m"}, {"n"}, [t \in {"m"} |-> None], {}),
               Held({"m"}, {}, [t \in {"m"} |-> None], {[t \in {"m"} |-> "yes"]}),
               Held({"m", "n"}, {}, [t \in {"m", "n"} |-> None], {"m" :> "no" @@ "n" :> "yes"})}}

MCScanRuns == ByListing \cup ByHolding \cup ByPrices \cup ByTwin

----------------------------------------------------------------------------
\* No sale, as someone else's trade marks it for the properties of PairSale.
NoSale ==
    /\ pc = "idle" /\ plan = 0 /\ dry = 0 /\ disproven = 0 /\ leg = 0 /\ asked = 0
    /\ before = 0 /\ looks = 0 /\ sold = 0 /\ status = 0 /\ pos = 0 /\ led = 0
    /\ pos0 = 0 /\ outside = 1 /\ faults = 0

NoShards ==
    /\ stage = "idle" /\ portfolio = 0 /\ opening = 0 /\ active = 0 /\ dryShards = 0
    /\ required = 0 /\ transfers = 0 /\ fate = 0 /\ arrived = 0 /\ bal = 0
    /\ reading = 0 /\ polls = 0 /\ kept = 0 /\ inFlight = 0 /\ short = 0
    /\ failures = 0

NoProbe ==
    /\ phase = "idle" /\ step = 0 /\ world = 0 /\ position = 0 /\ shown = 0
    /\ reply = 0 /\ opened = 0 /\ cent = "source" /\ outcome = None /\ told = FALSE

NoScan ==
    /\ found = 0 /\ walk = 0 /\ served = 0 /\ listed = 0 /\ claims = 0 /\ ladders = 0
    /\ offers = 0 /\ searched = 0

NoPlans == h1 = 0 /\ h2 = 0 /\ h3 = 0 /\ h4 = 0 /\ h5 = 0 /\ h6 = 0
NoHoldings == day = 0 /\ acct = 0 /\ ruled = 0 /\ done = 0

MCInit ==
    \/ part = "sale"   /\ Init   /\ NoShards /\ NoProbe /\ NoScan /\ NoHoldings /\ NoPlans
    \/ part = "shards" /\ C!Init /\ NoSale   /\ NoProbe /\ NoScan /\ NoHoldings /\ NoPlans
    \/ part = "probe"  /\ Q!Init /\ NoSale   /\ NoShards /\ NoScan /\ NoHoldings /\ NoPlans
    \/ part = "scan"   /\ L!Init /\ NoSale   /\ NoShards /\ NoProbe /\ NoHoldings /\ NoPlans
    \/ part = "holdings" /\ H!Init /\ NoSale /\ NoShards /\ NoProbe /\ NoScan /\ NoPlans
    \/ /\ part = "trim" /\ K!Init /\ h3 = 0 /\ h4 = 0 /\ h5 = 0 /\ h6 = 0
       /\ NoSale /\ NoShards /\ NoProbe /\ NoScan /\ NoHoldings
    \/ part = "sizing" /\ Z!Init /\ NoSale   /\ NoShards /\ NoProbe /\ NoScan /\ NoHoldings

Selling   == part = "sale"     /\ UNCHANGED <<part, shards, probe, scan, holdings, plans>>
Moving    == part = "shards"   /\ UNCHANGED <<part, vars, probe, scan, holdings, plans>>
Probing   == part = "probe"    /\ UNCHANGED <<part, vars, shards, scan, holdings, plans>>
Searching == part = "scan"     /\ UNCHANGED <<part, vars, shards, probe, holdings, plans>>
Holding   == part = "holdings" /\ UNCHANGED <<part, vars, shards, probe, scan, plans>>
Trimming  == part = "trim"     /\ UNCHANGED <<part, vars, shards, probe, scan, holdings, h3, h4, h5, h6>>
Sizing    == part = "sizing"   /\ UNCHANGED <<part, vars, shards, probe, scan, holdings>>

MCNext ==
    \/ Selling /\ Refuse
    \/ Selling /\ ReadHoldings
    \/ Selling /\ Send
    \/ Selling /\ Raise
    \/ Selling /\ Ask
    \/ Selling /\ OutsideTrade
    \/ Selling /\ Finished
    \/ Moving /\ C!NoTransfers
    \/ Moving /\ C!Begin
    \/ Moving /\ C!Skip
    \/ Moving /\ \E o \in C!Replies : C!Request(o)
    \/ Moving /\ C!Sent
    \/ Moving /\ C!Poll
    \/ Moving /\ \E k \in C!Requests : C!Settle(k)
    \/ Moving /\ C!Finished
    \/ Probing /\ Q!Refuse
    \/ Probing /\ Q!NoMarket
    \/ Probing /\ Q!MappingOpen
    \/ Probing /\ Q!MappingReply
    \/ Probing /\ Q!MappingVerdict
    \/ Probing /\ Q!MappingClose
    \/ Probing /\ Q!MappingEnd
    \/ Probing /\ Q!UnfillableOpen
    \/ Probing /\ Q!UnfillableEnd
    \/ Probing /\ Q!YesOpen
    \/ Probing /\ Q!YesReply
    \/ Probing /\ Q!YesVerdict
    \/ Probing /\ Q!YesCloses
    \/ Probing /\ Q!YesEnd
    \/ Probing /\ Q!TransferOut
    \/ Probing /\ Q!Settle
    \/ Probing /\ Q!TransferBack
    \/ Probing /\ Q!TransferEnd
    \/ Probing /\ Q!Finished
    \/ Holding /\ H!NextDay
    \/ Holding /\ H!Finished
    \/ Holding /\ \E e, l \in HeldMarkets, n \in Counts : H!Open(e, l, n)
    \/ Holding /\ \E m \in HeldMarkets, at \in {day, day + 1} :
            \E r \in HeldResults[m] : H!Settle(m, r, at)
    \/ Holding /\ \E ms \in H!HeldPairs, blind \in SUBSET H!Settlements : H!Sell(ms, blind)
    \/ Holding /\ \E ms \in H!HeldPairs, n \in Counts, blind \in SUBSET H!Settlements, f \in 0 .. day :
            H!Trim(ms, n, blind, f)
    \/ Holding /\ \E ms \in H!HeldPairs, n \in Counts, f \in 0 .. day : H!AddOn(ms, n, f)
    \/ Trimming /\ \E c \in {5, 10, 20, 30, 40, 60, 100} : K!Decide(c)
    \/ Trimming /\ K!Finished
    \/ Sizing /\ Z!Size
    \/ Sizing /\ Z!Select
    \/ Sizing /\ Z!BookMoves
    \/ Sizing /\ Z!PreExecutionCheck
    \/ Sizing /\ Z!Finished
    \/ Searching /\ \E page \in found.pages.open \cup found.pages.mve : L!FetchPage(page)
    \/ Searching /\ L!Cover
    \/ Searching /\ L!Resolve
    \/ Searching /\ L!Search
    \/ Searching /\ L!Finished

MCSpec == MCInit /\ [][MCNext]_<<part, vars, shards, probe, scan, holdings, plans>>

----------------------------------------------------------------------------
(* The properties are those of PairSale, of ShardCollateral while it moves   *)
(* cash, and of the other modules while they run.                          *)

\* A trade of any size is right at the price of that very size: a purchase at
\* what it costs, a trim at what it returns, whatever the size cap above
\* cap_free_from.
SizedAtItsPrice ==
    /\ part = "sizing" => Z!SizedAtItsPrice
    /\ part = "trim" => K!TrimIsRight

\* The cash pays for what is picked whatever it fills at, no two trades meet,
\* and what passed the last look fills in full on the books looked at.
PickedCanBeBought == part = "sizing" => Z!CashCovers /\ Z!LookedAtFills
=============================================================================
