------------------------------ MODULE MCBacktest ------------------------------
(***************************************************************************)
(* The parts of a backtest, each on instances of its own: finding the pairs *)
(* that may be entered (PairScan), walking through the days with them       *)
(* (Replay), leaving out the runs of a grid whose outcome is known          *)
(* (SweepReuse), packing the page's data (PageChunks), putting the page in  *)
(* place (PagePublish), and reading it (Pages).  A behaviour is that of one *)
(* part; the parts take turns in the same variables, those of Pages.        *)
(***************************************************************************)
EXTENDS Pages, Sequences, FiniteSets, TLC

CONSTANT None

-------------------------------------------------------------------------------
(* The walk.                                                                *)

(* Time-series pairs el and gl are on one ladder and share their later      *)
(* market; fn meets them only where its later market's ladder meets l's; a  *)
(* same-title pair shares l too, on a ladder of its own.                    *)
MCMarkets == {"e", "f", "g", "l", "n", "s"}
MCPairs == {"el", "gl", "fn", "sl"}
MCLegs == [el |-> <<"e", "l">>, gl |-> <<"g", "l">>, fn |-> <<"f", "n">>, sl |-> <<"l", "s">>]
MCKind == [el |-> "time_series", gl |-> "time_series", fn |-> "time_series", sl |-> "same_title"]
MCFirst == [el |-> 0, gl |-> 0, fn |-> 0, sl |-> 1]
MCSettles == [e |-> 2, f |-> 3, g |-> 3, l |-> 4, n |-> 5, s |-> 4]
MCLadderOf == [e |-> {"v"}, g |-> {"v"}, l |-> {"v", "w"}, f |-> {"q"}, n |-> {"q", "w"},
               s |-> {"t"}]
MCUnit == [el |-> 2, gl |-> 2, fn |-> 2, sl |-> 3]
MCPays == [el |-> 0, gl |-> 4, fn |-> 4, sl |-> 4]

R == INSTANCE Replay WITH
        Markets <- MCMarkets, Pairs <- MCPairs, Legs <- MCLegs, Kind <- MCKind,
        First <- MCFirst, Settles <- MCSettles, LadderOf <- MCLadderOf,
        Unit <- MCUnit, Pays <- MCPays, SaleUnit <- 1, Funds <- 10, LastDay <- 5,
        MaxPairs <- 2, MaxTrades <- 4,
        opts <- sel, day <- shown, at <- want, seen <- store, books <- bar

-------------------------------------------------------------------------------
(* The grids.                                                               *)

W == INSTANCE SweepReuse WITH
        Steps <- 2, Levels <- 3, MaxDays <- 3, MaxMove <- 3, MaxSize <- 3,
        family <- sel, world <- shown, setting <- want, todo <- store, cells <- bar

-------------------------------------------------------------------------------
(* The pairs: corpora of two or three markets, by what their wording may    *)
(* say, when they open, close and settle, and what they cost.               *)

By(d)     == [day |-> d, before |-> FALSE]
Before(d) == [day |-> d, before |-> TRUE]
Vague     == [day |-> None, before |-> FALSE]
Blank     == [shape |-> "none", spans |-> {}]
Said(spans) == [shape |-> "cumulative", spans |-> spans]
Words(q, t, sub, title, ev) ==
    [question |-> q, text |-> t, subtitle |-> sub, title |-> title, event |-> ev]
Plain(t, sub) == Words("q", t, sub, Blank, Blank)

W1 == Plain("w1", Said({By(4)}))
W2 == Plain("w2", Said({By(5)}))
Wordings ==
    {W1, W2,
     Plain("w3", Said({By(9)})),
     Plain("w4", Said({Before(5)})),
     Plain("w5", Said({Vague})),
     Plain("w6", [shape |-> "snapshot", spans |-> {}]),
     Plain("w7", Blank),
     Words("q", "w8", Said({By(4)}), Said({By(6)}), Blank),
     Words("q", "w9", Blank, Said({By(4), By(6)}), Blank),
     Words("r", "w1r", Said({By(6)}), Blank, Blank)}

Market(t, ev, se, w, times, prices) ==
    [ticker |-> t, event |-> ev, series |-> se, words |-> w,
     open |-> times[1], close |-> times[2], realized |-> times[3], ruled |-> times[4],
     yes |-> prices[1], no |-> prices[2], label |-> "s", competition |-> "c"]

Usual == <<0, 22, 20, TRUE>>
Low   == <<2, 8>>
High  == <<6, 4>>
Events == {<<"e", "k">>, <<"f", "k">>, <<"g", "l">>, <<"", "">>}

\* What the wording and the events may say.
ByWords ==
    {Market("m", e[1], e[2], v, Usual, Low) : e \in {<<"e", "k">>, <<"", "">>}, v \in Wordings}
    \X {Market("n", f[1], f[2], w, <<0, 25, 20, TRUE>>, High) : f \in Events, w \in Wordings}

\* When the markets open, close and settle.
Times == {t \in {1, 2, 6, 15} \X {18, 19, 30} \X {13, 19, 30} \X BOOLEAN : t[1] < t[3] /\ t[3] <= t[2]}
ByTime ==
    {Market("m", "e", "k", W1, s, Low) : s \in Times}
    \X {Market("n", f, "k", W2, t, High) : f \in {"e", "f"}, t \in Times}

\* What they cost.
Prices == {p \in (0 .. 10) \X {1, 4, 8, 10} : p[1] + p[2] >= 10}
ByPrice ==
    {Market("m", "e", "k", W1, Usual, p) : p \in Prices}
    \X {Market("n", f, "l", w, t, p) : f \in {"e", "f"}, w \in {W1, W2}, p \in Prices,
            t \in {<<0, 23, 20, TRUE>>, <<0, 28, 20, TRUE>>}}

\* One question listed by two series.
Filed == {"s", None} \X {"c", "d", None}
ByFiling ==
    {[Market("m", "e", "k", W1, Usual, High) EXCEPT !.label = g[1], !.competition = g[2]] :
        g \in Filed}
    \X {[Market("n", f[1], f[2], W1, t, p) EXCEPT !.label = h[1], !.competition = h[2]] :
        f \in Events, h \in Filed, p \in {Low, High},
        t \in {<<0, 20, 20, TRUE>>, <<0, 23, 20, TRUE>>, <<0, 26, 21, FALSE>>}}

\* Three markets of one question, whose closes spread past the sweep's window.
Spread(t, ev, se, w, prices) ==
    {Market(t, ev, se, w, <<0, c, c, TRUE>>, p) : c \in {8, 16, 20, 27}, p \in prices}
ByThree == Spread("m", "e", "k", W1, {Low}) \X Spread("n", "f", "k", W2, {High})
             \X Spread("o", "g", "l", Plain("w3", Said({By(6)})), {Low, High})

MCCorpora == ByWords \cup ByTime \cup ByPrice \cup ByFiling \cup ByThree
\* The same markets, settled earlier or opened later, or two others.
MCRewritten ==
    {<<Market("m", "e", "k", W1, s, Low), Market("n", "f", "k", w, t, High)>> :
        w \in {W1, W2}, s \in {Usual, <<14, 22, 14, TRUE>>}, t \in {<<0, 25, 20, TRUE>>, <<6, 30, 18, TRUE>>}}
MCTier == [long \in BOOLEAN |-> IF long THEN 3 ELSE 1]

P == INSTANCE PairScan WITH
        Corpora <- MCCorpora, Rewritten <- MCRewritten, Day <- 4, Period <- 2,
        Run <- 3, Week <- 3, MaxGap <- 2, ShortGap <- 1, Tier <- MCTier,
        TwinDiff <- 1, Apart <- 2, Start <- 0, Lookback <- 6,
        corpus <- sel, keep <- shown, known <- want, groupable <- store, stage <- bar

-------------------------------------------------------------------------------
(* The page's data: two cells of one k, the tier floors reaching the first. *)

\* What the caps of a family's first cell trade; the second cell's are the
\* same the other way round.
Traded == {<<"a", "b">>, <<"b", "c">>, <<"c", None>>}
Moved  == {<<"a", "b">>, <<"c", "b">>, <<"c", "d">>}
MCWorlds ==
    {w \in [capped : BOOLEAN, offCapped : BOOLEAN, rebalance : BOOLEAN, rebalanceOff : BOOLEAN,
            shared : BOOLEAN, sells : BOOLEAN, off : Traded,
            rebalanced : Traded \cup {<<None, None>>}, moved : Moved,
            late : {<<"b", "a">>, <<"d", "c">>}] :
        /\ w.offCapped = w.capped
        /\ w.rebalanceOff => w.rebalance
        /\ ~w.rebalance => w.rebalanced = <<None, None>> /\ w.moved = <<"a", "b">> /\ ~w.shared
        /\ w.sells => w.shared = w.rebalance
        /\ ~w.capped => w.moved = <<"c", "d">> /\ w.shared}
MCLists(w, r) ==
    LET one == IF r.cell = 1 THEN r.cap ELSE 3 - r.cap
    IN  CASE r.sell -> IF r.cap = 2 /\ w.off[1] = "a" THEN None
                       ELSE IF r.off THEN "d" ELSE w.moved[one]
          [] r.until > 0 -> w.late[IF r.move = 2 THEN 3 - one ELSE one]
          [] r.until = 0 /\ r.move > 0 -> w.moved[IF r.off /\ r.move = 2 THEN 3 - one ELSE one]
          [] r.until = 0 /\ r.move = 0 /\ r.rebalance ->
                IF r.off /\ r.cap = 1 THEN "d" ELSE w.rebalanced[one]
          [] OTHER -> IF r.off THEN w.off[one] ELSE <<"a", "b">>[one]
MCK(c) == 1

C == INSTANCE PageChunks WITH
        Worlds <- MCWorlds, Lists <- MCLists, Cells <- <<1, 2>>, Caps <- <<1, 2>>,
        K <- MCK, Binding <- {1}, Moves <- 2, Days <- 1,
        world <- sel, at <- shown, pack <- want, grids <- store, sells <- bar

B == INSTANCE PagePublish WITH
        Builds <- {"x", "y", "z"},
        page <- sel, folders <- shown, lock <- want, stage <- store, mine <- bar

-------------------------------------------------------------------------------
(* Reading it.  Cell 2's chunk cannot give mix 1, pick 2 stops a save, cell *)
(* 3 was never simulated, and the second cell's sell level sells nothing.   *)

MCCells == 1 .. 3
MCPicks == 0 .. 2
MCBase == <<11, 12, Absent>>
MCRebalance == <<13, 12, Absent>>
MCBlock == <<21, 22, Absent>>
MCSell == <<14, Own, Absent>>
MCMixes(id, pick) == ~(id = 12 /\ pick = 1)
MCSavable == {1, 2}
MCStops(pick) == pick = 2

\* Categories a and A are one to the live run, as are tags x and X.
Small(n) == <<n, "small">>
Large(n) == <<n, "large">>
AX == <<Small("a"), Small("x")>>
AY == <<Small("a"), Small("y")>>
BX == <<Small("b"), Small("x")>>
MCRows == {AX, AY, <<Large("a"), Large("x")>>, BX, <<Small("b"), Large("x")>>}
MCBars ==
    [categories : {{Small("a"), Large("a"), Small("b")}}, rows : {MCRows},
     traded : {MCRows, {AX}, {AY, BX}}, badCategories : {{}, {Small("b")}}, badTags : {{}}]
    \cup [categories : {{Small("a"), Small("b")}}, rows : {{AX, BX}},
          traded : SUBSET {AX, BX}, badCategories : {{}}, badTags : {{AX}}]
MCFilters ==
    [categories : SUBSET {Large("a"), Small("b")}, plain : SUBSET {Large("x")},
     tied : SUBSET {<<Small("a"), Large("x")>>, <<Large("a"), Small("y")>>, BX}]

MCNewCategory == Small("n")
MCNewTag == Small("new")
MCGuess == <<Small("o"), Small("g")>>

-------------------------------------------------------------------------------
Init ==
    \/ part = "walk" /\ R!Init
    \/ part = "grid" /\ W!Init
    \/ part = "pairs" /\ P!Init
    \/ part = "data" /\ C!Init
    \/ part = "publish" /\ B!Init
    \/ PagesInit

Next ==
    \/ In("walk")  /\ R!NextDay
    \/ In("walk")  /\ R!Checkpoint
    \/ In("walk")  /\ \E p \in MCPairs : R!FirstCandidate(p)
    \/ In("walk")  /\ \E p \in MCPairs : R!LaterCandidate(p)
    \/ In("grid")  /\ W!FillSell
    \/ In("grid")  /\ W!FillMove
    \/ In("grid")  /\ W!FillMaturity
    \/ In("grid")  /\ W!FillCap
    \/ In("pairs") /\ P!Index
    \/ In("pairs") /\ P!Rewrite
    \/ In("pairs") /\ P!Materialize
    \/ In("data") /\ C!ReadCell
    \/ In("data") /\ C!PhaseDone
    \/ In("data") /\ C!OnReadRaises
    \/ In("data") /\ C!OffReadRaises
    \/ In("data") /\ C!RebalanceReadRaises
    \/ In("data") /\ C!MoveReadRaises
    \/ In("data") /\ C!UntilReadRaises
    \/ In("data") /\ C!BuildSell
    \/ In("data") /\ C!NoSellView
    \/ In("publish") /\ \E b \in {"x", "y", "z"} : B!NewFolder(b)
    \/ In("publish") /\ \E b \in {"x", "y", "z"} : B!NoFolder(b)
    \/ In("publish") /\ \E b \in {"x", "y", "z"} : B!BuildFails(b)
    \/ In("publish") /\ \E b \in {"x", "y", "z"} : B!NothingToLoad(b)
    \/ In("publish") /\ \E b \in {"x", "y", "z"} : B!TakeLock(b)
    \/ In("publish") /\ \E b \in {"x", "y", "z"} : B!PlainRename(b)
    \/ In("publish") /\ \E b \in {"x", "y", "z"} : B!RenameWithoutLock(b)
    \/ In("publish") /\ \E b \in {"x", "y", "z"} : B!Rename(b)
    \/ In("publish") /\ \E b \in {"x", "y", "z"} : B!RenameRaises(b)
    \/ In("publish") /\ \E b \in {"x", "y", "z"}, c \in {"x", "y", "z"} : B!LookAt(b, c)
    \/ In("publish") /\ \E b \in {"x", "y", "z"} : B!Cleaned(b)
    \/ In("publish") /\ \E b \in {"x", "y", "z"} : B!Unmark(b)
    \/ In("publish") /\ \E b \in {"x", "y", "z"} : B!Killed(b)
    \/ In("publish") /\ \E b \in {"x", "y", "z"} : B!GetsOld(b)
    \/ In("publish") /\ B!Finished
    \/ PagesNext

Spec == Init /\ [][Next]_<<part, sel, shown, want, store, bar>>

-------------------------------------------------------------------------------
(* The equity curve of the trades handed back is the walk's cash, every     *)
(* book tells the same story of what is held, no market is bought on the    *)
(* day it was sold, and one stake is held on a ladder at a time.            *)
BooksTrue ==
    part = "walk" => R!CurveMatchesWalk /\ R!BooksAgree
                     /\ R!SoldNotReboughtThatDay /\ R!OneStakeOnALadder

(* A cell of a grid that was not simulated is what its own run would be,    *)
(* and names one that was.                                                  *)
EveryCellIsItsOwnRun == part = "grid" => W!EveryCellIsItsOwnRun /\ W!NamesARun

(* The backtest enters a pair on a day exactly if the live scan would have  *)
(* offered it that day, and a pair held is never taken for one of another   *)
(* kind.                                                                    *)
EntersWhatIsOffered ==
    part = "pairs" => P!EntriesWereOffered /\ P!OffersAreReplayed /\ P!HeldAsBought

(* Whatever failed while the page was built, every scenario it offers is    *)
(* drawn from the data of that run, and the page in place has its folder.   *)
PageIsItsRun ==
    /\ part = "data" => C!EveryChoiceIsItsRun /\ C!NumbersAreSound
    /\ part = "publish" => B!PageHasItsFolder
===============================================================================
