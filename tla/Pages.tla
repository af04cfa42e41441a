-------------------------------- MODULE Pages --------------------------------
(***************************************************************************)
(* The backtest page as it is read: the scenarios its selects draw          *)
(* (FilterPage) and the menus that leave categories and tags out of them    *)
(* (FilterMenus), on instances of their own.  A behaviour is about one of   *)
(* them; the two take turns in the same variables.                          *)
(***************************************************************************)
EXTENDS Integers

CONSTANTS
    Absent,
    Cells, Picks, Unticked, FirstCell, BaseData, RebalanceChunk, Block, SellChunk,
    Own, Mixes(_, _), Savable, Blocks(_), Keep,                 \* FilterPage's
    Bars, Filters, MaxNames, NewCategory, NewTag, Guess         \* FilterMenus'

VARIABLES
    part,   \* "page" or "menus"
    sel, shown, want, store, bar

Reader == INSTANCE FilterPage WITH
            None <- Absent, Primary <- FirstCell, BaseChunk <- BaseData

Menus == INSTANCE FilterMenus WITH
            None <- Absent,
            bar <- sel, live <- shown, excluded <- want, tags <- store, told <- bar

ASSUME PageAssumption == Reader!PageAssumption
ASSUME MenusAssumption == Menus!MenusAssumption

-------------------------------------------------------------------------------
PagesInit ==
    \/ part = "page" /\ Reader!Init
    \/ part = "menus" /\ Menus!Init

In(x) == part = x /\ UNCHANGED part

PagesNext ==
    \/ In("page") /\ Reader!BaseArrives
    \/ In("page") /\ Reader!PrimaryArrives
    \/ In("page") /\ Reader!StartFails
    \/ In("page") /\ Reader!Dead
    \/ In("page") /\ \E c \in Cells : Reader!PickCell(c)
    \/ In("page") /\ Reader!PickRebalance
    \/ In("page") /\ Reader!PickSell
    \/ In("page") /\ \E p \in Picks : Reader!Tick(p)
    \/ In("page") /\ \E i \in Reader!Ids : Reader!ChunkArrives(i)
    \/ In("page") /\ \E i \in Reader!Ids : Reader!ChunkFails(i)
    \/ In("page") /\ \E b \in Reader!SellBlocks : Reader!BlockArrives(b)
    \/ In("page") /\ \E b \in Reader!SellBlocks : Reader!BlockFails(b)
    \/ In("menus") /\ Menus!AllCategories
    \/ In("menus") /\ \E c \in sel.categories : Menus!Category(c)
    \/ In("menus") /\ Menus!AllTags
    \/ In("menus") /\ \E r \in sel.rows : Menus!Tag(r)
    \/ In("menus") /\ Menus!FollowTheNote
    \/ In("menus") /\ Menus!Save

PagesSpec == PagesInit /\ [][PagesNext]_<<part, sel, shown, want, store, bar>>

-------------------------------------------------------------------------------
(* The save button is open only on what is on screen, drawn from its data,  *)
(* and the page holds no more than it should; a live run with the filter a  *)
(* save sends trades what the page shows kept, and the note's ticks show    *)
(* the live filter.                                                         *)
SavesWhatIsShown ==
    /\ part = "page" => Reader!SavesWhatIsShown /\ Reader!SelectsTrue /\ Reader!HoldsNoMore
    /\ part = "menus" => Menus!SavedIsShown /\ Menus!NoteShowsTheFilter
===============================================================================
