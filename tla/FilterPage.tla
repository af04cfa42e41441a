---------------------------- MODULE FilterPage ----------------------------
(***************************************************************************)
(* The filter bar of the backtest page: the choice its selects and menus    *)
(* name, the data ("chunk") a scenario is drawn from, loaded from a file    *)
(* beside the page the first time it is needed, and the button that sends   *)
(* the scenario on screen to become the live settings.                      *)
(*                                                                         *)
(* The page numbers its choices, and a load acts for the latest only: here  *)
(* `want` is the load the latest choice waits for.                          *)
(***************************************************************************)
EXTENDS Integers, Sequences, SequencesExt, FiniteSets

CONSTANTS
    None,
    Cells,      \* the scenarios of a band, k and size cap
    Picks,      \* what the two menus may have ticked; Unticked among them
    Unticked,
    Primary,    \* the cell the page is rendered with
    BaseChunk, RebalanceChunk,  \* a cell's chunk id; None where none was simulated
    Block,      \* the block naming a cell's chunks at the sell level; None for none
    SellChunk,  \* and its chunk there; None, or Own when the level sells nothing
    Own,
    Mixes(_, _),    \* whether a chunk's list can give the mix a pick asks for
    Savable,    \* the cells whose band, k and cap the live settings can take
    Blocks(_),  \* whether a pick's ticks stop a save
    Keep        \* KEEP: drawn chunks kept besides the primary's

VARIABLES
    sel,        \* the choice the selects and ticks name
    shown,      \* the choice on screen, and the chunk it was drawn from
    want,       \* the chunk or block the latest choice waits for, or None
    store,      \* [chunks, kept, sells]: loading, loaded, or not asked for
    bar         \* [stage, save]: whether the page works, the button is open

vars == <<sel, shown, want, store, bar>>

Ids == ({BaseChunk[c] : c \in Cells} \cup {RebalanceChunk[c] : c \in Cells}
           \cup {SellChunk[c] : c \in Cells}) \ {None, Own}
SellBlocks == {Block[c] : c \in Cells} \ {None}
Loads == {"absent", "loading", "loaded"}

\* A choice never names a sell level while it rebalances.
Askable == [cell : Cells, rebalance : BOOLEAN, sell : BOOLEAN, pick : Picks]
Start == [cell |-> Primary, rebalance |-> FALSE, sell |-> FALSE, pick |-> Unticked]

PrimaryChunk == BaseChunk[Primary]

\* The page is rendered with a scenario that was simulated, nothing ticked; a
\* block is no chunk; and the chunk just drawn is never the one let go.
PageAssumption ==
    /\ Primary \in Cells /\ Unticked \in Picks
    /\ PrimaryChunk # None /\ Mixes(PrimaryChunk, Unticked)
    /\ \A c \in Cells : BaseChunk[c] # Own /\ RebalanceChunk[c] # Own
    /\ Ids \cap SellBlocks = {}
    /\ Keep \in Nat \ {0}

-----------------------------------------------------------------------------
(* Which chunk a choice is drawn from: an id, None for a scenario never     *)
(* simulated, or the block that must be in first.                           *)

NeedsBlock(c) == c.sell /\ BaseChunk[c.cell] # None /\ Block[c.cell] # None

ChunkAt(c) ==
    IF ~c.sell THEN (IF c.rebalance THEN RebalanceChunk ELSE BaseChunk)[c.cell]
    ELSE IF c.rebalance \/ ~NeedsBlock(c) THEN None
    ELSE IF SellChunk[c.cell] = Own THEN BaseChunk[c.cell] ELSE SellChunk[c.cell]

Known(c) == NeedsBlock(c) => store.sells[Block[c.cell]] = "loaded"

\* saveHref: what is on screen can become the live settings.
CanSave(s) == s.chunk # None /\ s.choice.cell \in Savable /\ ~Blocks(s.choice.pick)

-----------------------------------------------------------------------------
(* Drawing a choice, and putting the last one drawn back.                   *)

\* A drawn chunk becomes the most recently used; the least recently drawn
\* past Keep is let go.
Touched(st, id) ==
    IF id = PrimaryChunk THEN st
    ELSE LET kept == Append(RemoveFirst(st.kept, id), id)
             out  == IF Len(kept) > Keep THEN Head(kept) ELSE None
         IN  [st EXCEPT !.kept = IF out = None THEN kept ELSE Tail(kept),
                        !.chunks = [i \in Ids |-> IF i = out THEN "absent" ELSE @[i]]]

\* A chunk that could not give the mix was never drawn.
Refused(st, id) ==
    IF id = PrimaryChunk \/ id \in Range(st.kept) THEN st
    ELSE [st EXCEPT !.chunks[id] = "absent"]

Draw(c, id, st) ==
    /\ sel' = c
    /\ shown' = [choice |-> c, chunk |-> id]
    /\ want' = None
    /\ store' = IF id = None THEN st ELSE Touched(st, id)
    /\ bar' = [bar EXCEPT !.save = CanSave(shown')]

PutBack(st) ==
    /\ sel' = shown.choice
    /\ want' = None
    /\ store' = st
    /\ bar' = [bar EXCEPT !.save = CanSave(shown)]
    /\ UNCHANGED shown

DrawOrRefuse(c, id, st) ==
    IF id = None \/ Mixes(id, c.pick) THEN Draw(c, id, st) ELSE PutBack(Refused(st, id))

\* Wait for a load, started unless it is under way.
WaitFor(c, x, st) ==
    /\ sel' = c
    /\ want' = x
    /\ store' = st
    /\ bar' = [bar EXCEPT !.save = FALSE]
    /\ UNCHANGED shown

Choose(c, st) ==
    IF NeedsBlock(c) /\ st.sells[Block[c.cell]] # "loaded"
    THEN WaitFor(c, Block[c.cell], [st EXCEPT !.sells[Block[c.cell]] = "loading"])
    ELSE LET id == ChunkAt(c)
         IN  IF id = None \/ st.chunks[id] = "loaded" THEN DrawOrRefuse(c, id, st)
             ELSE WaitFor(c, id, [st EXCEPT !.chunks[id] = "loading"])

-----------------------------------------------------------------------------
(* The reader.                                                              *)

Working == bar.stage = "ready"

PickCell(cell) ==
    /\ Working /\ cell # sel.cell
    /\ Choose([sel EXCEPT !.cell = cell], store)

\* Sell goes to no level, and shuts, while the page rebalances.
PickRebalance ==
    /\ Working
    /\ Choose([sel EXCEPT !.rebalance = ~@, !.sell = FALSE], store)

PickSell ==
    /\ Working /\ ~sel.rebalance
    /\ Choose([sel EXCEPT !.sell = ~@], store)

Tick(pick) ==
    /\ Working /\ pick # sel.pick
    /\ Choose([sel EXCEPT !.pick = pick], store)

-----------------------------------------------------------------------------
(* The loads.                                                               *)

AlwaysWanted(id) == TRUE

\* Kept only if it is the page's own, or the choice on the selects is its.
StillWanted(id) == id = PrimaryChunk \/ (Known(sel) /\ ChunkAt(sel) = id)

AnyAnswers(x) == bar.stage = "ready"

\* Whether the latest choice is the one the load was started for.
Answers(x) == want = x

ChunkArrives(id) ==
    /\ Working
    /\ store.chunks[id] = "loading"
    /\ LET st == [store EXCEPT !.chunks[id] = IF StillWanted(id) THEN "loaded" ELSE "absent"]
       IN  IF Answers(id) THEN DrawOrRefuse(sel, id, st)
           ELSE store' = st /\ UNCHANGED <<sel, shown, want, bar>>

\* A later choice may try again.
ChunkFails(id) ==
    /\ Working
    /\ store.chunks[id] = "loading"
    /\ LET st == [store EXCEPT !.chunks[id] = "absent"]
       IN  IF Answers(id) THEN PutBack(st)
           ELSE store' = st /\ UNCHANGED <<sel, shown, want, bar>>

BlockArrives(b) ==
    /\ store.sells[b] = "loading"
    /\ LET st == [store EXCEPT !.sells[b] = "loaded"]
       IN  IF Answers(b) THEN Choose(sel, st)
           ELSE store' = st /\ UNCHANGED <<sel, shown, want, bar>>

BlockFails(b) ==
    /\ store.sells[b] = "loading"
    /\ LET st == [store EXCEPT !.sells[b] = "absent"]
       IN  IF Answers(b) THEN PutBack(st)
           ELSE store' = st /\ UNCHANGED <<sel, shown, want, bar>>

-----------------------------------------------------------------------------
(* The start: the base block, then the primary's chunk, then the selects.   *)

BaseArrives ==
    /\ bar.stage = "base"
    /\ bar' = [bar EXCEPT !.stage = "primary"]
    /\ store' = [store EXCEPT !.chunks[PrimaryChunk] = "loading"]
    /\ UNCHANGED <<sel, shown, want>>

PrimaryArrives ==
    /\ bar.stage = "primary"
    /\ store' = [store EXCEPT !.chunks[PrimaryChunk] = "loaded"]
    /\ shown' = [choice |-> sel, chunk |-> PrimaryChunk]
    /\ bar' = [stage |-> "ready", save |-> CanSave(shown')]
    /\ UNCHANGED <<sel, want>>

StartFails ==
    /\ bar.stage \in {"base", "primary"}
    /\ bar' = [stage |-> "dead", save |-> FALSE]
    /\ store' = [store EXCEPT !.chunks[PrimaryChunk] = "absent"]
    /\ UNCHANGED <<sel, shown, want>>

\* A page whose data could not be read stays as it was rendered.
Dead == bar.stage = "dead" /\ UNCHANGED vars

-----------------------------------------------------------------------------
Init ==
    /\ sel = Start
    /\ shown = None
    /\ want = None
    /\ store = [chunks |-> [i \in Ids |-> "absent"], kept |-> <<>>,
                sells |-> [b \in SellBlocks |-> "absent"]]
    /\ bar = [stage |-> "base", save |-> FALSE]

Next ==
    \/ BaseArrives
    \/ PrimaryArrives
    \/ StartFails
    \/ Dead
    \/ \E c \in Cells : PickCell(c)
    \/ PickRebalance
    \/ PickSell
    \/ \E p \in Picks : Tick(p)
    \/ \E i \in Ids : ChunkArrives(i)
    \/ \E i \in Ids : ChunkFails(i)
    \/ \E b \in SellBlocks : BlockArrives(b)
    \/ \E b \in SellBlocks : BlockFails(b)

Spec == Init /\ [][Next]_vars

-----------------------------------------------------------------------------
TypeOK ==
    /\ sel \in Askable
    /\ shown = None \/ shown.choice \in Askable
    /\ want \in Ids \cup SellBlocks \cup {None}
    /\ store.chunks \in [Ids -> Loads] /\ store.sells \in [SellBlocks -> Loads]
    /\ bar.stage \in {"base", "primary", "ready", "dead"} /\ bar.save \in BOOLEAN

(* The button is open only on what the reader chose last, drawn from that   *)
(* scenario's own chunk, in a mix it can give: the settings it sends are    *)
(* those of the figures on screen.                                          *)
SavesWhatIsShown ==
    bar.save =>
        /\ want = None
        /\ shown.choice = sel
        /\ shown.chunk = ChunkAt(sel) /\ CanSave(shown)
        /\ Mixes(shown.chunk, sel.pick)

(* When nothing is being waited for, the selects and ticks name what is on  *)
(* screen; while something is, a load of it is under way.                   *)
SelectsTrue ==
    Working =>
        IF want = None
        THEN /\ sel = shown.choice /\ Known(sel)
             /\ shown.chunk = ChunkAt(sel)
        ELSE \/ want \in Ids /\ store.chunks[want] = "loading" /\ ChunkAt(sel) = want
             \/ want \in SellBlocks /\ store.sells[want] = "loading"

(* However long a reader explores, the page holds the primary's chunk, the  *)
(* Keep drawn last, the one on screen among them, and no other.             *)
HoldsNoMore ==
    Working =>
        /\ {i \in Ids : store.chunks[i] = "loaded"} = Range(store.kept) \cup {PrimaryChunk}
        /\ Len(store.kept) <= Keep /\ IsInjective(store.kept)
        /\ shown.chunk \in {None, PrimaryChunk} \cup Range(store.kept)

=============================================================================
