---------------------------- MODULE PageChunks ----------------------------
(***************************************************************************)
(* The data a backtest page carries.  A build walks every scenario of the   *)
(* grid, family by family, and packs each distinct trade list once, as a    *)
(* numbered chunk; the page's base block holds a grid of chunk numbers per  *)
(* family, which the page's script reads back when a scenario is chosen.  A *)
(* family whose simulation fails is taken out again, with the chunks it     *)
(* packed, and the rest of the page is kept.                                *)
(*                                                                         *)
(* A run is [cell, cap, off, rebalance, move, until, sell]: the scenario of *)
(* a band and k at a size cap, with the tier floors off or on, rebalancing  *)
(* or not, from which minimum move (0 for none), until which days (0 for    *)
(* maturity), selling or not.                                               *)
(***************************************************************************)
EXTENDS Integers, Sequences, SequencesExt, FiniteSets, FiniteSetsExt

CONSTANTS
    None, Own,
    Worlds,         \* what may be simulated: [capped, offCapped, rebalance, rebalanceOff, ...]
    Lists(_, _),    \* the trade list of a run in a world, or None for no such run
    Cells, Caps,    \* sequences, the primary's first
    K(_),           \* a cell's k
    Binding,        \* the cells of a band the tier floors reach
    Moves, Days     \* numbers of minimum moves and of days to choose from

VARIABLES
    world,
    at,         \* the walk: phase, the reads still to do, and the families left
    pack,       \* the chunks packed: [chunks, seen, memo, marks]
    grids,      \* chunk numbers: [on, off, rebalance, move, until]
    sells       \* the Sell view: [index, blocks, files]

vars == <<world, at, pack, grids, sells>>

-----------------------------------------------------------------------------
Primary == Caps[1]
Base == [cell |-> Cells[1], cap |-> Primary, off |-> FALSE, rebalance |-> FALSE,
         move |-> 0, until |-> 0, sell |-> FALSE]
AllCells == Range(Cells)
AllCaps == Range(Caps)
Blank == [c \in AllCells |-> [p \in AllCaps |-> None]]
BlankByTier == [o \in BOOLEAN |-> Blank]

\* What a run is told apart by: its k and its trades.
Key(run) == IF Lists(world, run) = None THEN None ELSE <<K(run.cell), Lists(world, run)>>

-----------------------------------------------------------------------------
(* The source: the families the walk has, from what the sweep carries.      *)

Source(w, capped) ==
    [caps |-> IF capped THEN Caps ELSE <<Primary>>,
     offCaps |-> IF capped /\ w.offCapped THEN Caps ELSE <<Primary>>,
     fallback |-> capped,
     offFallback |-> capped /\ w.offCapped,
     rebalance |-> w.rebalance /\ capped = w.capped,
     rebalanceOff |-> w.rebalanceOff,
     move |-> w.rebalance /\ Moves > 0, until |-> w.rebalance /\ Days > 0]

Tiers(src) == IF src.rebalanceOff THEN <<FALSE, TRUE>> ELSE <<FALSE>>
CellsOf(off) == IF off THEN SelectSeq(Cells, LAMBDA c : c \in Binding) ELSE Cells

Each(seq, F(_)) == [i \in DOMAIN seq |-> F(seq[i])]
CellReads(off, reb) ==
    Each(CellsOf(off), LAMBDA c : [Base EXCEPT !.cell = c, !.off = off, !.rebalance = reb])

\* The reads of a phase, in the walk's order.
Rebalancing(src) == FlattenSeq(Each(Tiers(src), LAMBDA o : CellReads(o, TRUE)))
WithMoves(reads, ms) ==
    FlattenSeq(Each(reads, LAMBDA r : Each(ms, LAMBDA m : [r EXCEPT !.move = m])))
UpTo(n) == [i \in 1 .. n |-> i]
FromNone(n) == [i \in 1 .. n + 1 |-> i - 1]
WithDays(reads) ==
    FlattenSeq(Each(reads, LAMBDA r : FlattenSeq(Each(UpTo(Days), LAMBDA d :
        Each(FromNone(Moves), LAMBDA m : [r EXCEPT !.until = d, !.move = m])))))

Reads(phase, src) ==
    CASE phase = "on" -> CellReads(FALSE, FALSE)
      [] phase = "off" -> CellReads(TRUE, FALSE)
      [] phase = "rebalance" -> IF src.rebalance THEN Rebalancing(src) ELSE <<>>
      [] phase = "move" ->
           IF src.rebalance /\ src.move THEN WithMoves(Rebalancing(src), UpTo(Moves)) ELSE <<>>
      [] phase = "until" ->
           IF src.rebalance /\ src.until THEN WithDays(Rebalancing(src)) ELSE <<>>

Phases == <<"on", "off", "rebalance", "move", "until">>
PhaseAfter(phase) ==
    LET i == CHOOSE j \in DOMAIN Phases : Phases[j] = phase
    IN  IF i = Len(Phases) THEN "walked" ELSE Phases[i + 1]

-----------------------------------------------------------------------------
(* Packing.                                                                 *)

\* Lists are told apart by their place in memory while one read's are alive.
TagOfCell(run) == [run EXCEPT !.cap = None, !.move = 0, !.until = 0]
TagOf(run) == [run EXCEPT !.cap = None]

KeyAt(p, run) ==
    IF p.memo.tag = TagOf(run) /\ p.memo.keys[run.cap] # None THEN p.memo.keys[run.cap]
    ELSE Key(run)

Memo(p, run) ==
    [tag |-> TagOf(run),
     keys |-> [(IF p.memo.tag = TagOf(run) THEN p.memo.keys ELSE [c \in AllCaps |-> None])
                  EXCEPT ![run.cap] = KeyAt(p, run)]]

Packed(p, run) ==
    LET key == KeyAt(p, run)
        new == key \notin DOMAIN p.seen
        q   == [p EXCEPT !.memo = Memo(p, run)]
    IN  IF new THEN [q EXCEPT !.chunks = Append(@, Key(run)),
                              !.seen = [x \in DOMAIN @ \cup {key} |->
                                           IF x = key THEN Len(p.chunks) + 1 ELSE @[x]]]
        ELSE q
NumberOf(p, run) == p.seen[KeyAt(p, run)]

\* The first chunk a family packed, so that it can be taken out again.
Marked(p, phase) ==
    IF phase = "on" \/ p.marks[phase] # None THEN p
    ELSE [p EXCEPT !.marks[phase] = Len(p.chunks)]

AllSeen(seen, n) == seen
KeptSeen(seen, n) == [key \in {x \in DOMAIN seen : seen[x] <= n} |-> seen[key]]

NoMemo == [tag |-> None, keys |-> [c \in AllCaps |-> None]]
\* Everything packed since the first of the marks is taken out.
DropSince(p, phases) ==
    LET set == SelectSeq(phases, LAMBDA f : p.marks[f] # None)
        n   == p.marks[Head(set)]
        q   == [p EXCEPT !.memo = NoMemo,
                         !.marks = [f \in DOMAIN @ |-> IF f \in Range(phases) THEN None ELSE @[f]]]
    IN  IF set = <<>> THEN q
        ELSE [q EXCEPT !.chunks = SubSeq(@, 1, n), !.seen = KeptSeen(@, n)]

-----------------------------------------------------------------------------
(* Visiting one scenario.                                                   *)

\* An entry is a run of its own, or says which earlier one it repeats: the
\* lowest minimum, or the fewest days, whose trades are the same.
Repeats(run) ==
    IF ~world.shared \/ (run.move = 0 /\ run.until = 0) THEN None
    ELSE LET earlier == {[run EXCEPT !.move = m, !.until = u] :
                            m \in IF run.until = 0 THEN 0 .. run.move - 1 ELSE {run.move},
                            u \in IF run.until = 0 THEN {0} ELSE 0 .. run.until - 1}
             same == {r \in earlier : Key(r) = Key(run)}
         IN  IF same = {} THEN None
             ELSE CHOOSE r \in same : \A s \in same : r.move <= s.move /\ r.until <= s.until

Placed(g, run, id) ==
    IF run.until > 0 THEN
        [g EXCEPT !.until[run.off][run.cell][run.cap] =
            [(IF @ = None THEN [d \in 1 .. Days |-> [m \in 0 .. Moves |-> None]] ELSE @)
                EXCEPT ![run.until][run.move] = id]]
    ELSE IF run.move > 0 THEN
        [g EXCEPT !.move[run.off][run.cell][run.cap] =
            [(IF @ = None THEN [m \in 1 .. Moves |-> None] ELSE @) EXCEPT ![run.move] = id]]
    ELSE IF run.rebalance THEN [g EXCEPT !.rebalance[run.off][run.cell][run.cap] = id]
    ELSE IF run.off THEN [g EXCEPT !.off[run.cell][run.cap] = id]
    ELSE [g EXCEPT !.on[run.cell][run.cap] = id]

\* The number already given to a run.
Given(g, run) ==
    IF run.until > 0 THEN g.until[run.off][run.cell][run.cap][run.until][run.move]
    ELSE IF run.move > 0 THEN g.move[run.off][run.cell][run.cap][run.move]
    ELSE g.rebalance[run.off][run.cell][run.cap]

\* A family starts from the rebalancing runs there are.
Exists(run) ==
    /\ run.cap \in Range(IF run.off /\ ~run.rebalance THEN at.src.offCaps ELSE at.src.caps)
    /\ Key(run) # None
    /\ run.rebalance => Key([run EXCEPT !.move = 0, !.until = 0]) # None

Visit(s, run) ==
    IF ~Exists(run) THEN s
    ELSE IF Repeats(run) # None
    THEN [s EXCEPT !.grids = Placed(@, run, Given(@, Repeats(run)))]
    ELSE LET p == Marked(s.pack, at.phase)
             q == Packed(p, run)
         IN  [pack |-> q, grids |-> Placed(s.grids, run, NumberOf(q, run))]

\* One read hands over a cell at every cap.
ReadCell ==
    /\ at.phase \in Range(Phases) /\ at.todo # <<>>
    /\ LET s == FoldLeft(LAMBDA t, cap : Visit(t, [Head(at.todo) EXCEPT !.cap = cap]),
                         [pack |-> pack, grids |-> grids], Caps)
       IN  pack' = s.pack /\ grids' = s.grids
    /\ at' = [at EXCEPT !.todo = Tail(@)]
    /\ UNCHANGED <<world, sells>>

PhaseDone ==
    /\ at.phase \in Range(Phases) /\ at.todo = <<>>
    /\ LET next == PhaseAfter(at.phase)
       IN  at' = [at EXCEPT !.phase = next,
                            !.todo = IF next = "walked" THEN <<>> ELSE Reads(next, at.src)]
    /\ UNCHANGED <<world, pack, grids, sells>>

-----------------------------------------------------------------------------
(* A read that raises.                                                      *)

NothingPacked ==
    [chunks |-> <<>>, seen |-> [x \in {} |-> None], memo |-> NoMemo,
     marks |-> [f \in Range(Tail(Phases)) |-> None]]
NoGrids ==
    [on |-> Blank, off |-> Blank, rebalance |-> BlankByTier, move |-> BlankByTier,
     until |-> BlankByTier]

Failing(phase) == at.phase = phase /\ at.todo # <<>>

\* Without the families the walk starts again, once, from the run's own cap.
StartAgain ==
    IF at.src.fallback
    THEN LET src == Source(world, FALSE)
         IN  /\ at' = [phase |-> "on", todo |-> Reads("on", src), src |-> src]
             /\ pack' = NothingPacked /\ grids' = NoGrids
    ELSE at' = [at EXCEPT !.phase = "none", !.todo = <<>>] /\ UNCHANGED <<pack, grids>>

OnReadRaises ==
    /\ Failing("on") /\ StartAgain
    /\ UNCHANGED <<world, sells>>

OffReadRaises ==
    /\ Failing("off")
    /\ IF at.src.offFallback
       THEN LET src == [at.src EXCEPT !.offCaps = <<Primary>>, !.offFallback = FALSE]
            IN  /\ at' = [at EXCEPT !.todo = Reads("off", src), !.src = src]
                /\ pack' = DropSince(pack, <<"off">>)
                /\ grids' = [grids EXCEPT !.off = Blank]
       ELSE StartAgain
    /\ UNCHANGED <<world, sells>>

RebalanceReadRaises ==
    /\ Failing("rebalance")
    /\ at' = [at EXCEPT !.todo = <<>>, !.src.rebalance = FALSE]
    /\ pack' = DropSince(pack, <<"rebalance", "move", "until">>)
    /\ grids' = [grids EXCEPT !.rebalance = BlankByTier]
    /\ UNCHANGED <<world, sells>>

MoveReadRaises ==
    /\ Failing("move")
    /\ at' = [at EXCEPT !.todo = <<>>, !.src.move = FALSE, !.src.until = FALSE]
    /\ pack' = DropSince(pack, <<"move", "until">>)
    /\ grids' = [grids EXCEPT !.move = BlankByTier]
    /\ UNCHANGED <<world, sells>>

UntilReadRaises ==
    /\ Failing("until")
    /\ at' = [at EXCEPT !.todo = <<>>, !.src.until = FALSE]
    /\ pack' = DropSince(pack, <<"until">>)
    /\ grids' = [grids EXCEPT !.until = BlankByTier]
    /\ UNCHANGED <<world, sells>>

-----------------------------------------------------------------------------
(* The Sell view: a task per band and tier setting, in worker processes     *)
(* that write the chunks the page does not have under their keys; the build *)
(* then numbers them after its own, task by task.                           *)

BaseGrid(off) == IF off THEN grids.off ELSE grids.on
Tasks == {<<off, c>> \in BOOLEAN \X AllCells :
             /\ off => c \in Binding
             /\ \E p \in AllCaps : BaseGrid(off)[c][p] # None}
\* Every task's order: with the tier floors first, by cell.
TaskOrder == SelectSeq([i \in 1 .. Len(Cells) |-> <<FALSE, Cells[i]>>]
                           \o [i \in 1 .. Len(Cells) |-> <<TRUE, Cells[i]>>],
                       LAMBDA t : t \in Tasks)

SoldRun(t, cap) == [Base EXCEPT !.cell = t[2], !.cap = cap, !.off = t[1], !.sell = TRUE]
SoldCaps(t) == SelectSeq(Caps, LAMBDA p : BaseGrid(t[1])[t[2]][p] # None)
\* A run that sells nothing is the scenario's own.
SoldKeys(t) == SelectSeq(Each(SoldCaps(t), LAMBDA p : Key(SoldRun(t, p))), LAMBDA k : k # None)
Written(t) == SelectSeq(SoldKeys(t), LAMBDA k : k \notin DOMAIN pack.seen)

\* The keys the finished tasks wrote, each once.
Numbered(done) ==
    FoldLeft(LAMBDA ks, k : IF k \in Range(ks) THEN ks ELSE Append(ks, k), <<>>,
             FlattenSeq(Each(SelectSeq(TaskOrder, LAMBDA t : t \in done), Written)))

SellId(done, key) ==
    IF key \in DOMAIN pack.seen THEN pack.seen[key]
    ELSE Len(pack.chunks) + (CHOOSE i \in DOMAIN Numbered(done) : Numbered(done)[i] = key)

SellRow(done, t) ==
    [p \in AllCaps |->
        IF BaseGrid(t[1])[t[2]][p] = None THEN None
        ELSE IF Key(SoldRun(t, p)) = None THEN Own
        ELSE SellId(done, Key(SoldRun(t, p)))]

\* A task that failed costs the Sell choices of its band.
BuildSell ==
    /\ at.phase = "walked" /\ world.sells
    /\ \E done \in SUBSET Tasks :
           sells' = [view |-> done # {},
                     rows |-> [t \in BOOLEAN \X AllCells |->
                         LET u == IF t[1] /\ t[2] \notin Binding THEN <<FALSE, t[2]>> ELSE t
                         IN  IF u \in done THEN SellRow(done, u) ELSE None],
                     files |-> Numbered(done)]
    /\ at' = [at EXCEPT !.phase = "built"]
    /\ UNCHANGED <<world, pack, grids>>

NoSells == [view |-> FALSE, rows |-> [t \in BOOLEAN \X AllCells |-> None], files |-> <<>>]

NoSellView ==
    /\ at.phase = "walked"
    /\ at' = [at EXCEPT !.phase = "built"]
    /\ UNCHANGED <<world, pack, grids, sells>>

-----------------------------------------------------------------------------
Init ==
    /\ world \in Worlds
    /\ LET src == Source(world, world.capped)
       IN  at = [phase |-> "on", todo |-> Reads("on", src), src |-> src]
    /\ pack = NothingPacked
    /\ grids = NoGrids
    /\ sells = NoSells

Next ==
    \/ ReadCell
    \/ PhaseDone
    \/ OnReadRaises
    \/ OffReadRaises
    \/ RebalanceReadRaises
    \/ MoveReadRaises
    \/ UntilReadRaises
    \/ BuildSell
    \/ NoSellView

Spec == Init /\ [][Next]_vars

-----------------------------------------------------------------------------
(* The page's base block, and its script's reading of it.                   *)

Off(cell, off) == off /\ cell \in Binding
OffGrid(c) == IF c \in Binding THEN grids.off[c] ELSE grids.on[c]

RebalanceView ==
    at.src.rebalance /\ \E c \in AllCells, p \in AllCaps : grids.rebalance[FALSE][c][p] # None
MoveView == RebalanceView /\ at.src.move
UntilView == RebalanceView /\ at.src.until /\ (MoveView \/ Moves = 0)

\* A cell whose choices all show the run without one holds no numbers.
MoveIds(off, c, p) ==
    LET ids == grids.move[off][c][p]
    IN  IF ids = None \/ (\A m \in DOMAIN ids : ids[m] = grids.rebalance[off][c][p]) THEN None
        ELSE ids
UntilIds(off, c, p) ==
    LET ids   == grids.until[off][c][p]
        moved == grids.move[off][c][p]
        Shown(m) == IF m = 0 \/ moved = None THEN grids.rebalance[off][c][p] ELSE moved[m]
    IN  IF ids = None \/ (\A d \in DOMAIN ids : \A m \in DOMAIN ids[d] : ids[d][m] = Shown(m))
        THEN None ELSE ids

MovedChunk(off, ch) ==
    LET ids == MoveIds(off, ch.cell, ch.cap)
    IN  IF ch.move > 0 /\ ids # None THEN ids[ch.move]
        ELSE grids.rebalance[off][ch.cell][ch.cap]
RebalancedChunk(off, ch) ==
    LET ids == UntilIds(off, ch.cell, ch.cap)
    IN  IF ch.until > 0 /\ ids # None THEN ids[ch.until][ch.move] ELSE MovedChunk(off, ch)

BaseChunk(ch) == IF ch.off THEN OffGrid(ch.cell)[ch.cap] ELSE grids.on[ch.cell][ch.cap]
SoldChunk(ch) ==
    LET row == sells.rows[<<ch.off, ch.cell>>]
    IN  IF row = None \/ ch.rebalance THEN None
        ELSE IF row[ch.cap] = Own THEN BaseChunk(ch) ELSE row[ch.cap]

ChunkAt(ch) ==
    IF ch.sell THEN SoldChunk(ch)
    ELSE IF ch.rebalance THEN RebalancedChunk(Off(ch.cell, ch.off), ch)
    ELSE BaseChunk(ch)

\* What the reader may choose.
Offered ==
    {ch \in [cell : AllCells, cap : Range(at.src.caps), off : BOOLEAN, rebalance : BOOLEAN,
             move : 0 .. Moves, until : 0 .. Days, sell : BOOLEAN] :
        /\ ch.rebalance => RebalanceView
        /\ ch.move > 0 => ch.rebalance /\ MoveView
        /\ ch.until > 0 => ch.rebalance /\ UntilView
        /\ ch.sell => sells.view /\ ~ch.rebalance}

\* What a chunk's block or file holds.
Contents(id) ==
    IF id <= Len(pack.chunks) THEN pack.chunks[id] ELSE sells.files[id - Len(pack.chunks)]

\* The run a choice names, if the page has it.
RunNamed(ch) ==
    LET run  == [ch EXCEPT !.off = Off(ch.cell, ch.off)]
        base == [run EXCEPT !.sell = FALSE]
    IN  CASE ch.sell ->
                IF sells.rows[<<ch.off, ch.cell>>] = None \/ ~Exists(base) THEN None
                ELSE IF Key(run) = None THEN Key(base) ELSE Key(run)
          [] ch.rebalance /\ run.off /\ ~at.src.rebalanceOff -> None
          [] OTHER -> IF Exists(run) THEN Key(run) ELSE None

-----------------------------------------------------------------------------
(* Whatever failed on the way, every scenario the finished page offers is   *)
(* drawn from the data of that very run, and a run the build does not have  *)
(* is not drawn from another's.                                             *)
EveryChoiceIsItsRun ==
    at.phase = "built" =>
        \A ch \in Offered :
            IF RunNamed(ch) = None THEN ChunkAt(ch) = None
            ELSE ChunkAt(ch) # None /\ Contents(ChunkAt(ch)) = RunNamed(ch)

\* No number points past what the page and its folder hold, no list is held
\* twice, and the page opens on its first chunk.
NumbersAreSound ==
    at.phase \notin {"none", "built"} =>
        /\ IsInjective(pack.chunks)
        /\ \A key \in DOMAIN pack.seen : pack.seen[key] \in DOMAIN pack.chunks
        /\ grids.on[Cells[1]][Primary] \in {None, 1}

=============================================================================
