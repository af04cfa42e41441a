------------------------------ MODULE SweepReuse ------------------------------
(***************************************************************************)
(* Which runs of a parameter grid a backtest skips: backtester.py's        *)
(* CapSweep, SellSweep and RebalanceSweep.                                  *)
(*                                                                         *)
(* A dashboard shows thousands of cells, one for each size cap, sell level *)
(* and minimum of days, or price move and "Rebalance until" choice.  A     *)
(* cell whose run must come out the same as one already simulated is not   *)
(* simulated: it names that run.  Each rule that says "the same" reads     *)
(* records the simulated run left behind, of the trades it made, and       *)
(* argues about the trades a stricter run would make.                      *)
(*                                                                         *)
(* A simulation is a deterministic sequence of Steps decisions, each of    *)
(* them free to depend on all the ones before it: a world gives, for every *)
(* history of decisions, what the next decision is about.  The worlds are  *)
(* all there are.                                                          *)
(***************************************************************************)
EXTENDS Integers, FiniteSets, Sequences, SequencesExt

CONSTANTS Steps,     \* decisions in a run
          Levels,    \* 1..Levels: the sell levels, ascending
          MaxDays,   \* 1..MaxDays: the choices of a minimum of days
          MaxMove,   \* 1..MaxMove: the choices of a minimum price move
          MaxSize    \* 1..MaxSize: the size caps, and the sizes wanted

VARIABLES family,  \* the grid being filled
          world,   \* what each decision of a run is about
          setting, \* caps: whether runs trim, and the eager run's cap
          todo,    \* the cells still to fill, in the grid's order
          cells    \* the cells filled, in that order

vars == <<family, world, setting, todo, cells>>

(* No bound: a minimum of this value holds nothing back.                    *)
Off == 0
Histories(decisions) == UNION {[1..n -> decisions] : n \in 0..(Steps - 1)}

(* A run, by the decisions it takes.                                        *)
Run(decide(_)) ==
  LET path[n \in 0..Steps] ==
        IF n = 0 THEN <<>> ELSE Append(path[n - 1], decide(path[n - 1]))
  IN path[Steps]

Before(path, i) == SubSeq(path, 1, i - 1)
-----------------------------------------------------------------------------
(* Selling at a level, no nearer than a minimum of days before maturity.    *)

ReachesLevel(moment, level) == moment.gain >= level
FarEnough(moment, days) == moment.left >= days
SellRun(level, days) ==
  Run(LAMBDA h : IF ReachesLevel(world[h], level) /\ FarEnough(world[h], days) THEN 1 ELSE 0)
NoSaleRun == Run(LAMBDA h : 0)

MadeOn(path) == {world[Before(path, i)] : i \in {j \in DOMAIN path : path[j] = 1}}

(* _sale_reach: the most days before maturity at which some position of the *)
(* run that never sells would sell at the level.                            *)
Reach(level) ==
  LET at == {world[Before(NoSaleRun, i)] : i \in DOMAIN NoSaleRun}
  IN Max({0} \cup {m.left : m \in {x \in at : ReachesLevel(x, level)}})

(* _sale_cover: the fewest days left among a run's sales, and the highest   *)
(* level every one of them reached.                                         *)
FewestLeft(path) == Min({m.left : m \in MadeOn(path)})
TopLevel(path) == Max({l \in 0..Levels : \A m \in MadeOn(path) : ReachesLevel(m, l)})

Simulated(key, path) == [key |-> key, how |-> "simulated", as |-> key, path |-> path]
SameAsCell(key, cell) == [key |-> key, how |-> "same", as |-> cell.key, path |-> cell.path]
SameAs(key, cell) == [key |-> key, how |-> "same", as |-> cell.as, path |-> cell.path]
IsRun(cell) == cell.how = "simulated"

CoversAnyLevel(cell, level, days) ==
  /\ cell.key[2] <= days /\ days <= FewestLeft(cell.path)
CoversSale(cell, level, days) ==
  /\ cell.key[2] <= days /\ days <= FewestLeft(cell.path)
  /\ level <= TopLevel(cell.path)

SellCell(key) ==
  LET level == key[1]
      days == key[2]
      covering == SelectSeq(cells, LAMBDA c : IsRun(c) /\ CoversSale(c, level, days))
  IN IF Reach(level) < days
     THEN [key |-> key, how |-> "none", as |-> key, path |-> NoSaleRun]
     ELSE IF covering # <<>> THEN SameAs(key, Head(covering))
     ELSE Simulated(key, SellRun(level, days))
-----------------------------------------------------------------------------
(* Rebalancing held pairs once the price has moved, and until a number of   *)
(* days before maturity.                                                    *)

Moved(moment, move) == moment.move >= move
RebalanceRun(days, move) ==
  Run(LAMBDA h : IF Moved(world[h], move) /\ FarEnough(world[h], days) THEN 1 ELSE 0)

CoversMoveOnly(path, days, move) == \A m \in MadeOn(path) : Moved(m, move)
CoversMove(path, days, move) ==
  \A m \in MadeOn(path) : Moved(m, move) /\ FarEnough(m, days)

(* move_grid: the last run simulated, or the one with no minimum.           *)
MoveCell(key) ==
  LET runs == SelectSeq(cells, IsRun)
      last == IF runs = <<>> THEN Simulated(<<Off, Off>>, RebalanceRun(Off, Off))
              ELSE Last(runs)
  IN IF CoversMove(last.path, Off, key[2]) THEN SameAs(key, last)
     ELSE Simulated(key, RebalanceRun(Off, key[2]))

(* maturity_grid: the cell of the row above at the same minimum move, then  *)
(* the nearest to the left in this row; the first row has the runs with no  *)
(* limit above it.                                                          *)
CellAt(days, move) ==
  IF days = Off THEN Simulated(<<Off, move>>, RebalanceRun(Off, move))
  ELSE CHOOSE c \in ToSet(cells) : c.key = <<days, move>>

MaturityCell(key) ==
  LET days == key[1]
      move == key[2]
      nearest == <<CellAt(days - 1, move)>>
                 \o (IF move = Off THEN <<>> ELSE <<CellAt(days, move - 1)>>)
      covering == SelectSeq(nearest, LAMBDA c : CoversMove(c.path, days, move))
  IN IF covering # <<>> THEN SameAs(key, Head(covering))
     ELSE Simulated(key, RebalanceRun(days, move))
-----------------------------------------------------------------------------
(* Size caps, ascending.  The eager run, when there is one, was made at the *)
(* primary cap; its trades are not trimmed.                                 *)

SizedRun(cap) == Run(LAMBDA h : Min({cap, world[h]}))
WantedOn(path) == {world[Before(path, i)] : i \in DOMAIN path}

(* The cap at and above which nothing a run decides depends on the cap.     *)
FloorAsMade(path) == Max({path[i] : i \in DOMAIN path})
SharingFloor(path) == Max(WantedOn(path))

CapCell(key) ==
  LET cap == key[1]
      eager == SizedRun(setting.primary)
      seeds == setting.eager /\ setting.primary >= SharingFloor(eager)
      runs == SelectSeq(cells, LAMBDA c : /\ IsRun(c) /\ c.key[1] >= SharingFloor(c.path))
      seed == Simulated(<<setting.primary, Off>>, eager)
  IN IF setting.eager /\ cap = setting.primary THEN Simulated(key, eager)
     ELSE IF seeds /\ cap >= SharingFloor(eager) THEN SameAs(key, seed)
     ELSE IF runs # <<>> THEN SameAs(key, Head(runs))
     ELSE Simulated(key, SizedRun(cap))
-----------------------------------------------------------------------------
Grid(f) ==
  CASE f = "sell" -> [i \in 1..(Levels * MaxDays) |->
                        <<1 + (i - 1) \div MaxDays, 1 + ((i - 1) % MaxDays)>>]
    [] f = "move" -> [i \in 1..MaxMove |-> <<Off, i>>]
    [] f = "maturity" -> [i \in 1..(MaxDays * (MaxMove + 1)) |->
                            <<1 + (i - 1) \div (MaxMove + 1), ((i - 1) % (MaxMove + 1))>>]
    [] f = "cap" -> [i \in 1..MaxSize |-> <<i, Off>>]

SellMoments == [gain : 0..Levels, left : 0..MaxDays]
RebalanceMoments == [move : 0..MaxMove, left : 0..MaxDays]

(* Without trims, what a run wants depends on the candidate alone.          *)
CapWorlds(trims) ==
  LET all == [Histories(0..MaxSize) -> 0..MaxSize]
  IN IF trims THEN all
     ELSE {w \in all : \A g, h \in DOMAIN w : Len(g) = Len(h) => w[g] = w[h]}

Init ==
  /\ \/ family = "sell" /\ world \in [Histories({0, 1}) -> SellMoments]
     \/ family \in {"move", "maturity"} /\ world \in [Histories({0, 1}) -> RebalanceMoments]
     \/ family = "cap" /\ \E trims \in BOOLEAN : world \in CapWorlds(trims)
  /\ setting \in [eager : BOOLEAN, primary : 1..MaxSize]
  /\ setting.eager => family = "cap" /\ world \in CapWorlds(FALSE)
  /\ ~ setting.eager => setting.primary = 1
  /\ todo = Grid(family)
  /\ cells = <<>>

Fill(cell(_)) == /\ cells' = Append(cells, cell(Head(todo)))
                 /\ todo' = Tail(todo)
                 /\ UNCHANGED <<family, world, setting>>

FillSell == family = "sell" /\ todo # <<>> /\ Fill(SellCell)
FillMove == family = "move" /\ todo # <<>> /\ Fill(MoveCell)
FillMaturity == family = "maturity" /\ todo # <<>> /\ Fill(MaturityCell)
FillCap == family = "cap" /\ todo # <<>> /\ Fill(CapCell)

Next == FillSell \/ FillMove \/ FillMaturity \/ FillCap

Spec == Init /\ [][Next]_vars
-----------------------------------------------------------------------------
OwnRun(key) ==
  CASE family = "sell" -> SellRun(key[1], key[2])
    [] family \in {"move", "maturity"} -> RebalanceRun(key[1], key[2])
    [] family = "cap" -> SizedRun(key[1])

(* Every cell that was not simulated is exactly the run its own settings    *)
(* would have made: the "same as" another cell, the eager run or the run    *)
(* that never sells.                                                        *)
EveryCellIsItsOwnRun == \A i \in DOMAIN cells : cells[i].path = OwnRun(cells[i].key)

(* A cell that names another names one that was simulated with just these   *)
(* settings, and so can be read.                                            *)
NamesARun ==
  \A i \in DOMAIN cells : cells[i].how = "same" =>
    \/ \E j \in 1..(i - 1) : IsRun(cells[j]) /\ cells[j].key = cells[i].as
    \/ family = "move" /\ cells[i].as = <<Off, Off>>
    \/ family = "maturity" /\ cells[i].as[1] = Off
    \/ family = "cap" /\ setting.eager /\ cells[i].as[1] = setting.primary
===============================================================================
