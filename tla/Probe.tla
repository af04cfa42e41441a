-------------------------------- MODULE Probe --------------------------------
(***************************************************************************)
(* v2_probe.py: the tool that tries the order path with one cent before the *)
(* bot is trusted with it.  A step sends an order, reads the position and   *)
(* judges; two of the steps then close what they opened.  What the exchange *)
(* really does (`world`) is what the step is to find out, so every          *)
(* combination is possible.  A position read may be late (it shows the      *)
(* position as last seen) or fail; after the re-read's wait it is no longer *)
(* late.  Nobody else trades the probed market.                             *)
(***************************************************************************)
EXTENDS Integers

CONSTANTS
    Count,      \* the units in PROBE_COUNT (two, so that half can fill)
    None, NaN   \* a lookup that failed, and one that gave no number

VARIABLES
    step,    \* --step
    pc,
    world,   \* what the exchange does with orders
    pos,     \* the position on the market: YES is positive, NO negative
    led,     \* the position as last shown
    reply,   \* what the last submission came back with
    held,    \* the position the step found open
    cent,    \* where the transferred cent is
    outcome, \* the verdict
    told     \* the operator was told of a position (or cent) to look after

Verdicts == {"PASS", "NEUTRAL", "FAIL"}

ProbeAssumption ==
    Count \in Nat \ {0} /\ None \notin Int \cup Verdicts /\ NaN \notin Int

vars == <<step, pc, world, pos, led, reply, held, cent, outcome, told>>
account == <<world, pos, led, reply, held, cent>>

OrderSteps == {"no-mapping", "unfillable-ask", "yes-close"}

\* Which way an ask and a bid move the position, whether a fill-or-kill fills
\* wholly or not at all, whether reduce_only and an ask's limit are honoured.
Worlds == [ask : {-1, 1}, bid : {-1, 1}, fok : BOOLEAN, reduce : BOOLEAN, floor : BOOLEAN]

Init ==
    /\ step \in OrderSteps \cup {"transfer"}
    /\ world \in Worlds
    /\ pc = "start" /\ pos = 0 /\ led = 0 /\ reply = None /\ held = 0
    /\ cent = "source" /\ outcome = None /\ told = FALSE

End(o, t) == pc' = "done" /\ outcome' = o /\ told' = t /\ UNCHANGED step

-------------------------------------------------------------------------------
(* Reading the position.                                                    *)

NotRead == {None, NaN}
Unknown(a) == a \in NotRead

\* A read, and a read after the wait.
Reads == {led, pos} \cup NotRead
Fresh == {pos} \cup NotRead

\* What is read when a reading in `bad` is read again.
AgainIf(bad) == (Reads \ bad) \cup (IF Reads \cap bad = {} THEN {} ELSE Fresh)

Flat(a) == a = 0

AfterKill == AgainIf({a \in Reads : ~Flat(a)})

RecheckNever(a) == {a}
Recheck(a) == IF Unknown(a) \/ a = 0 THEN Fresh ELSE {a}

\* The tail of the branches that only know an order was sent: FAIL, and a
\* warning unless the account reads flat.
FailAndRecheck == \E a \in Reads : \E b \in Recheck(a) : End("FAIL", ~Flat(b))

-------------------------------------------------------------------------------
(* The orders.                                                              *)

NoBuy    == [side |-> "ask", fok |-> TRUE,  reduce |-> FALSE, top |-> FALSE]
TopAsk   == [NoBuy EXCEPT !.top = TRUE]
NoClose  == [side |-> "bid", fok |-> FALSE, reduce |-> TRUE,  top |-> TRUE]
YesBuy   == [side |-> "bid", fok |-> TRUE,  reduce |-> FALSE, top |-> TRUE]
YesClose == [side |-> "ask", fok |-> FALSE, reduce |-> TRUE,  top |-> FALSE]

Size(p) == IF p < 0 THEN -p ELSE p

\* How much of an order may fill.
Fills(o) ==
    {f \in 0 .. Count :
        /\ o.fok /\ world.fok => f \in {0, Count}
        /\ o.side = "ask" /\ o.top /\ world.floor => f = 0
        /\ o.reduce /\ world.reduce => Size(pos + world[o.side] * f) = Size(pos) - f}

\* The replies to an order of which f filled.  A kill says nothing filled;
\* readable counts are true, but for a stale remainder.
Replies(o, f) ==
    {[kind |-> k, fill |-> 0, left |-> 0] : k \in {"error", "not an object", "no counts"}}
    \cup (IF o.fok /\ f = 0 THEN {[kind |-> "killed", fill |-> 0, left |-> 0]} ELSE {})
    \cup {[kind |-> "counts", fill |-> f, left |-> l] :
            l \in IF world.fok THEN {Count - f} ELSE 0 .. Count}

Submit(o) ==
    \E f \in Fills(o) : \E r \in Replies(o, f) :
        pos' = pos + world[o.side] * f /\ reply' = r

\* A step's first order, once its guards passed and the operator agreed.
SendFirst(o) ==
    /\ Submit(o) /\ pc' = "sent"
    /\ UNCHANGED <<step, world, led, held, cent, outcome, told>>

\* Its closing order: declined at the prompt with the position open, or sent.
SendClose(o) ==
    \/ End("FAIL", TRUE) /\ UNCHANGED account
    \/ Submit(o) /\ pc' = "closed" /\ UNCHANGED <<step, world, led, held, cent, outcome, told>>

Filled     == reply.left = 0 /\ reply.fill = Count
Killed     == reply.fill = 0 /\ reply.left = Count
Conforming == Filled \/ Killed

\* Only a flat, readable position is started from: what is there may be the
\* bot's.
StartsFlat(start, first) ==
    \/ start # 0 /\ End("FAIL", FALSE) /\ UNCHANGED account
    \/ start = 0 /\ SendFirst(first)

\* No order book, or nothing on the side needed; or declined at the prompt.
Leave == End("NEUTRAL", FALSE) /\ UNCHANGED account

Starts == Reads \cup {Count}

-------------------------------------------------------------------------------
(* main: no ticker for an order step, or no balance.                        *)

Refuse ==
    /\ pc = "start"
    /\ \/ step \in OrderSteps /\ End("NEUTRAL", FALSE)
       \/ End("FAIL", FALSE)
    /\ UNCHANGED account

\* No such market.
NoMarket ==
    /\ pc = "start" /\ step \in OrderSteps
    /\ End("FAIL", FALSE) /\ UNCHANGED account

-------------------------------------------------------------------------------
(* --step no-mapping: an ask opens NO, and a reduce-only bid closes it.      *)

MappingOpen ==
    /\ pc = "start" /\ step = "no-mapping"
    /\ Leave \/ \E start \in Starts : StartsFlat(start, NoBuy)

MappingReply ==
    /\ pc = "sent" /\ step = "no-mapping"
    /\ \/ /\ reply.kind = "error"
          /\ \E a \in Reads : End("FAIL", a \notin {None, 0})
       \/ /\ reply.kind = "killed"
          /\ \E a \in AfterKill :
                End(IF Flat(a) THEN "NEUTRAL" ELSE "FAIL", ~Flat(a))
       \/ /\ reply.kind \in {"not an object", "no counts"}
          /\ FailAndRecheck
    /\ UNCHANGED account

OpenedSome(a) == ~Unknown(a) /\ a # 0
OpenedNo(a) == ~Unknown(a) /\ a < 0

\* The position after the order: a complete fill that reads flat is read again.
AfterBuy == AgainIf(IF Filled THEN {0} ELSE {})

MappingVerdict ==
    /\ pc = "sent" /\ step = "no-mapping" /\ reply.kind = "counts"
    /\ \E a \in AfterBuy :
        \/ ~Conforming /\ End("FAIL", TRUE) /\ UNCHANGED account
        \/ Killed /\ End(IF a = 0 THEN "NEUTRAL" ELSE "FAIL", a # 0) /\ UNCHANGED account
        \/ Filled /\ ~OpenedNo(a) /\ End("FAIL", TRUE) /\ UNCHANGED account
        \/ /\ Filled /\ OpenedNo(a)
           /\ pc' = "opened" /\ held' = a /\ led' = a
           /\ UNCHANGED <<step, world, pos, reply, cent, outcome, told>>

MappingClose == pc = "opened" /\ step = "no-mapping" /\ SendClose(NoClose)

MappingEnd ==
    /\ pc = "closed" /\ step = "no-mapping"
    /\ \/ reply.kind = "error" /\ End("FAIL", TRUE)
       \/ reply.kind # "error" /\ \E final \in AfterKill :
            End(IF Flat(final) THEN "PASS" ELSE "FAIL", ~Flat(final))
    /\ UNCHANGED account

-------------------------------------------------------------------------------
(* --step unfillable-ask: an ask nobody can meet comes back killed.          *)

UnfillableOpen ==
    /\ pc = "start" /\ step = "unfillable-ask"
    /\ \E start \in Starts : StartsFlat(start, TopAsk) \/ (start = 0 /\ Leave)

UnfillableEnd ==
    /\ pc = "sent" /\ step = "unfillable-ask"
    /\ \/ reply.kind = "error" /\ End("FAIL", FALSE)
       \/ /\ reply.kind = "killed"
          /\ \E a \in AfterKill : End(IF Flat(a) THEN "PASS" ELSE "FAIL", ~Flat(a))
       \/ reply.kind = "not an object" /\ FailAndRecheck
       \/ reply.kind = "no counts" /\ End("FAIL", FALSE)
       \/ /\ reply.kind = "counts"
          /\ \E a \in Reads :
                LET good == Killed /\ a = 0
                IN  End(IF good THEN "PASS" ELSE "FAIL", ~good)
    /\ UNCHANGED account

-------------------------------------------------------------------------------
(* --step yes-close: the reduce-only ask that sells a held YES.              *)

YesOpen ==
    /\ pc = "start" /\ step = "yes-close"
    /\ \E start \in Starts : StartsFlat(start, YesBuy) \/ (start = 0 /\ Leave)

YesReply ==
    /\ pc = "sent" /\ step = "yes-close"
    /\ \/ /\ reply.kind = "killed"
          /\ \E a \in AfterKill :
                End(IF Flat(a) THEN "NEUTRAL" ELSE "FAIL", ~Flat(a))
       \/ /\ reply.kind \in {"error", "not an object", "no counts"}
          /\ FailAndRecheck
    /\ UNCHANGED account

OpenedYes(a) == ~Unknown(a) /\ a > 0

YesVerdict ==
    /\ pc = "sent" /\ step = "yes-close" /\ reply.kind = "counts"
    /\ \E a \in AfterBuy :
        \/ ~Conforming /\ End("FAIL", TRUE) /\ UNCHANGED account
        \/ Killed /\ End(IF a = 0 THEN "NEUTRAL" ELSE "FAIL", a # 0) /\ UNCHANGED account
        \/ Filled /\ ~OpenedYes(a) /\ End("FAIL", TRUE) /\ UNCHANGED account
        \/ /\ Filled /\ OpenedYes(a)
           /\ pc' = "opened" /\ held' = a /\ led' = a
           /\ UNCHANGED <<step, world, pos, reply, cent, outcome, told>>

YesCloses == pc = "opened" /\ step = "yes-close" /\ SendClose(YesClose)

\* The sale's reply must report the sale the account shows.
SaleReported == reply.kind = "counts" /\ reply.fill = Count /\ reply.left = 0

YesEnd ==
    /\ pc = "closed" /\ step = "yes-close"
    /\ \/ reply.kind = "error" /\ End("FAIL", TRUE)
       \/ /\ reply.kind # "error"
          /\ \E final \in AfterKill :
                End(IF Flat(final) /\ SaleReported THEN "PASS" ELSE "FAIL", ~Flat(final))
    /\ UNCHANGED account

-------------------------------------------------------------------------------
(* --step transfer: one cent to another shard and back.                      *)

\* The same shard twice, no second shard, transfers shut, or not a cent there;
\* or the outbound transfer is sent.
TransferLeg(from, flight, next) ==
    \/ pc' = next /\ cent' = flight /\ UNCHANGED <<outcome, told>>
    \/ /\ cent' \in {from, flight} /\ pc' = "done" /\ outcome' = "FAIL" /\ told' = TRUE

TransferOut ==
    /\ pc = "start" /\ step = "transfer"
    /\ \/ End("NEUTRAL", FALSE) /\ UNCHANGED account
       \/ TransferLeg("source", "to dest", "out")
          /\ UNCHANGED <<step, world, pos, led, reply, held>>

\* A transfer lands some time after it was accepted.
Settle ==
    /\ \/ cent = "to dest" /\ cent' = "dest"
       \/ cent = "to source" /\ cent' = "source"
    /\ UNCHANGED <<step, pc, world, pos, led, reply, held, outcome, told>>

\* Not seen landed in time: nothing is sent back.
SeenAt(shard) == cent = shard
TransferBack ==
    /\ pc = "out"
    /\ \/ End("FAIL", TRUE) /\ UNCHANGED account
       \/ SeenAt("dest") /\ TransferLeg("dest", "to source", "back")
          /\ UNCHANGED <<step, world, pos, led, reply, held>>

TransferEnd ==
    /\ pc = "back"
    /\ \/ End("FAIL", TRUE)
       \/ SeenAt("source") /\ End("PASS", FALSE)
    /\ UNCHANGED account

-------------------------------------------------------------------------------
Finished == pc = "done" /\ UNCHANGED vars

Next ==
    \/ Refuse \/ NoMarket
    \/ MappingOpen \/ MappingReply \/ MappingVerdict \/ MappingClose \/ MappingEnd
    \/ UnfillableOpen \/ UnfillableEnd
    \/ YesOpen \/ YesReply \/ YesVerdict \/ YesCloses \/ YesEnd
    \/ TransferOut \/ Settle \/ TransferBack \/ TransferEnd
    \/ Finished

Spec == Init /\ [][Next]_vars

-------------------------------------------------------------------------------
(* Properties.                                                              *)

\* A verdict means what the closing line says of it: PASS, that the exchange
\* did what the live order path relies on and that nothing is left open;
\* NEUTRAL, that nothing is left open.
VerdictIsTrue ==
    /\ outcome \in {"PASS", "NEUTRAL"} => pos = 0 /\ cent = "source"
    /\ outcome = "PASS" /\ step = "no-mapping" => held < 0 /\ world.ask = -1 /\ world.bid = 1
    /\ outcome = "PASS" /\ step = "yes-close" =>
            held > 0 /\ world.bid = 1 /\ world.ask = -1 /\ reply.fill = Count

\* The branches that _recheck_and_report_position's docstring says do not
\* read the position again.
SaysNothing ==
    \/ step = "no-mapping" /\ reply.kind = "error"
    \/ step = "unfillable-ask" /\ reply.kind \in {"error", "no counts"}

\* However an order or a transfer came back, and however late the account
\* shows it: a step that leaves a position open, or the cent elsewhere, says
\* so - the branches that say nothing aside.
OpenIsTold ==
    outcome # None /\ (pos # 0 \/ cent # "source") => told \/ SaysNothing

\* The probe has more than its 0.01 contracts at stake only when the very order
\* that closes turns out to open, with reduce_only ignored: never because it
\* went on after the first order disproved the mapping.
OneCentAtStake ==
    \/ Size(pos) <= Count
    \/ /\ pc \in {"closed", "done"} /\ ~world.reduce /\ world.bid = world.ask
       /\ held = (IF step = "no-mapping" THEN -Count ELSE Count)

\* The three together.
ProbeSpeaksTrue == VerdictIsTrue /\ OpenIsTold /\ OneCentAtStake
===============================================================================
