----------------------------- MODULE WritePacer -----------------------------
(***************************************************************************)
(* trader._WritePacer, the token bucket every order and transfer POST of a  *)
(* process takes a token from, and trader._PairWrites, the way one pair uses *)
(* it: two tokens for the NO leg, one of them held for the YES leg, and the  *)
(* hedge lane for whatever else the pair must send.                          *)
(*                                                                          *)
(* The pacer's lock (its Condition) is explicit: a thread whose pc is        *)
(* "serve" or "ended" holds it, and the loop of _serve is one step per       *)
(* caller served.  Time passes in ticks of 1/rate seconds, the time in which *)
(* one token is earned; tokens are whole.  As in the code nothing is added   *)
(* when a tick passes: the bucket is refilled by whoever takes the lock.     *)
(***************************************************************************)
EXTENDS Integers, Sequences, FiniteSets, SequencesExt

CONSTANTS
    Callers, \* the threads that send POSTs
    Burst,   \* config.ORDER_WRITE_BURST
    Hedges   \* hedge writes one pair may need after its NO leg: YES leg, unwind

\* The constructor refuses a smaller burst: a pair's two writes must fit.
ASSUME PacerAssumption == /\ IsFiniteSet(Callers)
                          /\ Burst \in Nat /\ Burst >= 2
                          /\ Hedges \in Nat

VARIABLES
    tokens,  \* _tokens
    held,    \* _held
    due,     \* ticks since the bucket was last refilled (no more than Burst count)
    lane,    \* _hedges, the callers in the hedge lane
    inTurn,  \* _in_turn, the callers in the other line
    pc,      \* caller -> "idle", "serve" (in _take, lock held), "blocked"
             \* (in _take, waiting on the condition) or "ended" (in _end_hold)
    kind,    \* caller -> its last request: "plain", "hold" or "hedge"
    served,  \* callers served that have not returned from _take yet
    sleep,   \* blocked caller -> ticks until its wait times out, or Forever
    live,    \* callers whose pair has an unsent hold (_HeldWrite._live)
    quota,   \* caller -> hedge writes its pair may still ask for
    beat     \* history: flips with every write granted

vars == <<tokens, held, due, lane, inTurn, pc, kind, served, sleep, live, quota,
          beat>>

Kinds   == {"plain", "hold", "hedge"}
Forever == -1

Init ==
    /\ tokens = Burst /\ held = 0 /\ due = 0
    /\ lane = << >> /\ inTurn = << >>
    /\ pc = [c \in Callers |-> "idle"]
    /\ kind = [c \in Callers |-> "plain"]
    /\ served = {} /\ live = {}
    /\ sleep = [c \in Callers |-> 0]
    /\ quota = [c \in Callers |-> 0]
    /\ beat = 0

----------------------------------------------------------------------------
LockFree == \A c \in Callers : pc[c] \notin {"serve", "ended"}

Least(a, b) == IF a <= b THEN a ELSE b

\* Mutant: the refill ignores the held tokens.
RefilledPastTheHolds == Least(Burst, tokens + due)

\* _refill: the tokens earned since the last refill, up to the present room.
Refilled == Least(Burst - held, tokens + due)

\* _head: the hedge lane goes first.
Waiting == lane # << >> \/ inTurn # << >>
First   == IF lane # << >> THEN Head(lane) ELSE Head(inTurn)

\* A hold takes two tokens: one for the NO leg now, one held.
Need(c) == IF kind[c] = "hold" THEN 2 ELSE 1

\* _serve's loop condition.
Covered == Waiting /\ tokens >= Need(First)

\* Mutant: always wait to be notified.
DelayForever == Forever

\* _delay, for a line whose front is not covered: the refill's time, or no time
\* at all when only the end of a hold can make room.
Delay == IF Burst - held < Need(First) THEN Forever ELSE Need(First) - tokens

\* Mutant: nobody is woken.
NotifiedNobody == sleep

\* notify_all: every waiting thread is due to run.
Notified == [c \in Callers |-> 0]

\* One tick: a timed wait comes nearer to its end.
Tick ==
    /\ LockFree
    /\ due' = Least(Burst, due + 1)
    /\ sleep' = [c \in Callers |-> IF sleep[c] > 0 THEN sleep[c] - 1 ELSE sleep[c]]
    /\ UNCHANGED <<tokens, held, lane, inTurn, pc, kind, served, live, quota, beat>>

\* acquire, acquire_hedge, acquire_with_hold: join the line and start serving.
\* A pair asks for its NO leg's place first, then for at most Hedges more.
Arrive(c, k) ==
    /\ LockFree /\ pc[c] = "idle" /\ c \notin live
    /\ IF k = "hedge" THEN quota[c] > 0 ELSE quota[c] = 0
    /\ tokens' = Refilled /\ due' = 0
    /\ lane' = IF k = "hedge" THEN Append(lane, c) ELSE lane
    /\ inTurn' = IF k = "hedge" THEN inTurn ELSE Append(inTurn, c)
    /\ pc' = [pc EXCEPT ![c] = "serve"]
    /\ kind' = [kind EXCEPT ![c] = k]
    /\ quota' = IF k = "hedge" THEN [quota EXCEPT ![c] = @ - 1] ELSE quota
    /\ UNCHANGED <<held, served, sleep, live, beat>>

\* One turn of _serve's loop, by the thread c that holds the lock.
ServeFirst(c) ==
    /\ pc[c] \in {"serve", "ended"} /\ Covered
    /\ tokens' = tokens - Need(First)
    /\ held' = IF kind[First] = "hold" THEN held + 1 ELSE held
    /\ served' = served \cup {First}
    /\ lane' = IF lane # << >> THEN Tail(lane) ELSE lane
    /\ inTurn' = IF lane # << >> THEN inTurn ELSE Tail(inTurn)
    /\ sleep' = Notified
    /\ beat' = 1 - beat
    /\ UNCHANGED <<due, pc, kind, live, quota>>

\* _take returns: the caller sends its write; a hold it asked for is now live.
TakeReturns(c) ==
    /\ pc[c] = "serve" /\ ~Covered /\ c \in served
    /\ served' = served \ {c}
    /\ pc' = [pc EXCEPT ![c] = "idle"]
    /\ live' = IF kind[c] = "hold" THEN live \cup {c} ELSE live
    /\ quota' = IF kind[c] = "hold" THEN [quota EXCEPT ![c] = Hedges] ELSE quota
    /\ UNCHANGED <<tokens, held, due, lane, inTurn, kind, sleep, beat>>

\* _block: give the lock up until notified, or until the front caller's delay.
Block(c) ==
    /\ pc[c] = "serve" /\ ~Covered /\ c \notin served
    /\ pc' = [pc EXCEPT ![c] = "blocked"]
    /\ sleep' = [sleep EXCEPT ![c] = Delay]
    /\ UNCHANGED <<tokens, held, due, lane, inTurn, kind, served, live, quota, beat>>

\* A waiting thread runs again and serves the front of the line.
Wake(c) ==
    /\ LockFree /\ pc[c] = "blocked" /\ sleep[c] = 0
    /\ tokens' = Refilled /\ due' = 0
    /\ pc' = [pc EXCEPT ![c] = "serve"]
    /\ UNCHANGED <<held, lane, inTurn, kind, served, sleep, live, quota, beat>>

\* Mutant: requests with the same fields count as the same.
WithoutFront(line, c) == {Tail(line)}

\* A line without caller c's request (line.remove compares requests by identity).
Without(line, c) == {RemoveAt(line, i) : i \in {j \in 1 .. Len(line) : line[j] = c}}

\* Mutant: an interrupted caller keeps the token held for it.
GivesBackNothing(c) == FALSE

\* An interrupted caller already served a hold owes its held token back.
GivesBack(c) == kind[c] = "hold"

\* _take's except branch: the wait was interrupted (a Ctrl-C).  An unserved
\* request leaves the line; a served hold gives its held token back.  Nobody is
\* served here: the notified threads do it.
Abandon(c) ==
    /\ LockFree /\ pc[c] = "blocked"
    /\ pc' = [pc EXCEPT ![c] = "idle"]
    /\ quota' = [quota EXCEPT ![c] = 0]
    /\ IF c \notin served
       THEN /\ IF kind[c] = "hedge"
               THEN lane' \in Without(lane, c) /\ UNCHANGED inTurn
               ELSE inTurn' \in Without(inTurn, c) /\ UNCHANGED lane
            /\ sleep' = Notified
            /\ UNCHANGED <<tokens, held, due, served>>
       ELSE /\ served' = served \ {c}
            /\ UNCHANGED <<lane, inTurn>>
            /\ IF GivesBack(c)
               THEN /\ tokens' = Refilled + 1 /\ due' = 0 /\ held' = held - 1
                    /\ sleep' = Notified
               ELSE UNCHANGED <<tokens, due, held, sleep>>
    /\ UNCHANGED <<kind, live, beat>>

\* _end_hold: refill under the present room first, then end the hold.
EndHold(c, sent) ==
    /\ LockFree /\ pc[c] = "idle" /\ c \in live
    /\ sent => quota[c] > 0
    /\ live' = live \ {c}
    /\ tokens' = IF sent THEN Refilled ELSE Refilled + 1
    /\ due' = 0 /\ held' = held - 1
    /\ pc' = [pc EXCEPT ![c] = "ended"]
    /\ quota' = IF sent THEN [quota EXCEPT ![c] = @ - 1] ELSE quota
    /\ beat' = IF sent THEN 1 - beat ELSE beat
    /\ UNCHANGED <<lane, inTurn, kind, served, sleep>>

\* _PairWrites.hedge on a held place, and release by close.
Send(c)    == EndHold(c, TRUE)
Release(c) == EndHold(c, FALSE)

\* _end_hold returns once it has served everyone it can, waking all waiters.
EndReturns(c) ==
    /\ pc[c] = "ended" /\ ~Covered
    /\ pc' = [pc EXCEPT ![c] = "idle"]
    /\ sleep' = Notified
    /\ UNCHANGED <<tokens, held, due, lane, inTurn, kind, served, live, quota, beat>>

\* The pair ends (its hold, if any, was released by close).
PairEnds(c) ==
    /\ pc[c] = "idle" /\ c \notin live /\ quota[c] > 0
    /\ quota' = [quota EXCEPT ![c] = 0]
    /\ UNCHANGED <<tokens, held, due, lane, inTurn, pc, kind, served, sleep, live, beat>>

Next ==
    \/ Tick
    \/ \E c \in Callers :
         \/ \E k \in Kinds : Arrive(c, k)
         \/ ServeFirst(c) \/ TakeReturns(c) \/ Block(c) \/ Wake(c) \/ Abandon(c)
         \/ Send(c) \/ Release(c) \/ EndReturns(c) \/ PairEnds(c)

Spec == Init /\ [][Next]_vars

\* The clock runs, the thread that holds the lock goes on, a thread that keeps
\* asking for the lock gets it, and every pair ends its hold (_execute_one's
\* finally).  Nobody has to ask for anything.
HasLock(c) == ServeFirst(c) \/ TakeReturns(c) \/ Block(c) \/ EndReturns(c)

Fairness ==
    /\ SF_vars(Tick) /\ WF_vars(\E c \in Callers : HasLock(c))
    /\ \A c \in Callers : SF_vars(Wake(c)) /\ SF_vars(Send(c) \/ Release(c))

FairSpec == Spec /\ Fairness

----------------------------------------------------------------------------
(* Properties.                                                              *)

\* Every variable keeps its type (the pacer's state and its callers').
TypeOK ==
    /\ tokens \in 0 .. Burst /\ held \in 0 .. Burst /\ due \in 0 .. Burst
    /\ lane \in Seq(Callers) /\ inTurn \in Seq(Callers)
    /\ pc \in [Callers -> {"idle", "serve", "blocked", "ended"}]
    /\ kind \in [Callers -> Kinds]
    /\ served \subseteq Callers /\ live \subseteq Callers
    /\ sleep \in [Callers -> Int]
    /\ quota \in [Callers -> 0 .. Hedges]
    /\ beat \in {0, 1}

\* Free and held tokens together never exceed the bucket, and at least one place
\* is never held, so the refill alone can always serve a hedge (_WritePacer's
\* docstring: "at most burst - 1 are ever held").
CreditBound == tokens + held <= Burst /\ held <= Burst - 1

\* Every held token has an owner: a live hold, or a served request for one whose
\* caller has not returned yet.  None leaks when a wait is interrupted or a pair
\* fails (_take's except branch, _PairWrites.close).
Promised  == {c \in served : kind[c] = "hold"}
HeldExact == held = Cardinality(live) + Cardinality(Promised)

Places(line, c) == {i \in 1 .. Len(line) : line[i] = c}
Waiter(c)       == pc[c] \in {"serve", "blocked"} /\ c \notin served

\* Each line holds exactly the requests of the callers waiting in it, once each:
\* nobody waits behind an empty place and nobody loses a place to another's
\* interrupted wait (_PaceRequest's eq=False).
LinesExact ==
    \A c \in Callers :
        /\ Cardinality(Places(lane, c)) =
              IF Waiter(c) /\ kind[c] = "hedge" THEN 1 ELSE 0
        /\ Cardinality(Places(inTurn, c)) =
              IF Waiter(c) /\ kind[c] # "hedge" THEN 1 ELSE 0

\* The pacer's books are exact: its count of held writes and its two lines say
\* what the callers are really owed, whichever waits were interrupted.
BookkeepingExact == HeldExact /\ LinesExact

\* No wakeup is lost: when the front caller could be served by a refill now, some
\* waiting thread is due to run (_delay and every notify_all).
NoLostWakeup ==
    LockFree /\ Waiting /\ Refilled >= Need(First) =>
        \E c \in Callers : pc[c] = "blocked" /\ sleep[c] = 0

\* A hedge never waits for a hold to end: while one is in line, some waiting
\* thread runs within a tick, the time in which the refill can serve it.
HedgeNeedsOnlyRefill ==
    LockFree /\ lane # << >> =>
        \E c \in Callers : pc[c] = "blocked" /\ sleep[c] \in {0, 1}

\* Nobody sleeps past the moment that could serve him.
WokenInTime == NoLostWakeup /\ HedgeNeedsOnlyRefill

\* The rate the exchange sees is a token bucket's, however long a held write is
\* kept: every write takes one credit when its place is granted (a held one when
\* it is sent), and credit grows by one a tick up to Burst.
Bucket == INSTANCE TokenBucket WITH
            credit <- Least(Burst, tokens + held + due)
RateBound == Bucket!Spec

\* Everyone who waits for a place gets one (or is interrupted): no caller starves
\* behind the hedge lane or behind other pairs' holds.  The callers are
\* interchangeable, so any one of them stands for all.
EveryWaitEnds == LET c == CHOOSE c \in Callers : TRUE
                 IN  pc[c] = "blocked" ~> pc[c] = "idle"
=============================================================================
