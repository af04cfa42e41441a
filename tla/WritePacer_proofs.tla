------------------------- MODULE WritePacer_proofs -------------------------
(* Proofs about WritePacer: its credit bounds and that it is a token bucket,   *)
(* for every set of callers, every burst and every number of hedge writes.     *)
EXTENDS WriteWindow, FiniteSetTheorems, SequenceTheorems, TLAPS

\* Who may hold what: an owner of a live hold is not asking for a place, and a
\* caller that was served and has not returned is still inside _take.
Actors == /\ live \subseteq {c \in Callers : pc[c] = "idle"}
          /\ served \subseteq {c \in Callers : pc[c] \in {"serve", "blocked"}}

\* A line holds the callers of a set, each once.
Exactly(line, W) ==
    /\ line \in Seq(W)
    /\ \A w \in W : \E i \in 1 .. Len(line) : line[i] = w
    /\ \A i, j \in 1 .. Len(line) : line[i] = line[j] => i = j

HedgeWaiters == {c \in Callers : Waiter(c) /\ kind[c] = "hedge"}
OtherWaiters == {c \in Callers : Waiter(c) /\ kind[c] # "hedge"}

Lines == Exactly(lane, HedgeWaiters) /\ Exactly(inTurn, OtherWaiters)

PacerInv == TypeOK /\ CreditBound /\ HeldExact /\ Actors /\ Lines

----------------------------------------------------------------------------
\* Taking one place out of a line keeps the others in order.
LEMMA RemoveAtFacts ==
    ASSUME NEW S, NEW s \in Seq(S), NEW i \in 1 .. Len(s)
    PROVE  /\ RemoveAt(s, i) \in Seq(S)
           /\ Len(RemoveAt(s, i)) = Len(s) - 1
           /\ \A j \in 1 .. Len(s) - 1 :
                 RemoveAt(s, i)[j] = IF j < i THEN s[j] ELSE s[j + 1]
<1> DEFINE front == SubSeq(s, 1, i - 1)
           back  == SubSeq(s, i + 1, Len(s))
<1>1. \A j \in 1 .. Len(s) : s[j] \in S
  BY ElementOfSeq
<1>2. /\ front \in Seq(S) /\ Len(front) = i - 1
      /\ \A j \in 1 .. i - 1 : front[j] = s[j]
  <2>1. \A j \in 1 .. i - 1 : s[j] \in S
    BY <1>1
  <2> QED BY <2>1, SubSeqProperties, i - 1 \in Int
<1>3. /\ back \in Seq(S) /\ Len(back) = Len(s) - i
      /\ \A j \in 1 .. Len(s) - i : back[j] = s[i + j]
  <2>1. \A j \in i + 1 .. Len(s) : s[j] \in S
    BY <1>1
  <2> QED BY <2>1, SubSeqProperties, i + 1 \in Int, Len(s) \in Int
<1>4. RemoveAt(s, i) = front \o back
  BY DEF RemoveAt
<1> HIDE DEF front, back
<1>5. /\ front \o back \in Seq(S)
      /\ Len(front \o back) = Len(front) + Len(back)
      /\ \A j \in 1 .. Len(front) + Len(back) :
            (front \o back)[j] = IF j <= Len(front) THEN front[j]
                                  ELSE back[j - Len(front)]
  BY <1>2, <1>3, ConcatProperties
<1>6. ASSUME NEW j \in 1 .. Len(s) - 1
      PROVE  RemoveAt(s, i)[j] = IF j < i THEN s[j] ELSE s[j + 1]
  <2>1. CASE j < i
    BY <2>1, <1>2, <1>3, <1>4, <1>5
  <2>2. CASE ~(j < i)
    <3>1. j - (i - 1) \in 1 .. Len(s) - i
      BY <2>2
    <3>2. (front \o back)[j] = back[j - (i - 1)]
      BY <2>2, <1>2, <1>3, <1>5
    <3>3. back[j - (i - 1)] = s[i + (j - (i - 1))]
      BY <3>1, <1>3
    <3>4. i + (j - (i - 1)) = j + 1
      OBVIOUS
    <3> QED BY <2>2, <3>2, <3>3, <3>4, <1>4
  <2> QED BY <2>1, <2>2
<1> QED BY <1>2, <1>3, <1>4, <1>5, <1>6

\* The refill never fills the places that are held.
LEMMA RefilledFacts ==
    ASSUME TypeOK, CreditBound
    PROVE  /\ Refilled \in 0 .. Burst
           /\ Refilled + held <= Burst
           /\ Refilled >= tokens
           /\ Least(Burst, Refilled + held) = Least(Burst, tokens + held + due)
BY PacerAssumption DEF TypeOK, CreditBound, Refilled, Least

\* A new caller joins the line.
LEMMA JoinLine ==
    ASSUME NEW W, NEW line, Exactly(line, W), NEW c, c \notin W
    PROVE  Exactly(Append(line, c), W \cup {c})
<1> DEFINE longer == Append(line, c)
<1>1. line \in Seq(W) /\ line \in Seq(W \cup {c}) /\ c \in W \cup {c}
  BY DEF Exactly
<1>2. /\ longer \in Seq(W \cup {c})
      /\ Len(longer) = Len(line) + 1
      /\ \A i \in 1 .. Len(line) : longer[i] = line[i]
      /\ longer[Len(line) + 1] = c
  BY <1>1, AppendProperties
<1>3. Len(line) \in Nat
  BY <1>1, LenProperties
<1>4. \A i \in 1 .. Len(line) : line[i] \in W
  BY <1>1, ElementOfSeq
<1> HIDE DEF longer
<1>5. \A w \in W \cup {c} : \E i \in 1 .. Len(longer) : longer[i] = w
  <2>1. ASSUME NEW w \in W PROVE \E i \in 1 .. Len(longer) : longer[i] = w
    <3>1. PICK i \in 1 .. Len(line) : line[i] = w
      BY DEF Exactly
    <3>2. i \in 1 .. Len(longer) /\ longer[i] = w
      BY <1>2, <1>3, <3>1
    <3> QED BY <3>2
  <2>2. Len(line) + 1 \in 1 .. Len(longer)
    BY <1>2, <1>3
  <2> QED BY <2>1, <2>2, <1>2
<1>6. \A i, j \in 1 .. Len(longer) : longer[i] = longer[j] => i = j
  <2> SUFFICES ASSUME NEW i \in 1 .. Len(longer), NEW j \in 1 .. Len(longer),
                      longer[i] = longer[j]
               PROVE  i = j
    OBVIOUS
  <2>1. ASSUME NEW n \in 1 .. Len(longer)
        PROVE  \/ n \in 1 .. Len(line) /\ longer[n] = line[n] /\ longer[n] # c
               \/ n = Len(line) + 1 /\ longer[n] = c
    BY <1>2, <1>3, <1>4
  <2> QED BY <2>1 DEF Exactly
<1>7. Exactly(longer, W \cup {c})
  BY <1>2, <1>5, <1>6 DEF Exactly
<1> QED BY <1>7 DEF longer

\* One who gives up leaves it.
LEMMA LeaveLine ==
    ASSUME NEW W, NEW line, Exactly(line, W), NEW i \in 1 .. Len(line)
    PROVE  line[i] \in W /\ Exactly(RemoveAt(line, i), W \ {line[i]})
<1> DEFINE rest == RemoveAt(line, i)
           W2   == W \ {line[i]}
<1>1. line \in Seq(W) /\ Len(line) \in Nat
  BY LenProperties DEF Exactly
<1>2. \A j \in 1 .. Len(line) : line[j] \in W
  BY <1>1, ElementOfSeq
<1>3. /\ rest \in Seq(W) /\ Len(rest) = Len(line) - 1
      /\ \A j \in 1 .. Len(line) - 1 :
            rest[j] = IF j < i THEN line[j] ELSE line[j + 1]
  BY <1>1, RemoveAtFacts
<1> HIDE DEF rest
<1>4. ASSUME NEW j \in 1 .. Len(rest) PROVE rest[j] \in W2
  <2> DEFINE k == IF j < i THEN j ELSE j + 1
  <2>1. k \in 1 .. Len(line) /\ k # i
    BY <1>1, <1>3
  <2>2. rest[j] = line[k]
    BY <1>1, <1>3
  <2>3. line[k] # line[i]
    BY <2>1 DEF Exactly
  <2> QED BY <1>2, <2>1, <2>2, <2>3
<1>5. rest \in Seq(W2)
  <2>1. DOMAIN rest = 1 .. Len(rest) /\ Len(rest) \in Nat /\ rest \in [1 .. Len(rest) -> W]
    BY <1>3, LenProperties
  <2>2. rest \in [1 .. Len(rest) -> W2]
    BY <1>4, <2>1
  <2> QED BY <2>1, <2>2, SeqDef
<1>6. \A w \in W2 : \E j \in 1 .. Len(rest) : rest[j] = w
  <2> SUFFICES ASSUME NEW w \in W2 PROVE \E j \in 1 .. Len(rest) : rest[j] = w
    OBVIOUS
  <2>1. PICK k \in 1 .. Len(line) : line[k] = w
    BY DEF Exactly
  <2>2. CASE k < i
    <3>1. k \in 1 .. Len(rest) /\ rest[k] = w
      BY <1>1, <1>3, <2>1, <2>2
    <3> QED BY <3>1
  <2>3. CASE k > i
    <3>1. k - 1 \in 1 .. Len(rest) /\ ~(k - 1 < i) /\ (k - 1) + 1 = k
      BY <1>1, <1>3, <2>1, <2>3
    <3>2. rest[k - 1] = w
      BY <1>3, <2>1, <3>1
    <3> QED BY <3>1, <3>2
  <2>4. k # i
    BY <2>1
  <2> QED BY <2>2, <2>3, <2>4
<1>7. \A j, k \in 1 .. Len(rest) : rest[j] = rest[k] => j = k
  <2> SUFFICES ASSUME NEW j \in 1 .. Len(rest), NEW k \in 1 .. Len(rest),
                      rest[j] = rest[k]
               PROVE  j = k
    OBVIOUS
  <2> DEFINE from(n) == IF n < i THEN n ELSE n + 1
  <2>1. from(j) \in 1 .. Len(line) /\ from(k) \in 1 .. Len(line)
    BY <1>1, <1>3
  <2>2. rest[j] = line[from(j)] /\ rest[k] = line[from(k)]
    BY <1>3
  <2>3. from(j) = from(k)
    BY <2>1, <2>2 DEF Exactly
  <2> QED BY <2>3, <1>3
<1>8. Exactly(rest, W2)
  BY <1>5, <1>6, <1>7 DEF Exactly
<1> QED BY <1>2, <1>8 DEF rest

\* The one at its front is served.
LEMMA ServeLine ==
    ASSUME NEW W, NEW line, Exactly(line, W), line # << >>
    PROVE  Head(line) \in W /\ Exactly(Tail(line), W \ {Head(line)})
<1>1. line \in Seq(W) /\ Len(line) \in Nat /\ 1 \in 1 .. Len(line)
  BY LenProperties, EmptySeq DEF Exactly
<1>2. Head(line) = line[1]
  BY <1>1
<1>3. Tail(line) = RemoveAt(line, 1)
  <2>1. SubSeq(line, 1, 0) = << >>
    BY <1>1, SubSeqEmpty
  <2>2. Tail(line) = SubSeq(line, 2, Len(line))
    BY <1>1, TailIsSubSeq
  <2>3. SubSeq(line, 2, Len(line)) \in Seq(W)
    BY <1>1, <2>2, HeadTailProperties
  <2>4. << >> \o SubSeq(line, 2, Len(line)) = SubSeq(line, 2, Len(line))
    BY <2>3, ConcatEmptySeq
  <2> QED BY <2>1, <2>2, <2>4 DEF RemoveAt
<1>4. line[1] \in W /\ Exactly(RemoveAt(line, 1), W \ {line[1]})
  BY <1>1, LeaveLine
<1> QED BY <1>2, <1>3, <1>4

\* The two sets of owners are finite, so their sizes count.
LEMMA OwnersFinite ==
    ASSUME TypeOK
    PROVE  /\ IsFiniteSet(live) /\ IsFiniteSet(Promised)
           /\ Cardinality(live) \in Nat /\ Cardinality(Promised) \in Nat
BY PacerAssumption, FS_Subset, FS_CardinalityType DEF TypeOK, Promised

\* The caller at the front is a waiting one, in the line it is taken from.
LEMMA FirstFacts ==
    ASSUME PacerInv, Waiting
    PROVE  /\ First \in Callers /\ First \notin served
           /\ pc[First] \in {"serve", "blocked"}
           /\ First \in IF lane # << >> THEN HedgeWaiters ELSE OtherWaiters
<1>1. First \in IF lane # << >> THEN HedgeWaiters ELSE OtherWaiters
  BY ServeLine DEF PacerInv, Lines, Waiting, First
<1> QED BY <1>1 DEF HedgeWaiters, OtherWaiters, Waiter

----------------------------------------------------------------------------
(* One lemma per action: it keeps the invariant.                            *)

\* Refilling.
LEMMA TickStep == ASSUME PacerInv, Tick PROVE PacerInv'
<1>1. TypeOK'
  BY PacerAssumption DEF PacerInv, TypeOK, Tick, Least
<1>2. CreditBound' /\ Actors' /\ HeldExact'
  BY DEF PacerInv, CreditBound, Actors, HeldExact, Promised, Tick
<1>3. Lines'
  BY DEF PacerInv, Lines, HedgeWaiters, OtherWaiters, Waiter, Tick
<1> QED BY <1>1, <1>2, <1>3 DEF PacerInv

\* A call that begins.
LEMMA ArriveStep ==
    ASSUME PacerInv, NEW c \in Callers, NEW k \in Kinds, Arrive(c, k)
    PROVE  PacerInv'
<1> USE DEF PacerInv
<1>1. c \notin served /\ c \notin live /\ ~Waiter(c)
  BY DEF Actors, Arrive, Waiter
<1>2. TypeOK'
  <2>1. Append(lane, c) \in Seq(Callers) /\ Append(inTurn, c) \in Seq(Callers)
    BY AppendProperties DEF TypeOK
  <2>2. lane' \in Seq(Callers) /\ inTurn' \in Seq(Callers)
    BY <2>1 DEF TypeOK, Arrive
  <2>3. quota' \in [Callers -> 0 .. Hedges]
    BY PacerAssumption DEF TypeOK, Arrive
  <2>4. tokens' \in 0 .. Burst /\ due' \in 0 .. Burst
    BY RefilledFacts, PacerAssumption DEF Arrive
  <2>5. /\ pc' \in [Callers -> {"idle", "serve", "blocked", "ended"}]
        /\ kind' \in [Callers -> Kinds]
    BY DEF TypeOK, Arrive
  <2> QED BY <2>2, <2>3, <2>4, <2>5 DEF TypeOK, Arrive
<1>3. CreditBound'
  BY RefilledFacts DEF CreditBound, Arrive, TypeOK
<1>4. Promised' = Promised
  BY <1>1 DEF Promised, Arrive, TypeOK
<1>5. HeldExact'
  BY <1>4 DEF HeldExact, Arrive
<1>6. Actors'
  BY <1>1 DEF Actors, Arrive, TypeOK
<1>7. Lines'
  <2>1. c \notin HedgeWaiters /\ c \notin OtherWaiters
    BY <1>1 DEF HedgeWaiters, OtherWaiters
  <2>2. CASE k = "hedge"
    <3>1. HedgeWaiters' = HedgeWaiters \cup {c} /\ OtherWaiters' = OtherWaiters
      BY <1>1, <2>2 DEF HedgeWaiters, OtherWaiters, Waiter, Arrive, TypeOK
    <3>2. Exactly(Append(lane, c), HedgeWaiters \cup {c})
      BY <2>1, JoinLine DEF Lines
    <3> QED BY <2>2, <3>1, <3>2 DEF Lines, Arrive
  <2>3. CASE k # "hedge"
    <3>1. HedgeWaiters' = HedgeWaiters /\ OtherWaiters' = OtherWaiters \cup {c}
      BY <1>1, <2>3 DEF HedgeWaiters, OtherWaiters, Waiter, Arrive, TypeOK
    <3>2. Exactly(Append(inTurn, c), OtherWaiters \cup {c})
      BY <2>1, JoinLine DEF Lines
    <3> QED BY <2>3, <3>1, <3>2 DEF Lines, Arrive
  <2> QED BY <2>2, <2>3
<1> QED BY <1>2, <1>3, <1>5, <1>6, <1>7

\* A call that is first in line and served.
LEMMA ServeFirstStep ==
    ASSUME PacerInv, NEW c \in Callers, ServeFirst(c) PROVE PacerInv'
<1> USE DEF PacerInv
<1> DEFINE f == First
<1>1. Waiting /\ tokens >= Need(f)
  BY DEF ServeFirst, Covered
<1>2. /\ f \in Callers /\ f \notin served /\ pc[f] \in {"serve", "blocked"}
      /\ f \in IF lane # << >> THEN HedgeWaiters ELSE OtherWaiters
  BY <1>1, FirstFacts
<1> HIDE DEF f
<1>3. /\ tokens' = tokens - Need(f)
      /\ held' = IF kind[f] = "hold" THEN held + 1 ELSE held
      /\ served' = served \cup {f}
      /\ lane' = IF lane # << >> THEN Tail(lane) ELSE lane
      /\ inTurn' = IF lane # << >> THEN inTurn ELSE Tail(inTurn)
      /\ sleep' = Notified /\ beat' = 1 - beat
      /\ UNCHANGED <<due, pc, kind, live, quota>>
  BY DEF ServeFirst, f
<1>4. /\ lane # << >> => f = Head(lane)
      /\ lane = << >> => f = Head(inTurn) /\ inTurn # << >>
  BY <1>1 DEF f, First, Waiting
<1>5. tokens' \in 0 .. Burst /\ held' \in 0 .. Burst /\ CreditBound'
  BY <1>1, <1>3, PacerAssumption DEF TypeOK, CreditBound, Need
<1>6. Lines'
  <2>1. CASE lane # << >>
    <3>1. HedgeWaiters' = HedgeWaiters \ {f} /\ OtherWaiters' = OtherWaiters
      BY <1>2, <1>3, <2>1 DEF HedgeWaiters, OtherWaiters, Waiter
    <3> QED BY <1>3, <1>4, <2>1, <3>1, ServeLine DEF Lines
  <2>2. CASE lane = << >>
    <3>1. HedgeWaiters' = HedgeWaiters /\ OtherWaiters' = OtherWaiters \ {f}
      BY <1>2, <1>3, <2>2 DEF HedgeWaiters, OtherWaiters, Waiter
    <3> QED BY <1>3, <1>4, <2>2, <3>1, ServeLine DEF Lines
  <2> QED BY <2>1, <2>2
<1>7. TypeOK'
  <2>1. lane' \in Seq(Callers) /\ inTurn' \in Seq(Callers)
    BY <1>3, <1>4, HeadTailProperties DEF TypeOK
  <2>2. sleep' \in [Callers -> Int] /\ beat' \in {0, 1} /\ served' \subseteq Callers
    <3>1. beat' \in {0, 1}
      BY <1>3 DEF TypeOK
    <3>2. sleep' \in [Callers -> Int] /\ served' \subseteq Callers
      BY <1>2, <1>3 DEF TypeOK, Notified
    <3> QED BY <3>1, <3>2
  <2> QED BY <1>3, <1>5, <2>1, <2>2 DEF TypeOK
<1>8. HeldExact'
  <2>1. IsFiniteSet(Promised) /\ f \notin Promised
    BY <1>2, OwnersFinite DEF Promised
  <2>2. Promised' = IF kind[f] = "hold" THEN Promised \cup {f} ELSE Promised
    BY <1>3 DEF Promised
  <2>3. Cardinality(Promised \cup {f}) = Cardinality(Promised) + 1
    BY <2>1, FS_AddElement
  <2> QED BY <1>3, <2>2, <2>3, OwnersFinite DEF HeldExact, TypeOK
<1>9. Actors'
  BY <1>2, <1>3 DEF Actors
<1> QED BY <1>5, <1>6, <1>7, <1>8, <1>9

\* A call that returns served.
LEMMA TakeReturnsStep ==
    ASSUME PacerInv, NEW c \in Callers, TakeReturns(c) PROVE PacerInv'
<1> USE DEF PacerInv
<1>1. TypeOK' /\ CreditBound'
  BY PacerAssumption DEF TypeOK, CreditBound, TakeReturns
<1>2. Actors'
  BY DEF Actors, TakeReturns, TypeOK
<1>3. HeldExact'
  <2>1. CASE kind[c] = "hold"
    <3>1. live' = live \cup {c} /\ c \notin live
      BY <2>1 DEF TakeReturns, Actors
    <3>2. Promised' = Promised \ {c} /\ c \in Promised
      BY <2>1 DEF TakeReturns, Promised
    <3>3. Cardinality(live') = Cardinality(live) + 1
      BY <3>1, OwnersFinite, FS_AddElement
    <3>4. Cardinality(Promised') = Cardinality(Promised) - 1
      BY <3>2, OwnersFinite, FS_RemoveElement
    <3> QED BY <3>3, <3>4, OwnersFinite DEF HeldExact, TakeReturns, TypeOK
  <2>2. CASE kind[c] # "hold"
    <3>1. live' = live /\ Promised' = Promised
      BY <2>2 DEF TakeReturns, Promised
    <3> QED BY <3>1 DEF HeldExact, TakeReturns
  <2> QED BY <2>1, <2>2
<1>4. Lines'
  <2>1. HedgeWaiters' = HedgeWaiters /\ OtherWaiters' = OtherWaiters
    BY DEF HedgeWaiters, OtherWaiters, Waiter, TakeReturns, TypeOK
  <2> QED BY <2>1 DEF Lines, TakeReturns
<1> QED BY <1>1, <1>2, <1>3, <1>4

\* A call that begins to wait.
LEMMA BlockStep == ASSUME PacerInv, NEW c \in Callers, Block(c) PROVE PacerInv'
<1> USE DEF PacerInv
<1>1. TypeOK'
  BY PacerAssumption DEF TypeOK, Block, Delay, Forever, Need
<1>2. CreditBound' /\ HeldExact'
  BY DEF CreditBound, HeldExact, Promised, Block
<1>3. Actors'
  BY DEF Actors, Block, TypeOK
<1>4. Lines'
  <2>1. HedgeWaiters' = HedgeWaiters /\ OtherWaiters' = OtherWaiters
    BY DEF HedgeWaiters, OtherWaiters, Waiter, Block, TypeOK
  <2> QED BY <2>1 DEF Lines, Block
<1> QED BY <1>1, <1>2, <1>3, <1>4

\* A wait that ends.
LEMMA WakeStep == ASSUME PacerInv, NEW c \in Callers, Wake(c) PROVE PacerInv'
<1> USE DEF PacerInv
<1>1. TypeOK'
  BY RefilledFacts, PacerAssumption DEF TypeOK, Wake
<1>2. CreditBound'
  BY RefilledFacts DEF CreditBound, Wake, TypeOK
<1>3. HeldExact'
  BY DEF HeldExact, Promised, Wake
<1>4. Actors'
  BY DEF Actors, Wake, TypeOK
<1>5. Lines'
  <2>1. HedgeWaiters' = HedgeWaiters /\ OtherWaiters' = OtherWaiters
    BY DEF HedgeWaiters, OtherWaiters, Waiter, Wake, TypeOK
  <2> QED BY <2>1 DEF Lines, Wake
<1> QED BY <1>1, <1>2, <1>3, <1>4, <1>5

\* A wait that is interrupted.
LEMMA AbandonStep == ASSUME PacerInv, NEW c \in Callers, Abandon(c) PROVE PacerInv'
<1> USE DEF PacerInv
<1>1. CASE c \notin served
  <2>1. pc[c] = "blocked" /\ Waiter(c)
    BY <1>1 DEF Abandon, Waiter
  <2>2. /\ UNCHANGED <<tokens, held, due, served, kind, live, beat>>
        /\ sleep' = Notified
        /\ pc' = [pc EXCEPT ![c] = "idle"] /\ quota' = [quota EXCEPT ![c] = 0]
    BY <1>1 DEF Abandon
  <2>3. CreditBound' /\ HeldExact'
    BY <2>2 DEF CreditBound, HeldExact, Promised
  <2>4. Actors'
    BY <1>1, <2>1, <2>2 DEF Actors, TypeOK
  <2>5. Lines' /\ lane' \in Seq(Callers) /\ inTurn' \in Seq(Callers)
    <3>1. CASE kind[c] = "hedge"
      <4>1. PICK i \in 1 .. Len(lane) : lane[i] = c /\ lane' = RemoveAt(lane, i)
        BY <1>1, <3>1 DEF Abandon, Without
      <4>2. inTurn' = inTurn
        BY <1>1, <3>1 DEF Abandon
      <4>3. HedgeWaiters' = HedgeWaiters \ {c} /\ OtherWaiters' = OtherWaiters
        BY <2>1, <2>2, <3>1 DEF HedgeWaiters, OtherWaiters, Waiter, TypeOK
      <4>4. Exactly(RemoveAt(lane, i), HedgeWaiters \ {c})
        BY <4>1, LeaveLine DEF Lines
      <4>5. RemoveAt(lane, i) \in Seq(Callers)
        BY RemoveAtFacts DEF TypeOK
      <4> QED BY <4>1, <4>2, <4>3, <4>4, <4>5 DEF Lines, TypeOK
    <3>2. CASE kind[c] # "hedge"
      <4>1. PICK i \in 1 .. Len(inTurn) :
               inTurn[i] = c /\ inTurn' = RemoveAt(inTurn, i)
        BY <1>1, <3>2 DEF Abandon, Without
      <4>2. lane' = lane
        BY <1>1, <3>2 DEF Abandon
      <4>3. HedgeWaiters' = HedgeWaiters /\ OtherWaiters' = OtherWaiters \ {c}
        BY <2>1, <2>2, <3>2 DEF HedgeWaiters, OtherWaiters, Waiter, TypeOK
      <4>4. Exactly(RemoveAt(inTurn, i), OtherWaiters \ {c})
        BY <4>1, LeaveLine DEF Lines
      <4>5. RemoveAt(inTurn, i) \in Seq(Callers)
        BY RemoveAtFacts DEF TypeOK
      <4> QED BY <4>1, <4>2, <4>3, <4>4, <4>5 DEF Lines, TypeOK
    <3> QED BY <3>1, <3>2
  <2>6. TypeOK'
    BY <2>2, <2>5, PacerAssumption DEF TypeOK, Notified
  <2> QED BY <2>3, <2>4, <2>5, <2>6
<1>2. CASE c \in served
  <2>1. /\ UNCHANGED <<lane, inTurn, kind, live, beat>>
        /\ served' = served \ {c} /\ pc[c] = "blocked"
        /\ pc' = [pc EXCEPT ![c] = "idle"] /\ quota' = [quota EXCEPT ![c] = 0]
    BY <1>2 DEF Abandon
  <2>2. Actors'
    BY <2>1 DEF Actors, TypeOK
  <2>3. Lines'
    <3>1. HedgeWaiters' = HedgeWaiters /\ OtherWaiters' = OtherWaiters
      BY <1>2, <2>1 DEF HedgeWaiters, OtherWaiters, Waiter, TypeOK
    <3> QED BY <2>1, <3>1 DEF Lines
  <2>4. CASE kind[c] = "hold"
    <3>1. /\ tokens' = Refilled + 1 /\ due' = 0 /\ held' = held - 1
          /\ sleep' = Notified
      BY <1>2, <2>4 DEF Abandon, GivesBack
    <3>2. c \in Promised /\ Promised' = Promised \ {c}
      BY <1>2, <2>1, <2>4 DEF Promised
    <3>3. HeldExact' /\ held >= 1
      <4>1. /\ Cardinality(Promised') = Cardinality(Promised) - 1
            /\ Cardinality(Promised') \in Nat
        BY <3>2, OwnersFinite, FS_RemoveElement, FS_CardinalityType
      <4>2. held = Cardinality(live) + Cardinality(Promised) /\ held \in Nat
        BY PacerAssumption DEF HeldExact, TypeOK
      <4>3. /\ Cardinality(live) \in Nat /\ Cardinality(Promised) \in Nat
            /\ Cardinality(live') = Cardinality(live)
        BY <2>1, OwnersFinite
      <4>4. held >= 1
        BY <4>1, <4>2, <4>3
      <4>5. held' = Cardinality(live') + Cardinality(Promised')
        BY <3>1, <4>1, <4>2, <4>3
      <4> QED BY <4>4, <4>5 DEF HeldExact
    <3>4. CreditBound' /\ tokens' \in 0 .. Burst
      <4>1. Refilled \in 0 .. Burst /\ Refilled + held <= Burst
        BY RefilledFacts
      <4> QED BY <3>1, <3>3, <4>1, PacerAssumption DEF CreditBound, TypeOK
    <3>5. TypeOK'
      BY <2>1, <3>1, <3>3, <3>4, PacerAssumption DEF TypeOK, Notified
    <3> QED BY <2>2, <2>3, <3>3, <3>4, <3>5
  <2>5. CASE kind[c] # "hold"
    <3>1. UNCHANGED <<tokens, due, held, sleep>>
      BY <1>2, <2>5 DEF Abandon, GivesBack
    <3>2. Promised' = Promised
      BY <2>1, <2>5 DEF Promised
    <3>3. HeldExact' /\ CreditBound'
      BY <2>1, <3>1, <3>2 DEF HeldExact, CreditBound
    <3>4. TypeOK'
      BY <2>1, <3>1, PacerAssumption DEF TypeOK
    <3> QED BY <2>2, <2>3, <3>3, <3>4
  <2> QED BY <2>4, <2>5
<1> QED BY <1>1, <1>2

\* A hold that is given back.
LEMMA EndHoldStep ==
    ASSUME PacerInv, NEW c \in Callers, NEW sent \in BOOLEAN, EndHold(c, sent)
    PROVE  PacerInv'
<1> USE DEF PacerInv
<1>1. c \in live /\ live' = live \ {c} /\ held' = held - 1
  BY DEF EndHold
<1>2. Promised' = Promised
  BY DEF EndHold, Promised
<1>3. HeldExact' /\ held >= 1
  <2>1. /\ Cardinality(live') = Cardinality(live) - 1
        /\ Cardinality(live') \in Nat
    BY <1>1, OwnersFinite, FS_RemoveElement, FS_CardinalityType
  <2>2. held = Cardinality(live) + Cardinality(Promised) /\ held \in Nat
    BY PacerAssumption DEF HeldExact, TypeOK
  <2>3. /\ Cardinality(live) \in Nat /\ Cardinality(Promised) \in Nat
        /\ Cardinality(Promised') = Cardinality(Promised)
    BY <1>2, OwnersFinite
  <2>4. held >= 1
    BY <2>1, <2>2, <2>3
  <2>5. held' = Cardinality(live') + Cardinality(Promised')
    BY <1>1, <2>1, <2>2, <2>3
  <2> QED BY <2>4, <2>5 DEF HeldExact
<1>4. CreditBound' /\ tokens' \in 0 .. Burst
  <2>1. Refilled \in 0 .. Burst /\ Refilled + held <= Burst
    BY RefilledFacts
  <2> QED BY <1>1, <1>3, <2>1, PacerAssumption DEF EndHold, CreditBound, TypeOK
<1>5. TypeOK'
  BY <1>1, <1>3, <1>4, PacerAssumption DEF EndHold, TypeOK
<1>6. Actors'
  BY DEF EndHold, Actors, TypeOK
<1>7. Lines'
  <2>1. HedgeWaiters' = HedgeWaiters /\ OtherWaiters' = OtherWaiters
    BY DEF HedgeWaiters, OtherWaiters, Waiter, EndHold, TypeOK
  <2> QED BY <2>1 DEF Lines, EndHold
<1> QED BY <1>3, <1>4, <1>5, <1>6, <1>7

\* The return from it.
LEMMA EndReturnsStep == ASSUME PacerInv, NEW c \in Callers, EndReturns(c) PROVE PacerInv'
<1> USE DEF PacerInv
<1>1. TypeOK'
  BY DEF TypeOK, EndReturns, Notified
<1>2. CreditBound' /\ HeldExact'
  BY DEF CreditBound, HeldExact, Promised, EndReturns
<1>3. Actors'
  BY DEF Actors, EndReturns, TypeOK
<1>4. Lines'
  <2>1. HedgeWaiters' = HedgeWaiters /\ OtherWaiters' = OtherWaiters
    BY DEF HedgeWaiters, OtherWaiters, Waiter, EndReturns, TypeOK
  <2> QED BY <2>1 DEF Lines, EndReturns
<1> QED BY <1>1, <1>2, <1>3, <1>4

\* A pair that ends.
LEMMA PairEndsStep == ASSUME PacerInv, NEW c \in Callers, PairEnds(c) PROVE PacerInv'
<1> USE DEF PacerInv
<1>1. TypeOK'
  BY PacerAssumption DEF TypeOK, PairEnds
<1>2. CreditBound' /\ HeldExact' /\ Actors'
  BY DEF CreditBound, HeldExact, Promised, Actors, PairEnds
<1>3. Lines'
  BY DEF Lines, HedgeWaiters, OtherWaiters, Waiter, PairEnds
<1> QED BY <1>1, <1>2, <1>3

----------------------------------------------------------------------------
\* The invariant holds at the start.
LEMMA InitInv == Init => PacerInv
<1> SUFFICES ASSUME Init PROVE PacerInv
  OBVIOUS
<1>1. TypeOK /\ CreditBound /\ Actors
  BY PacerAssumption, EmptySeq DEF Init, TypeOK, CreditBound, Actors, Kinds
<1>2. HeldExact
  <2>1. live = {} /\ Promised = {} /\ held = 0
    BY DEF Init, Promised
  <2> QED BY <2>1, FS_EmptySet DEF HeldExact
<1>3. Lines
  <2>1. HedgeWaiters = {} /\ OtherWaiters = {}
    BY DEF Init, HedgeWaiters, OtherWaiters, Waiter
  <2>2. Exactly(<< >>, {})
    BY EmptySeq DEF Exactly
  <2> QED BY <2>1, <2>2 DEF Lines, Init
<1> QED BY <1>1, <1>2, <1>3 DEF PacerInv

\* Every step keeps the invariant.
LEMMA StepInv == PacerInv /\ [Next]_vars => PacerInv'
<1> SUFFICES ASSUME PacerInv, [Next]_vars PROVE PacerInv'
  OBVIOUS
<1>1. CASE Tick
  BY <1>1, TickStep
<1>2. ASSUME NEW c \in Callers, NEW k \in Kinds, Arrive(c, k) PROVE PacerInv'
  BY <1>2, ArriveStep
<1>3. ASSUME NEW c \in Callers, ServeFirst(c) PROVE PacerInv'
  BY <1>3, ServeFirstStep
<1>4. ASSUME NEW c \in Callers, TakeReturns(c) PROVE PacerInv'
  BY <1>4, TakeReturnsStep
<1>5. ASSUME NEW c \in Callers, Block(c) \/ Wake(c) PROVE PacerInv'
  BY <1>5, BlockStep, WakeStep
<1>6. ASSUME NEW c \in Callers, Abandon(c) PROVE PacerInv'
  BY <1>6, AbandonStep
<1>7. ASSUME NEW c \in Callers, Send(c) \/ Release(c) PROVE PacerInv'
  BY <1>7, EndHoldStep DEF Send, Release
<1>8. ASSUME NEW c \in Callers, EndReturns(c) \/ PairEnds(c) PROVE PacerInv'
  BY <1>8, EndReturnsStep, PairEndsStep
<1>9. CASE UNCHANGED vars
  BY <1>9 DEF vars, PacerInv, TypeOK, CreditBound, HeldExact, Promised, Actors,
              Lines, HedgeWaiters, OtherWaiters, Waiter
<1> QED BY <1>1, <1>2, <1>3, <1>4, <1>5, <1>6, <1>7, <1>8, <1>9 DEF Next

\* The invariant holds throughout.
LEMMA PacerInvariant == Spec => []PacerInv
BY InitInv, StepInv, PTL DEF Spec

\* Every variable keeps its type, for every set of callers and every burst.
THEOREM TypeCorrect == Spec => []TypeOK
BY PacerInvariant, PTL DEF PacerInv

\* Free and held tokens never exceed the bucket and one place is never held, so
\* a pair's unwind can always be served by the refill (_WritePacer).
THEOREM CreditIsBounded == Spec => []CreditBound
BY PacerInvariant, PTL DEF PacerInv

\* No held token is ever lost or invented, whatever waits are interrupted.
THEOREM NoHoldLeaks == Spec => []HeldExact
BY PacerInvariant, PTL DEF PacerInv

\* The number of places a caller has in a line it stands in, and in any other.
LEMMA PlacesFacts ==
    ASSUME NEW W, NEW line, Exactly(line, W), NEW c
    PROVE  Cardinality(Places(line, c)) = IF c \in W THEN 1 ELSE 0
<1>1. line \in Seq(W) /\ Len(line) \in Nat
  BY LenProperties DEF Exactly
<1>2. CASE c \in W
  <2>1. PICK i \in 1 .. Len(line) : line[i] = c
    BY <1>2 DEF Exactly
  <2>2. Places(line, c) = {i}
    BY <2>1 DEF Places, Exactly
  <2> QED BY <1>2, <2>2, FS_Singleton
<1>3. CASE c \notin W
  <2>1. Places(line, c) = {}
    BY <1>1, <1>3, ElementOfSeq DEF Places
  <2> QED BY <1>3, <2>1, FS_EmptySet
<1> QED BY <1>2, <1>3

\* Each line holds exactly the requests waiting in it, once each: an interrupted
\* wait takes nobody else's place away (_PaceRequest, _take).
THEOREM LinesAreExact == Spec => []LinesExact
<1>1. PacerInv => LinesExact
  <2> SUFFICES ASSUME PacerInv, NEW c \in Callers
               PROVE  /\ Cardinality(Places(lane, c)) =
                           IF Waiter(c) /\ kind[c] = "hedge" THEN 1 ELSE 0
                      /\ Cardinality(Places(inTurn, c)) =
                           IF Waiter(c) /\ kind[c] # "hedge" THEN 1 ELSE 0
    BY DEF LinesExact
  <2>1. /\ Cardinality(Places(lane, c)) = IF c \in HedgeWaiters THEN 1 ELSE 0
        /\ Cardinality(Places(inTurn, c)) = IF c \in OtherWaiters THEN 1 ELSE 0
    BY PlacesFacts DEF PacerInv, Lines
  <2> QED BY <2>1 DEF HedgeWaiters, OtherWaiters
<1> QED BY <1>1, PacerInvariant, PTL

\* The pacer's books are exact: holds and lines together.
THEOREM BookkeepingIsExact == Spec => []BookkeepingExact
BY NoHoldLeaks, LinesAreExact, PTL DEF BookkeepingExact

----------------------------------------------------------------------------
(* The pacer implements the token bucket.                                   *)

\* The bucket's credit.
Credit == Least(Burst, tokens + held + due)

\* The pacer starts as a full bucket.
LEMMA BucketInit == Init => Bucket!Init
BY PacerAssumption DEF Init, Bucket!Init, Least

\* Whoever holds the lock has refilled the bucket to now.
Stamped == LockFree \/ due = 0

\* Every step keeps it.
LEMMA StampedStep == PacerInv /\ Stamped /\ [Next]_vars => Stamped'
<1> SUFFICES ASSUME PacerInv, Stamped, [Next]_vars PROVE Stamped'
  OBVIOUS
<1> USE DEF PacerInv, TypeOK, Stamped
<1>1. CASE Tick
  BY <1>1 DEF Tick, LockFree
<1>2. ASSUME NEW c \in Callers,
             (\E k \in Kinds : Arrive(c, k)) \/ Wake(c) \/ Send(c) \/ Release(c)
      PROVE  due' = 0
  BY <1>2 DEF Arrive, Wake, Send, Release, EndHold
<1>3. ASSUME NEW c \in Callers, ServeFirst(c) \/ PairEnds(c) PROVE Stamped'
  BY <1>3 DEF ServeFirst, PairEnds, LockFree
<1>4. ASSUME NEW c \in Callers, TakeReturns(c) \/ Block(c) \/ EndReturns(c)
      PROVE  Stamped'
  BY <1>4 DEF TakeReturns, Block, EndReturns, LockFree
<1>5. ASSUME NEW c \in Callers, Abandon(c) PROVE Stamped'
  BY <1>5 DEF Abandon, LockFree
<1>6. CASE UNCHANGED vars
  BY <1>6 DEF vars, LockFree
<1> QED BY <1>1, <1>2, <1>3, <1>4, <1>5, <1>6 DEF Next

\* So it always holds.
LEMMA StampedInvariant == Spec => []Stamped
<1>1. Init => Stamped
  BY DEF Init, Stamped
<1> QED BY <1>1, StampedStep, PacerInvariant, PTL DEF Spec

Same  == Credit' = Credit /\ beat' = beat
Spent == Credit > 0 /\ Credit' = Credit - 1 /\ beat' = 1 - beat

\* A tick earns one credit.
LEMMA CreditEarned ==
    ASSUME PacerInv, Tick
    PROVE  Credit' = (IF Credit < Burst THEN Credit + 1 ELSE Burst) /\ beat' = beat
<1>1. Credit' = IF Credit < Burst THEN Credit + 1 ELSE Burst
  BY PacerAssumption DEF Credit, Least, Tick, TypeOK, PacerInv
<1>2. beat' = beat
  BY DEF Tick
<1> QED BY <1>1, <1>2

\* A served place and a sent held write spend one; no other step changes it.
LEMMA CreditStep == PacerInv /\ Stamped /\ [Next]_vars => Tick \/ Same \/ Spent
<1> SUFFICES ASSUME PacerInv, Stamped, [Next]_vars, ~Tick PROVE Same \/ Spent
  OBVIOUS
<1> USE DEF PacerInv, Same, Spent
<1>4. ASSUME tokens' = Refilled, due' = 0, held' = held, beat' = beat PROVE Same
  <2>1. Credit' = Least(Burst, Refilled + held + 0)
    BY <1>4 DEF Credit
  <2>2. Refilled + held + 0 = Refilled + held
    BY RefilledFacts DEF TypeOK
  <2> QED BY <1>4, <2>1, <2>2, RefilledFacts DEF Credit
<1>5. ASSUME NEW c \in Callers, NEW k \in Kinds, Arrive(c, k) PROVE Same
  BY <1>4, <1>5 DEF Arrive
<1>6. ASSUME NEW c \in Callers, Wake(c) PROVE Same
  BY <1>4, <1>6 DEF Wake
<1>7. ASSUME NEW c \in Callers,
             TakeReturns(c) \/ Block(c) \/ EndReturns(c) \/ PairEnds(c)
      PROVE  Same
  BY <1>7 DEF TakeReturns, Block, EndReturns, PairEnds, Credit
<1>8. ASSUME NEW c \in Callers, ServeFirst(c)
      PROVE  Spent
  <2>1. /\ tokens >= Need(First) /\ tokens' = tokens - Need(First)
        /\ held' = IF kind[First] = "hold" THEN held + 1 ELSE held
        /\ due' = due /\ beat' = 1 - beat
    BY <1>8 DEF ServeFirst, Covered
  <2>2. due = 0
    BY <1>8 DEF ServeFirst, Stamped, LockFree
  <2> QED BY <2>1, <2>2, PacerAssumption DEF Credit, Least, Need, TypeOK, CreditBound
<1>9. ASSUME NEW c \in Callers, Abandon(c) PROVE Same
  <2>1. beat' = beat
    BY <1>9 DEF Abandon
  <2>2. CASE c \in served /\ kind[c] = "hold"
    <3>1. tokens' = Refilled + 1 /\ due' = 0 /\ held' = held - 1
      BY <1>9, <2>2 DEF Abandon, GivesBack
    <3>2. tokens' + held' + due' = Refilled + held
      BY <3>1, RefilledFacts DEF TypeOK
    <3> QED BY <2>1, <3>2, RefilledFacts DEF Credit
  <2>3. CASE ~(c \in served /\ kind[c] = "hold")
    <3>1. UNCHANGED <<tokens, held, due>>
      BY <1>9, <2>3 DEF Abandon, GivesBack
    <3> QED BY <2>1, <3>1 DEF Credit
  <2> QED BY <2>2, <2>3
<1>10. ASSUME NEW c \in Callers, Release(c) PROVE Same
  <2>1. tokens' = Refilled + 1 /\ due' = 0 /\ held' = held - 1 /\ beat' = beat
    BY <1>10 DEF Release, EndHold
  <2>2. tokens' + held' + due' = Refilled + held
    BY <2>1, RefilledFacts DEF TypeOK
  <2> QED BY <2>1, <2>2, RefilledFacts DEF Credit
<1>11. ASSUME NEW c \in Callers, Send(c)
       PROVE  Spent
  <2>1. tokens' = Refilled /\ due' = 0 /\ held' = held - 1 /\ beat' = 1 - beat
    BY <1>11 DEF Send, EndHold
  <2>2. held >= 1
    <3>1. EndHold(c, TRUE)
      BY <1>11 DEF Send
    <3>2. PacerInv' /\ held' = held - 1
      BY <3>1, EndHoldStep DEF EndHold
    <3> QED BY <3>2 DEF TypeOK
  <2>3. Refilled + held = Credit /\ Refilled + held <= Burst /\ Refilled \in 0 .. Burst
    BY RefilledFacts, PacerAssumption DEF Credit, Least, TypeOK
  <2>4. Credit' = Refilled + (held - 1)
    BY <2>1, <2>3, PacerAssumption DEF Credit, Least, TypeOK
  <2> QED BY <2>1, <2>2, <2>3, <2>4 DEF TypeOK
<1>12. ASSUME UNCHANGED vars PROVE Same
  BY <1>12 DEF vars, Credit
<1> HIDE DEF Same, Spent
<1> QED BY <1>5, <1>6, <1>7, <1>8, <1>9, <1>10, <1>11, <1>12 DEF Next

\* So each step is one of the bucket, or none.
LEMMA BucketStep == PacerInv /\ Stamped /\ [Next]_vars => [Bucket!Next]_(Bucket!vars)
<1>1. Same => [Bucket!Next]_(Bucket!vars)
  BY DEF Same, Credit, Bucket!vars
<1>2. Spent => [Bucket!Next]_(Bucket!vars)
  BY DEF Spent, Credit, Bucket!Next, Bucket!Write
<1>3. PacerInv /\ Tick => [Bucket!Next]_(Bucket!vars)
  BY CreditEarned DEF Credit, Bucket!Next, Bucket!Earn
<1> QED BY <1>1, <1>2, <1>3, CreditStep

\* The exchange sees the writes of a plain token bucket, however long a held
\* write is kept.
THEOREM RateIsBounded == Spec => RateBound
BY BucketInit, BucketStep, PacerInvariant, StampedInvariant, PTL
DEF Spec, RateBound, Bucket!Spec

----------------------------------------------------------------------------
(* What a watcher counts.                                                   *)

\* A write spends a credit, and credit comes only from the bucket and from time.
Watched ==
    /\ PacerInv /\ Stamped
    /\ watching \in BOOLEAN /\ ticks \in Nat /\ writes \in Nat
    /\ IF watching THEN writes + Credit <= Burst + ticks
                   ELSE writes = 0 /\ ticks = 0

\* Every step keeps it.
LEMMA WatchedStep ==
    Watched /\ [BeginWatch \/ WatchStep]_<<vars, watch>> => Watched'
<1> SUFFICES ASSUME Watched, [BeginWatch \/ WatchStep]_<<vars, watch>> PROVE Watched'
  OBVIOUS
<1>0. [Next]_vars
  BY DEF BeginWatch, WatchStep
<1>1. PacerInv' /\ Stamped'
  BY <1>0, StepInv, StampedStep DEF Watched
<1>2. Credit \in 0 .. Burst /\ beat \in {0, 1} /\ Burst \in Nat
  BY PacerAssumption DEF Watched, PacerInv, TypeOK, Credit, Least
<1>3. CASE BeginWatch
  <2>1. Credit' = Credit
    BY <1>3 DEF BeginWatch, vars, Credit
  <2> QED BY <1>1, <1>2, <1>3, <2>1 DEF Watched, BeginWatch
<1>4. CASE WatchStep
  <2>1. CASE watching
    <3>1. CASE Tick
      <4>1. Credit' = (IF Credit < Burst THEN Credit + 1 ELSE Burst) /\ beat' = beat
        BY <3>1, CreditEarned DEF Watched
      <4>2. ticks' = ticks + 1 /\ writes' = writes /\ watching' = watching
        BY <1>4, <2>1, <3>1, <4>1 DEF WatchStep
      <4>3. writes' + Credit' <= Burst + ticks'
        BY <1>2, <2>1, <4>1, <4>2 DEF Watched
      <4> QED BY <1>1, <2>1, <4>2, <4>3 DEF Watched
    <3>2. CASE ~Tick
      <4>1. Same \/ Spent
        BY <1>0, <3>2, CreditStep DEF Watched
      <4>2. ticks' = ticks /\ watching' = watching
        BY <1>4, <3>2 DEF WatchStep
      <4>3. writes' = IF beat' # beat THEN writes + 1 ELSE writes
        BY <1>4, <2>1 DEF WatchStep
      <4>4. writes' \in Nat /\ writes' + Credit' <= Burst + ticks'
        BY <1>2, <2>1, <4>1, <4>2, <4>3 DEF Watched, Same, Spent
      <4> QED BY <1>1, <2>1, <4>2, <4>4 DEF Watched
    <3> QED BY <3>1, <3>2
  <2>2. CASE ~watching
    BY <1>1, <1>4, <2>2 DEF Watched, WatchStep
  <2> QED BY <2>1, <2>2
<1>5. CASE UNCHANGED <<vars, watch>>
  <2>1. Credit' = Credit
    BY <1>5 DEF vars, Credit
  <2>2. watching' = watching /\ ticks' = ticks /\ writes' = writes
    BY <1>5 DEF watch
  <2> QED BY <1>1, <2>1, <2>2 DEF Watched
<1> QED BY <1>3, <1>4, <1>5

\* In any T ticks at most Burst + T writes go out, whenever the count begins: the
\* limit trader._WritePacer's docstring gives for every T.
THEOREM WritesAreBounded == WatchSpec => []WindowBound
<1>1. WatchInit => Watched
  <2> SUFFICES ASSUME WatchInit PROVE Watched
    OBVIOUS
  <2>1. PacerInv /\ Stamped
    BY InitInv DEF WatchInit, Init, Stamped
  <2>2. watching = FALSE /\ ticks = 0 /\ writes = 0
    BY DEF WatchInit
  <2> QED BY <2>1, <2>2 DEF Watched
<1>2. Watched => WindowBound
  BY PacerAssumption DEF Watched, WindowBound, PacerInv, TypeOK, Credit, Least
<1> QED BY <1>1, <1>2, WatchedStep, PTL DEF WatchSpec

----------------------------------------------------------------------------
(* Nobody sleeps past the moment that could serve him.                      *)

\* One thread at a time holds the pacer's lock.
OneHolder == \A c, d \in Callers :
    pc[c] \in {"serve", "ended"} /\ pc[d] \in {"serve", "ended"} => c = d

\* Caller c's wait is no longer than what the front of the line needs: it is over,
\* or only the end of a hold can make room, or it ends with the refill.
Timely(c) ==
    \/ sleep[c] = 0
    \/ Burst - held < Need(First)
    \/ sleep[c] > 0 /\ sleep[c] + tokens + due <= Need(First)

\* Nobody who is still to be served, and nobody ending a hold, has the lock: the
\* front of the line depends on a waiting thread.
Quiet == LockFree \/ \E h \in served : pc[h] = "serve"

SomeoneWakes ==
    Quiet /\ Waiting =>
        \E c \in Callers : pc[c] = "blocked" /\ c \notin served /\ Timely(c)

WakeInv == OneHolder /\ SomeoneWakes

\* The lock is given to one thread.
LEMMA HolderStep == PacerInv /\ OneHolder /\ [Next]_vars => OneHolder'
<1> SUFFICES ASSUME PacerInv, OneHolder, [Next]_vars PROVE OneHolder'
  OBVIOUS
<1> USE DEF PacerInv, TypeOK, OneHolder
<1>1. ASSUME pc' = pc PROVE OneHolder'
  BY <1>1
<1>2. ASSUME NEW c \in Callers, NEW s \in {"serve", "ended"}, LockFree,
             pc' = [pc EXCEPT ![c] = s]
      PROVE  OneHolder'
  BY <1>2 DEF LockFree
<1>3. ASSUME NEW c \in Callers, NEW s \in {"idle", "blocked"},
             pc' = [pc EXCEPT ![c] = s]
      PROVE  OneHolder'
  BY <1>3
<1>4. ASSUME NEW c \in Callers,
             (\E k \in Kinds : Arrive(c, k)) \/ Wake(c) \/ Send(c) \/ Release(c)
      PROVE  OneHolder'
  BY <1>2, <1>4 DEF Arrive, Wake, Send, Release, EndHold
<1>5. ASSUME NEW c \in Callers,
             TakeReturns(c) \/ Block(c) \/ Abandon(c) \/ EndReturns(c)
      PROVE  OneHolder'
  BY <1>3, <1>5 DEF TakeReturns, Block, Abandon, EndReturns
<1>6. ASSUME NEW c \in Callers, ServeFirst(c) \/ PairEnds(c) PROVE OneHolder'
  BY <1>1, <1>6 DEF ServeFirst, PairEnds
<1>7. CASE Tick \/ UNCHANGED vars
  BY <1>1, <1>7 DEF Tick, vars
<1> QED BY <1>4, <1>5, <1>6, <1>7 DEF Next

\* Somebody who is still to be served, or ends a hold, has the lock: he looks
\* after the line himself.
Busy == \E c \in Callers : pc[c] \in {"serve", "ended"} /\ c \notin served

LEMMA BusyIsFine == PacerInv /\ OneHolder /\ Busy => SomeoneWakes
<1> SUFFICES ASSUME PacerInv, OneHolder, NEW c \in Callers,
                    pc[c] \in {"serve", "ended"}, c \notin served
             PROVE  SomeoneWakes
  BY DEF Busy
<1>1. ~Quiet
  BY DEF Quiet, LockFree, OneHolder, PacerInv, TypeOK
<1> QED BY <1>1 DEF SomeoneWakes

\* After a notify_all nobody sleeps, and the front of the line is a waiting thread.
LEMMA NotifiedIsFine == PacerInv /\ OneHolder /\ sleep = Notified => SomeoneWakes
<1> SUFFICES ASSUME PacerInv, OneHolder, sleep = Notified, Quiet, Waiting
             PROVE  \E c \in Callers : pc[c] = "blocked" /\ c \notin served /\ Timely(c)
  BY DEF SomeoneWakes
<1> DEFINE f == First
<1>1. f \in Callers /\ f \notin served /\ pc[f] \in {"serve", "blocked"}
  BY FirstFacts
<1> HIDE DEF f
<1>2. served \subseteq Callers
  BY DEF PacerInv, TypeOK
<1>3. pc[f] # "serve"
  BY <1>1, <1>2 DEF Quiet, LockFree, OneHolder
<1>4. Timely(f)
  <2>1. sleep[f] = 0
    BY <1>1 DEF Notified
  <2> QED BY <2>1 DEF Timely
<1> QED BY <1>1, <1>3, <1>4

\* The same after a step.
LEMMA BusyNext == PacerInv' /\ OneHolder' /\ Busy' => SomeoneWakes'
BY BusyIsFine, PTL

LEMMA NotifiedNext == PacerInv' /\ OneHolder' /\ (sleep = Notified)' => SomeoneWakes'
BY NotifiedIsFine, PTL

\* A tick brings every timed wait as much nearer as the refill.
LEMMA TickWakes ==
    ASSUME PacerInv, SomeoneWakes, Tick
    PROVE  SomeoneWakes'
<1> USE DEF PacerInv, TypeOK
<1>1. UNCHANGED <<tokens, held, lane, inTurn, pc, kind, served>>
  BY DEF Tick
<1>2. First' = First /\ Need(First)' = Need(First)
  BY <1>1 DEF First, Need
<1>3. (Quiet' <=> Quiet) /\ (Waiting' <=> Waiting)
  BY <1>1 DEF Quiet, LockFree, Waiting
<1>4. ASSUME NEW c \in Callers, Timely(c) PROVE Timely(c)'
  <2>1. Need(First) \in {1, 2}
    BY DEF Need
  <2>2. due' \in Int /\ due' <= due + 1
    BY PacerAssumption DEF Tick, Least
  <2>3. sleep'[c] = IF sleep[c] > 0 THEN sleep[c] - 1 ELSE sleep[c]
    BY DEF Tick
  <2>4. CASE sleep[c] = 0
    BY <2>3, <2>4 DEF Timely
  <2>5. CASE Burst - held < Need(First)
    BY <1>1, <1>2, <2>5 DEF Timely
  <2>6. CASE sleep[c] > 0 /\ sleep[c] + tokens + due <= Need(First)
    <3>1. sleep'[c] \in Int /\ sleep'[c] >= 0
      BY <2>3, <2>6
    <3>2. sleep'[c] + tokens + due' <= Need(First)
      BY <2>1, <2>2, <2>3, <2>6
    <3>3. (sleep[c] > 0 /\ sleep[c] + tokens + due <= Need(First))' \/ sleep'[c] = 0
      BY <1>1, <1>2, <3>1, <3>2
    <3> QED BY <3>3 DEF Timely
  <2> QED BY <1>4, <2>4, <2>5, <2>6 DEF Timely
<1> QED BY <1>1, <1>3, <1>4 DEF SomeoneWakes

\* A step that leaves the line, the room and the waiting threads alone.
WaitsUntouched ==
    /\ UNCHANGED <<held, lane, inTurn, kind, sleep>>
    /\ tokens' \in Nat /\ due' \in Nat /\ tokens' + due' <= tokens + due
    /\ \A c \in Callers : pc[c] = "blocked" /\ c \notin served
                            => pc'[c] = "blocked" /\ c \notin served'

LEMMA SameWaits ==
    ASSUME PacerInv, SomeoneWakes, Quiet \/ ~Quiet', WaitsUntouched
    PROVE  SomeoneWakes'
<1>1. First' = First /\ Need(First)' = Need(First)
  BY DEF WaitsUntouched, First, Need
<1>2. Waiting' <=> Waiting
  BY DEF WaitsUntouched, Waiting
<1>3. ASSUME NEW c \in Callers, Timely(c) PROVE Timely(c)'
  <2>1. sleep' = sleep /\ held' = held
    BY DEF WaitsUntouched
  <2>2. CASE sleep[c] = 0 \/ Burst - held < Need(First)
    BY <1>1, <2>1, <2>2 DEF Timely
  <2>3. CASE sleep[c] > 0 /\ sleep[c] + tokens + due <= Need(First)
    <3>1. sleep[c] \in Int /\ tokens \in Int /\ due \in Int /\ Need(First) \in Int
      BY PacerAssumption DEF PacerInv, TypeOK, Need
    <3>2. sleep'[c] > 0 /\ sleep'[c] + tokens' + due' <= Need(First)
      BY <2>1, <2>3, <3>1 DEF WaitsUntouched
    <3>3. (sleep[c] > 0 /\ sleep[c] + tokens + due <= Need(First))'
      BY <1>1, <3>2
    <3> QED BY <3>3 DEF Timely
  <2> QED BY <1>3, <2>2, <2>3 DEF Timely
<1>4. ASSUME NEW c \in Callers, pc[c] = "blocked", c \notin served
      PROVE  pc'[c] = "blocked" /\ c \notin served'
  BY <1>4 DEF WaitsUntouched
<1> QED BY <1>2, <1>3, <1>4 DEF SomeoneWakes

\* A thread that begins to wait takes the front's delay with it.
LEMMA BlockWakes ==
    ASSUME PacerInv, OneHolder, Stamped, NEW c \in Callers, Block(c)
    PROVE  SomeoneWakes'
<1> USE DEF PacerInv
<1>1. /\ pc[c] = "serve" /\ ~Covered /\ c \notin served
      /\ pc' = [pc EXCEPT ![c] = "blocked"]
      /\ sleep' = [sleep EXCEPT ![c] = Delay]
      /\ UNCHANGED <<tokens, held, due, lane, inTurn, kind, served>>
  BY DEF Block
<1>2. pc'[c] = "blocked" /\ c \notin served' /\ sleep'[c] = Delay
  BY <1>1 DEF TypeOK
<1>3. First' = First /\ Need(First)' = Need(First) /\ Need(First) \in {1, 2}
  BY <1>1 DEF First, Need
<1>4. due = 0
  BY <1>1 DEF Stamped, LockFree
<1>5. Waiting => Timely(c)'
  <2> SUFFICES ASSUME Waiting PROVE Timely(c)'
    OBVIOUS
  <2>1. tokens < Need(First)
    BY <1>1, <1>3, PacerAssumption DEF Covered, TypeOK
  <2>2. CASE Burst - held < Need(First)
    BY <1>1, <1>3, <2>2 DEF Timely
  <2>3. CASE ~(Burst - held < Need(First))
    <3>1. sleep'[c] = Need(First) - tokens
      BY <1>2, <2>3 DEF Delay
    <3>2. sleep'[c] > 0 /\ sleep'[c] + tokens' + due' <= Need(First)
      BY <1>1, <1>3, <1>4, <2>1, <3>1, PacerAssumption DEF TypeOK
    <3>3. (sleep[c] > 0 /\ sleep[c] + tokens + due <= Need(First))'
      BY <1>3, <3>2
    <3> QED BY <3>3 DEF Timely
  <2> QED BY <2>2, <2>3
<1>6. Waiting' <=> Waiting
  BY <1>1 DEF Waiting
<1> QED BY <1>2, <1>5, <1>6 DEF SomeoneWakes

\* Every step keeps it.
LEMMA SomeoneStep == PacerInv /\ Stamped /\ WakeInv /\ [Next]_vars => WakeInv'
<1> SUFFICES ASSUME PacerInv, Stamped, WakeInv, [Next]_vars PROVE WakeInv'
  OBVIOUS
<1> USE DEF PacerInv, WakeInv
<1>1. PacerInv' /\ OneHolder'
  BY StepInv, HolderStep
<1>2. (sleep = Notified)' => SomeoneWakes'
  BY <1>1, NotifiedNext
<1>3. Busy' => SomeoneWakes'
  BY <1>1, BusyNext
<1>4. tokens \in Nat /\ due \in Nat /\ served \subseteq Callers
  BY PacerAssumption DEF TypeOK
<1>5. Refilled \in Nat /\ Refilled <= tokens + due
  BY RefilledFacts, PacerAssumption DEF Refilled, Least, TypeOK, CreditBound
<1>6. ASSUME Tick PROVE SomeoneWakes'
  BY <1>6, TickWakes
<1>7. ASSUME NEW c \in Callers, NEW k \in Kinds, Arrive(c, k) PROVE SomeoneWakes'
  <2>1. c \notin served /\ served' = served /\ pc'[c] = "serve"
    BY <1>7 DEF Arrive, Actors, TypeOK
  <2> QED BY <1>3, <2>1 DEF Busy
<1>8. ASSUME NEW c \in Callers, ServeFirst(c) \/ EndReturns(c) PROVE SomeoneWakes'
  <2>1. sleep' = Notified
    BY <1>8 DEF ServeFirst, EndReturns
  <2>2. (sleep = Notified)'
    BY <2>1 DEF Notified
  <2> QED BY <1>2, <2>2
<1>9. ASSUME NEW c \in Callers, TakeReturns(c) PROVE SomeoneWakes'
  <2>1. /\ pc[c] = "serve" /\ c \in served /\ served' = served \ {c}
        /\ pc' = [pc EXCEPT ![c] = "idle"]
        /\ UNCHANGED <<tokens, held, due, lane, inTurn, kind, sleep>>
    BY <1>9 DEF TakeReturns
  <2>2. Quiet
    BY <2>1 DEF Quiet
  <2>3. \A d \in Callers : pc[d] = "blocked" /\ d \notin served
                             => pc'[d] = "blocked" /\ d \notin served'
    BY <2>1 DEF TypeOK
  <2> QED BY <1>4, <2>1, <2>2, <2>3, SameWaits DEF WaitsUntouched
<1>10. ASSUME NEW c \in Callers, Block(c) PROVE SomeoneWakes'
  BY <1>10, BlockWakes
<1>11. ASSUME NEW c \in Callers, Wake(c) PROVE SomeoneWakes'
  <2>1. /\ LockFree /\ tokens' = Refilled /\ due' = 0
        /\ pc' = [pc EXCEPT ![c] = "serve"] /\ pc'[c] = "serve"
        /\ UNCHANGED <<held, lane, inTurn, kind, served, sleep>>
    BY <1>11 DEF Wake, TypeOK
  <2>2. CASE c \in served
    <3>1. \A d \in Callers : pc[d] = "blocked" /\ d \notin served
                               => pc'[d] = "blocked" /\ d \notin served'
      BY <2>1, <2>2 DEF TypeOK
    <3>2. Quiet
      BY <2>1 DEF Quiet
    <3>3. tokens' \in Nat /\ due' \in Nat /\ tokens' + due' <= tokens + due
      BY <1>4, <1>5, <2>1
    <3> QED BY <2>1, <3>1, <3>2, <3>3, SameWaits DEF WaitsUntouched
  <2>3. CASE c \notin served
    BY <1>3, <2>1, <2>3 DEF Busy
  <2> QED BY <2>2, <2>3
<1>12. ASSUME NEW c \in Callers, Abandon(c) PROVE SomeoneWakes'
  <2>1. CASE sleep' = Notified
    <3>1. (sleep = Notified)'
      BY <2>1 DEF Notified
    <3> QED BY <1>2, <3>1
  <2>2. CASE sleep' # Notified
    <3>1. /\ LockFree /\ c \in served /\ served' = served \ {c}
          /\ pc' = [pc EXCEPT ![c] = "idle"]
          /\ UNCHANGED <<tokens, held, due, lane, inTurn, kind, sleep>>
      BY <1>12, <2>2 DEF Abandon
    <3>2. Quiet
      BY <3>1 DEF Quiet
    <3>3. \A d \in Callers : pc[d] = "blocked" /\ d \notin served
                               => pc'[d] = "blocked" /\ d \notin served'
      BY <3>1 DEF TypeOK
    <3> QED BY <1>4, <3>1, <3>2, <3>3, SameWaits DEF WaitsUntouched
  <2> QED BY <2>1, <2>2
<1>13. ASSUME NEW c \in Callers, Send(c) \/ Release(c) PROVE SomeoneWakes'
  <2>1. c \notin served /\ served' = served /\ pc'[c] = "ended"
    BY <1>13 DEF Send, Release, EndHold, Actors, TypeOK
  <2> QED BY <1>3, <2>1 DEF Busy
<1>14. ASSUME UNCHANGED vars \/ \E c \in Callers : PairEnds(c)
       PROVE  SomeoneWakes'
  <2>1. UNCHANGED <<tokens, held, due, lane, inTurn, pc, kind, served, sleep>>
    BY <1>14 DEF vars, PairEnds
  <2>2. Quiet' => Quiet
    BY <2>1 DEF Quiet, LockFree
  <2> QED BY <1>4, <2>1, <2>2, SameWaits DEF WaitsUntouched
<1> QED BY <1>1, <1>6, <1>7, <1>8, <1>9, <1>10, <1>11, <1>12, <1>13, <1>14 DEF Next

\* So it always holds.
LEMMA WakeInvariant == Spec => []WakeInv
<1>1. Init => WakeInv
  BY DEF Init, WakeInv, OneHolder, SomeoneWakes, Waiting
<1> QED BY <1>1, SomeoneStep, PacerInvariant, StampedInvariant, PTL DEF Spec

\* No wakeup is lost, and a hedge waits for the refill alone, whatever threads are
\* notified, interrupted or late (_block, _delay and every notify_all).
THEOREM NobodyOversleeps == Spec => []WokenInTime
<1>1. PacerInv /\ WakeInv => WokenInTime
  <2> SUFFICES ASSUME PacerInv, SomeoneWakes, LockFree PROVE WokenInTime
    BY DEF WakeInv, WokenInTime, NoLostWakeup, HedgeNeedsOnlyRefill
  <2> USE DEF PacerInv
  <2>1. Waiting => \E c \in Callers : pc[c] = "blocked" /\ Timely(c)
    BY DEF SomeoneWakes, Quiet
  <2>2. Need(First) \in {1, 2}
    BY DEF Need
  <2>3. ASSUME Waiting, Refilled >= Need(First)
        PROVE  \E c \in Callers : pc[c] = "blocked" /\ sleep[c] = 0
    <3>1. PICK c \in Callers : pc[c] = "blocked" /\ Timely(c)
      BY <2>1, <2>3
    <3>2. Burst - held >= Need(First) /\ tokens + due >= Need(First)
      BY <2>2, <2>3, PacerAssumption DEF Refilled, Least, TypeOK
    <3>3. sleep[c] = 0
      BY <2>2, <3>1, <3>2, PacerAssumption DEF Timely, TypeOK
    <3> QED BY <3>1, <3>3
  <2>4. ASSUME lane # << >>
        PROVE  \E c \in Callers : pc[c] = "blocked" /\ sleep[c] \in {0, 1}
    <3>1. PICK c \in Callers : pc[c] = "blocked" /\ Timely(c)
      BY <2>1, <2>4 DEF Waiting
    <3>2. Need(First) = 1
      BY <2>4, FirstFacts DEF Waiting, HedgeWaiters, Need
    <3>3. sleep[c] \in {0, 1}
      BY <3>1, <3>2, PacerAssumption DEF Timely, TypeOK, CreditBound
    <3> QED BY <3>1, <3>3
  <2> QED BY <2>3, <2>4 DEF WokenInTime, NoLostWakeup, HedgeNeedsOnlyRefill
<1> QED BY <1>1, PacerInvariant, WakeInvariant, PTL
=============================================================================
