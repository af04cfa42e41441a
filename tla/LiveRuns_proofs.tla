-------------------------- MODULE LiveRuns_proofs --------------------------
(* Proofs about LiveRuns, for any number of runs, pages, restarts and kills,   *)
(* any settings and any wait for the lock.                                     *)
EXTENDS LiveRuns, FiniteSetTheorems, WellFoundedInduction, TLAPS

\* The shape of the state, without the bounds.
Origins == [from : {"none", "page", "elsewhere"}, dry : BOOLEAN,
            set : Values \cup {0}, page : 0 .. MaxPages]
Shown == [session : 0 .. MaxSessions, set : Values \cup {0}, base : Nat, warned : Nat]
Requests == [page : 0 .. MaxPages, action : {"none", "offer", "save", "dry_run", "trade"},
             ack : BOOLEAN]
RunsTyped ==
    /\ step \in [Runs -> Steps] /\ how \in [Runs -> Origins]
    /\ tries \in [Runs -> Nat] /\ lock \in 0 .. MaxRuns
    /\ truth \in [Runs -> Outcomes] /\ result \in [Runs -> Outcomes]
    /\ ended \in [Runs -> 0 .. MaxRuns] /\ known \in SUBSET Runs
ServerTyped ==
    /\ file \in [val : Values, ver : Nat]
    /\ server \in {"down", "idle", "render", "checking", "save", "launch"}
    /\ request \in Requests /\ shared \in BOOLEAN /\ session \in 0 .. MaxSessions
    /\ mine \in SUBSET Runs /\ used \in SUBSET Pages
    /\ pages \in [Pages -> Shown]
Shape == RunsTyped /\ ServerTyped

\* A run: what has happened to it by its step.  Whoever may have sent orders
\* and has not written its result holds the lock.
Early(r) == step[r] \in {"boot", "trade", "report"}
Origin(r) ==
    /\ how[r].from = "none" <=> step[r] = "none"
    /\ how[r].from = "elsewhere" => ~how[r].dry
    /\ r \in known => how[r].from = "elsewhere"
Waits(r) ==
    /\ step[r] \in {"none", "boot"} => tries[r] < Attempts
    /\ tries[r] <= Attempts
Tells(r) ==
    /\ step[r] \in {"none", "boot", "trade"} => truth[r] = "none"
    /\ step[r] = "none" \/ Early(r) => result[r] = "none"
    /\ result[r] \in {"none", truth[r]}
    /\ truth[r] \in {"clean", "attention"} => ended[r] # 0
Holds(r) ==
    Trader(r) /\ (step[r] = "trade" \/ (step[r] = "report" /\ truth[r] # "no order"))
        => lock = r
RunInv(r) == Origin(r) /\ Waits(r) /\ Tells(r) /\ Holds(r)

\* The request in work: one that may start a run has found none of the page's
\* own going on, and none will before it does.
Starting == server \in {"checking", "launch"} \/ (server = "save" /\ request.action = "trade")
Ready == server = "render" => \E p \in Pages : pages[p] = NoPage
Named ==
    /\ server \in {"checking", "save", "launch"} =>
          /\ request.page \in Pages /\ pages[request.page].session = session
    /\ server = "checking" => request.action = "trade"
    /\ server = "save" => request.action \in {"save", "trade"}
    /\ server = "launch" => request.action \in {"dry_run", "trade"}
Current ==
    /\ server \in {"save", "launch"} => request.page \in used
    /\ server \in {"checking", "save"} => pages[request.page].base = file.ver
Alone == Starting => OwnRuns = {} /\ \A r \in FromPage : how[r].page # request.page
RequestInv == Ready /\ Named /\ Current /\ Alone

\* The pages: a run shows what its page did, and a page that started one is
\* used up for the server that issued it.
Sessions ==
    /\ server # "down" => session # 0
    /\ \A p \in Pages : /\ pages[p].session <= session
                        /\ pages[p].session = 0 => pages[p] = NoPage
                        /\ pages[p].session # 0 => pages[p].set \in Values
    /\ \A v \in 0 .. file.ver - 1 : \E p \in Pages : pages[p].session # 0 /\ pages[p].base = v
StartedBy ==
    \A r \in FromPage :
       /\ how[r].page \in Pages /\ pages[how[r].page].session # 0
       /\ how[r].set = pages[how[r].page].set
       /\ server # "down" /\ pages[how[r].page].session = session => how[r].page \in used
Single ==
    /\ \A r, q \in FromPage : how[r].page = how[q].page => r = q
    /\ \A r, q \in FromPage : Early(r) /\ Early(q) => r = q
PageInv == Sessions /\ StartedBy /\ Single /\ mine \subseteq FromPage

\* A person was asked, unless nothing was left for one.
WarnInv ==
    server \in {"save", "launch"} /\ request.action = "trade" /\ ~request.ack
        => \A q \in Runs : ~LeftByLast(q)

LiveIInv == Shape /\ (\A r \in Runs : RunInv(r)) /\ RequestInv /\ PageInv /\ WarnInv

-----------------------------------------------------------------------------
(* Helpers.                                                                    *)

\* The least of some numbers is one of them.
LEMMA LowestIn ==
    ASSUME NEW S \in SUBSET Nat, S # {}
    PROVE  Lowest(S) \in S
<1> DEFINE Below == {0 .. x : x \in S}
<1>1. Below \subseteq FiniteSubsetsOf(Nat) /\ Below # {}
  <2>1. \A x \in S : 0 .. x \subseteq Nat /\ IsFiniteSet(0 .. x)
    BY FS_Interval
  <2> QED BY <2>1 DEF FiniteSubsetsOf
<1>2. \E A \in Below : \A B \in Below : <<B, A>> \notin StrictSubsetOrdering(Nat)
  <2> HIDE DEF Below
  <2> QED BY <1>1, FS_StrictSubsetOrderingWellFounded, WFMin
<1>3. PICK m \in S : \A y \in S : <<0 .. y, 0 .. m>> \notin StrictSubsetOrdering(Nat)
  BY <1>2
<1>4. ASSUME NEW y \in S, y < m PROVE FALSE
  <2>1. m \in 0 .. m /\ m \notin 0 .. y /\ 0 .. y \subseteq 0 .. m
    BY <1>4
  <2>2. 0 .. y \in SUBSET Nat /\ 0 .. m \in SUBSET Nat
    OBVIOUS
  <2> QED BY <1>3, <2>1, <2>2 DEF StrictSubsetOrdering
<1>5. \A y \in S : m <= y
  BY <1>4
<1> QED BY <1>5 DEF Lowest

\* There are MaxRuns runs.
LEMMA RunsAreFinite == IsFiniteSet(Runs) /\ Cardinality(Runs) = MaxRuns
BY FS_Interval, LiveRunsAssumption DEF Runs

\* There are MaxPages pages.
LEMMA PagesAreFinite == IsFiniteSet(Pages) /\ Cardinality(Pages) = MaxPages
BY FS_Interval, LiveRunsAssumption DEF Pages

\* A run that has no place in the order yet finds one.
LEMMA NextPlace ==
    ASSUME Shape, NEW r \in Runs, ended[r] = 0
    PROVE  Count + 1 \in 1 .. MaxRuns
<1> DEFINE Had == {q \in Runs : ended[q] # 0}
<1>1. IsFiniteSet(Had) /\ Cardinality(Had) <= Cardinality(Runs)
       /\ (Cardinality(Had) = Cardinality(Runs) => Had = Runs)
  <2>1. Had \in SUBSET Runs
    OBVIOUS
  <2> HIDE DEF Had
  <2> QED BY <2>1, RunsAreFinite, FS_Subset
<1>2. r \in Runs /\ r \notin Had
  OBVIOUS
<1>3. Cardinality(Had) # MaxRuns /\ Cardinality(Had) <= MaxRuns /\ Cardinality(Had) \in Nat
  <2> HIDE DEF Had
  <2> QED BY <1>1, <1>2, RunsAreFinite, FS_CardinalityType
<1>4. Count = Cardinality(Had)
  BY DEF Count
<1> HIDE DEF Had
<1> QED BY <1>3, <1>4, LiveRunsAssumption

\* A set of runs in which no two differ has at most one.
LEMMA AtMostOne ==
    ASSUME NEW S \in SUBSET Runs, \A x, y \in S : x = y
    PROVE  Cardinality(S) <= 1
<1>1. CASE S = {}
  BY <1>1, FS_EmptySet
<1>2. CASE S # {}
  <2>1. PICK x \in S : TRUE
    BY <1>2
  <2>2. S = {x}
    BY <2>1
  <2> QED BY <2>2, FS_Singleton
<1> QED BY <1>1, <1>2

\* A run is started under the next number.
LEMMA StartFacts ==
    ASSUME Shape, NEW what \in Origins, Start(what)
    PROVE  \E s \in Runs : /\ s = Lowest(Unstarted) /\ step[s] = "none"
                           /\ step' = [step EXCEPT ![s] = "boot"]
                           /\ how' = [how EXCEPT ![s] = what]
<1>1. Unstarted \in SUBSET Nat /\ Unstarted # {}
  BY LiveRunsAssumption DEF Start, Unstarted, Runs
<1>2. Lowest(Unstarted) \in Unstarted
  BY <1>1, LowestIn
<1>3. Lowest(Unstarted) \in Runs /\ step[Lowest(Unstarted)] = "none"
  BY <1>2 DEF Unstarted
<1> QED BY <1>3 DEF Start

\* A page is rendered under the next number.
LEMMA RenderedFacts ==
    ASSUME Shape, RequestInv, NEW v \in Values, Rendered(v)
    PROVE  \E p \in Pages, w \in 0 .. MaxRuns :
              /\ pages[p] = NoPage
              /\ pages' = [pages EXCEPT ![p] =
                             [session |-> session, set |-> v, base |-> file.ver, warned |-> w]]
<1> DEFINE Free == {p \in Pages : pages[p] = NoPage}
<1>1. Free \in SUBSET Nat /\ Free # {}
  BY LiveRunsAssumption DEF Rendered, RequestInv, Ready, Pages
<1>2. Lowest(Free) \in Free
  <2> HIDE DEF Free
  <2> QED BY <1>1, LowestIn
<1>3. Attention \in 0 .. MaxRuns
  <2> DEFINE newest == {r \in Telling : \A q \in Telling : ended[q] <= ended[r]}
  <2>1. newest \subseteq Runs
    BY DEF Telling
  <2>2. (CHOOSE r \in newest : TRUE) \in Runs \/ newest = {}
    <3> HIDE DEF newest
    <3> QED BY <2>1
  <2>3. Runs \subseteq 0 .. MaxRuns /\ 0 \in 0 .. MaxRuns
    BY LiveRunsAssumption DEF Runs
  <2>4. Attention = IF \E r \in newest : Verdict(r) = "attention"
                    THEN CHOOSE r \in newest : TRUE ELSE 0
    BY DEF Attention
  <2> HIDE DEF newest
  <2> QED BY <2>2, <2>3, <2>4
<1>4. (IF request.action = "offer" THEN Attention ELSE 0) \in 0 .. MaxRuns
  BY <1>3, LiveRunsAssumption
<1> QED BY <1>2, <1>4 DEF Rendered

-----------------------------------------------------------------------------
(* The initial state.                                                          *)

\* Nothing has been started, saved or shown.
LEMMA InitInv == Init => LiveIInv
<1> SUFFICES ASSUME Init PROVE LiveIInv
  OBVIOUS
<1> USE LiveRunsAssumption
<1>1. Shape
  <2>1. Nobody \in Origins /\ NoPage \in Shown /\ NoRequest \in Requests
    BY DEF Origins, Shown, Requests, Nobody, NoPage, NoRequest
  <2>2. PICK v \in Values : file = [val |-> v, ver |-> 0]
    BY DEF Init
  <2>3. file \in [val : Values, ver : Nat]
    BY <2>2
  <2>4. 0 \in 0 .. MaxRuns /\ 0 \in 0 .. MaxSessions
    OBVIOUS
  <2>5. /\ step \in [Runs -> Steps] /\ how \in [Runs -> Origins] /\ tries \in [Runs -> Nat]
        /\ truth \in [Runs -> Outcomes] /\ result \in [Runs -> Outcomes]
        /\ ended \in [Runs -> 0 .. MaxRuns]
    BY <2>1, <2>4 DEF Init, Steps, Outcomes
  <2>6. pages \in [Pages -> Shown] /\ request \in Requests
    BY <2>1 DEF Init
  <2> QED BY <2>3, <2>4, <2>5, <2>6 DEF Init, Shape, RunsTyped, ServerTyped
<1>2. \A r \in Runs : RunInv(r)
  BY DEF Init, RunInv, Origin, Waits, Tells, Holds, Nobody, Early, Trader
<1>3. FromPage = {}
  BY DEF Init, FromPage, Nobody
<1>4. RequestInv
  BY DEF Init, RequestInv, Ready, Named, Current, Alone, Starting
<1>5. PageInv
  BY <1>3 DEF Init, PageInv, Sessions, StartedBy, Single, NoPage
<1>6. WarnInv
  BY DEF Init, WarnInv
<1> QED BY <1>1, <1>2, <1>4, <1>5, <1>6 DEF LiveIInv

-----------------------------------------------------------------------------
(* The shape of the state is kept.                                             *)

\* A start keeps the shape of the runs.
LEMMA StartShape ==
    ASSUME Shape, NEW what \in Origins, Start(what)
    PROVE  RunsTyped'
<1>1. PICK s \in Runs : step' = [step EXCEPT ![s] = "boot"] /\ how' = [how EXCEPT ![s] = what]
  BY StartFacts
<1>2. step' \in [Runs -> Steps] /\ how' \in [Runs -> Origins]
  BY <1>1 DEF Shape, RunsTyped, Steps
<1> QED BY <1>2 DEF Start, Shape, RunsTyped

\* A run that ends keeps its place or takes the next.
LEMMA EndsShape ==
    ASSUME Shape, NEW r \in Runs, EndsNow(r)
    PROVE  /\ ended' \in [Runs -> 0 .. MaxRuns]
           /\ ended'[r] # 0
           /\ \A q \in Runs : ended[q] # 0 => ended'[q] = ended[q]
<1>0. ended \in [Runs -> 0 .. MaxRuns]
  BY DEF Shape, RunsTyped
<1>1. CASE ended[r] = 0
  <2>1. Count + 1 \in 1 .. MaxRuns
    BY <1>1, NextPlace
  <2>2. ended' = [ended EXCEPT ![r] = Count + 1]
    BY <1>1 DEF EndsNow
  <2>3. Count + 1 \in 0 .. MaxRuns /\ Count + 1 # 0
    BY <2>1, LiveRunsAssumption
  <2> HIDE DEF Count
  <2> QED BY <1>0, <1>1, <2>2, <2>3
<1>2. CASE ended[r] # 0
  BY <1>0, <1>2 DEF EndsNow
<1> QED BY <1>1, <1>2

\* Freeing the lock leaves a run or nobody.
LEMMA FreedShape == ASSUME Shape, NEW r \in Runs PROVE Freed(r) \in 0 .. MaxRuns
BY LiveRunsAssumption DEF Shape, RunsTyped, Freed

\* A step of the server keeps the shape.
LEMMA ServeShape ==
    ASSUME Shape, RequestInv, PageInv, Serve
    PROVE  Shape'
<1> USE LiveRunsAssumption
<1>0. UNCHANGED lives => RunsTyped'
  BY DEF Shape, RunsTyped, lives
<1> SUFFICES RunsTyped' /\ ServerTyped'
  BY DEF Shape
<1>t. ServerTyped
  BY DEF Shape
<1>n. NoRequest \in Requests
  BY DEF NoRequest, Requests
<1>1. CASE ServerStarts
  <2>1. session' \in 0 .. MaxSessions
    BY <1>1, <1>t DEF ServerStarts, ServerTyped
  <2>2. ServerTyped'
    BY <1>1, <1>t, <2>1 DEF ServerStarts, ServerTyped
  <2> QED BY <1>0, <1>1, <2>2 DEF ServerStarts
<1>2. CASE ServerStops
  <2>1. request' \in Requests
    BY <1>n, <1>2 DEF ServerStops
  <2>2. ServerTyped'
    BY <1>2, <1>t, <2>1 DEF ServerStops, ServerTyped
  <2> QED BY <1>0, <1>2, <2>2 DEF ServerStops
<1>3. CASE Render
  <2>1. request' \in Requests
    <3>1. PICK action \in {"offer", "none"} : request' = [NoRequest EXCEPT !.action = action]
      BY <1>3 DEF Render
    <3>2. request' = [page |-> 0, action |-> action, ack |-> FALSE]
      BY <3>1 DEF NoRequest
    <3> QED BY <3>2 DEF Requests
  <2>2. ServerTyped'
    BY <1>3, <1>t, <2>1 DEF Render, ServerTyped, memory
  <2> QED BY <1>0, <1>3, <2>2 DEF Render
<1>4. CASE Attend
  <2>1. request' \in Requests
    BY <1>4, <1>n, <1>t DEF Attend, ServerTyped
  <2>2. used' \in SUBSET Pages
    BY <1>4, <1>t DEF Attend, RequestInv, Named, ServerTyped
  <2>3. server' \in {"idle", "save", "launch"}
    BY <1>4 DEF Attend
  <2>4. ServerTyped'
    BY <1>4, <1>t, <2>1, <2>2, <2>3 DEF Attend, ServerTyped
  <2> QED BY <1>0, <1>4, <2>4 DEF Attend
<1>5. CASE Launch
  <2>1. request' \in Requests
    BY <1>n, <1>5 DEF Launch
  <2> DEFINE what == [from |-> "page", dry |-> request.action = "dry_run",
                      set |-> Argv, page |-> request.page]
  <2>2. mine' \in SUBSET Runs /\ RunsTyped'
    <3>1. CASE UNCHANGED <<lives, mine>>
      BY <1>0, <1>t, <3>1 DEF ServerTyped
    <3>2. CASE Start(what) /\ mine' = mine \cup {Lowest(Unstarted)}
      <4>1. request.page \in Pages
        BY <1>5 DEF Launch, RequestInv, Named
      <4>2. Argv \in Values \cup {0}
        BY <4>1, <1>t DEF Argv, ServerTyped, Shown
      <4>3. what \in Origins
        BY <4>1, <4>2 DEF Origins, Pages
      <4> HIDE DEF what
      <4>4. Lowest(Unstarted) \in Runs
        BY <3>2, <4>3, StartFacts
      <4> QED BY <1>t, <3>2, <4>3, <4>4, StartShape DEF ServerTyped
    <3> QED BY <1>5, <3>1, <3>2 DEF Launch
  <2>3. ServerTyped'
    BY <1>5, <1>t, <2>1, <2>2 DEF Launch, ServerTyped
  <2> QED BY <2>2, <2>3
<1>6. CASE \E v \in Values : Rendered(v)
  <2>1. PICK v \in Values : Rendered(v)
    BY <1>6
  <2>2. PICK p \in Pages, w \in 0 .. MaxRuns : pages' = [pages EXCEPT ![p] =
                 [session |-> session, set |-> v, base |-> file.ver, warned |-> w]]
    BY <2>1, RenderedFacts
  <2>3. [session |-> session, set |-> v, base |-> file.ver, warned |-> w] \in Shown
    BY <1>t DEF ServerTyped, Shown
  <2>4. pages' \in [Pages -> Shown]
    BY <1>t, <2>2, <2>3 DEF ServerTyped
  <2>5. request' \in Requests
    BY <1>n, <2>1 DEF Rendered
  <2>6. server' = "idle" /\ shared' = FALSE /\ UNCHANGED <<lives, file, session, mine, used>>
    BY <2>1 DEF Rendered, memory
  <2>7. ServerTyped'
    BY <1>t, <2>4, <2>5, <2>6 DEF ServerTyped
  <2> QED BY <1>0, <2>6, <2>7
<1>7. CASE \E w \in BOOLEAN : Save(w)
  <2>1. PICK w \in BOOLEAN : Save(w)
    BY <1>7
  <2>2. request' \in Requests /\ server' \in {"launch", "idle"}
    BY <1>n, <1>t, <2>1 DEF Save, ServerTyped
  <2>3. file' \in [val : Values, ver : Nat]
    <3>1. CASE ~w
      BY <1>t, <2>1, <3>1 DEF Save, ServerTyped
    <3>2. CASE w
      <4>1. request.page \in Pages /\ pages[request.page].session = session /\ session # 0
        BY <2>1 DEF Save, RequestInv, Named, PageInv, Sessions
      <4>2. pages[request.page].set \in Values
        BY <4>1 DEF PageInv, Sessions
      <4>3. file.ver \in Nat
        BY <1>t DEF ServerTyped
      <4>4. file' = [val |-> pages[request.page].set, ver |-> file.ver + 1]
        BY <2>1, <3>2 DEF Save
      <4> QED BY <4>2, <4>3, <4>4
    <3> QED BY <3>1, <3>2
  <2>4. UNCHANGED <<lives, shared, session, mine, used, pages>>
    BY <2>1 DEF Save, memory
  <2>5. ServerTyped'
    BY <1>t, <2>2, <2>3, <2>4 DEF ServerTyped
  <2> QED BY <1>0, <2>4, <2>5
<1>8. CASE \E p \in Pages : PostSave(p) \/ PostDryRun(p) \/ \E ack \in BOOLEAN : PostTrade(p, ack)
  <2>1. PICK p \in Pages : PostSave(p) \/ PostDryRun(p) \/ \E ack \in BOOLEAN : PostTrade(p, ack)
    BY <1>8
  <2>2. request' \in Requests
    <3>1. PICK action \in {"save", "dry_run", "trade"}, ack \in BOOLEAN :
            request' = [page |-> p, action |-> action, ack |-> ack]
      BY <2>1 DEF PostSave, PostDryRun, PostTrade, Asked
    <3>2. p \in 0 .. MaxPages
      BY DEF Pages
    <3> QED BY <3>1, <3>2 DEF Requests
  <2>3. used' \in SUBSET Pages
    BY <1>t, <2>1 DEF PostSave, PostDryRun, PostTrade, memory, ServerTyped
  <2>4. server' \in {"save", "launch", "checking"} /\ shared' \in BOOLEAN
    BY <1>t, <2>1 DEF PostSave, PostDryRun, PostTrade, ServerTyped
  <2>5. UNCHANGED <<lives, file, session, mine, pages>>
    BY <2>1 DEF PostSave, PostDryRun, PostTrade, memory
  <2>6. ServerTyped'
    BY <1>t, <2>2, <2>3, <2>4, <2>5 DEF ServerTyped
  <2> QED BY <1>0, <2>5, <2>6
<1> QED BY <1>1, <1>2, <1>3, <1>4, <1>5, <1>6, <1>7, <1>8 DEF Serve

\* A step of a run keeps the shape.
LEMMA RunShape ==
    ASSUME Shape, NEW r \in Runs, RunStep(r)
    PROVE  Shape'
<1> USE LiveRunsAssumption
<1>r. RunsTyped
  BY DEF Shape
<1>s. shared' \in BOOLEAN /\ UNCHANGED <<file, server, request, memory, pages>> => ServerTyped'
  BY DEF Shape, ServerTyped, memory
<1> SUFFICES RunsTyped' /\ ServerTyped'
  BY DEF Shape
<1>0. shared \in BOOLEAN
  BY DEF Shape, ServerTyped
<1>1. CASE Acquire(r)
  <2>1. r \in 0 .. MaxRuns
    BY DEF Runs
  <2>2. shared' \in BOOLEAN
    BY <1>0, <1>1 DEF Acquire
  <2>3. step' \in [Runs -> Steps]
    BY <1>1, <1>r DEF Acquire, RunsTyped, Steps
  <2>4. tries' \in [Runs -> Nat]
    <3>1. tries \in [Runs -> Nat]
      BY <1>r DEF RunsTyped
    <3>2. tries' = tries \/ tries' = [tries EXCEPT ![r] = tries[r] + 1]
      BY <1>1 DEF Acquire
    <3> QED BY <3>1, <3>2
  <2>5. lock' \in 0 .. MaxRuns
    BY <1>1, <1>r, <2>1 DEF Acquire, RunsTyped
  <2>6. truth' \in [Runs -> Outcomes]
    BY <1>1, <1>r DEF Acquire, RunsTyped, Outcomes
  <2>7. RunsTyped'
    BY <1>1, <1>r, <2>3, <2>4, <2>5, <2>6 DEF Acquire, RunsTyped
  <2> QED BY <1>1, <1>s, <2>2, <2>7 DEF Acquire
<1>2. CASE Release(r)
  <2>1. step' \in [Runs -> Steps] /\ lock' \in 0 .. MaxRuns
    BY <1>2, <1>r, FreedShape DEF Release, RunsTyped, Steps
  <2>2. RunsTyped'
    BY <1>2, <1>r, <2>1 DEF Release, RunsTyped
  <2> QED BY <1>0, <1>2, <1>s, <2>2 DEF Release
<1>3. CASE Kill(r)
  <2>1. step' \in [Runs -> Steps] /\ lock' \in 0 .. MaxRuns
    BY <1>3, <1>r, FreedShape DEF Kill, RunsTyped, Steps
  <2>2. truth' \in [Runs -> Outcomes]
    BY <1>3, <1>r DEF Kill, RunsTyped, Outcomes
  <2>3. ended' \in [Runs -> 0 .. MaxRuns]
    BY <1>3, EndsShape DEF Kill
  <2>4. RunsTyped'
    BY <1>3, <1>r, <2>1, <2>2, <2>3 DEF Kill, RunsTyped
  <2> QED BY <1>0, <1>3, <1>s, <2>4 DEF Kill
<1>4. CASE SchedulerRecords(r)
  <2>1. RunsTyped'
    BY <1>4, <1>r DEF SchedulerRecords, RunsTyped
  <2> QED BY <1>0, <1>4, <1>s, <2>1 DEF SchedulerRecords
<1>5. CASE \E o \in {"clean", "attention", "no order"} : TradingEnds(r, o)
  <2>1. PICK o \in {"clean", "attention", "no order"} : TradingEnds(r, o)
    BY <1>5
  <2>2. step' \in [Runs -> Steps] /\ truth' \in [Runs -> Outcomes]
    BY <1>r, <2>1 DEF TradingEnds, RunsTyped, Steps, Outcomes
  <2>3. ended' \in [Runs -> 0 .. MaxRuns]
    BY <2>1, EndsShape DEF TradingEnds
  <2>4. RunsTyped'
    BY <1>r, <2>1, <2>2, <2>3 DEF TradingEnds, RunsTyped
  <2> QED BY <1>0, <1>s, <2>1, <2>4 DEF TradingEnds
<1>6. CASE \E w \in BOOLEAN : Report(r, w)
  <2>1. PICK w \in BOOLEAN : Report(r, w)
    BY <1>6
  <2>2. step' \in [Runs -> Steps] /\ result' \in [Runs -> Outcomes]
    BY <1>r, <2>1 DEF Report, RunsTyped, Steps
  <2>3. RunsTyped'
    BY <1>r, <2>1, <2>2 DEF Report, RunsTyped
  <2> QED BY <1>0, <1>s, <2>1, <2>3 DEF Report
<1> QED BY <1>1, <1>2, <1>3, <1>4, <1>5, <1>6 DEF RunStep

\* A start elsewhere keeps the shape.
LEMMA ElsewhereShape ==
    ASSUME Shape, StartElsewhere
    PROVE  Shape'
<1> DEFINE what == [from |-> "elsewhere", dry |-> FALSE, set |-> file.val, page |-> 0]
<1>1. what \in Origins
  BY LiveRunsAssumption DEF Origins, Shape, ServerTyped
<1>2. Start(what)
  BY DEF StartElsewhere
<1>3. ServerTyped'
  BY DEF StartElsewhere, Shape, ServerTyped, memory
<1> HIDE DEF what
<1> QED BY <1>1, <1>2, <1>3, StartShape DEF Shape

-----------------------------------------------------------------------------
(* The runs.                                                                   *)

\* A step of one run leaves the others alone.
LEMMA OthersStay ==
    ASSUME Shape, NEW r \in Runs, RunStep(r)
    PROVE  /\ UNCHANGED <<how, file, server, request, session, mine, used, pages>>
           /\ \A q \in Runs \ {r} :
                 /\ step'[q] = step[q] /\ tries'[q] = tries[q] /\ truth'[q] = truth[q]
                 /\ result'[q] = result[q] /\ ended'[q] = ended[q]
                 /\ q \in known' <=> q \in known
                 /\ lock' = q <=> lock = q
<1> USE DEF Shape, RunsTyped
<1>0. UNCHANGED <<how, file, server, request, session, mine, used, pages>>
  BY DEF RunStep, Acquire, Release, Kill, SchedulerRecords, TradingEnds, Report, memory
<1> SUFFICES ASSUME NEW q \in Runs \ {r}
             PROVE  /\ step'[q] = step[q] /\ tries'[q] = tries[q] /\ truth'[q] = truth[q]
                    /\ result'[q] = result[q] /\ ended'[q] = ended[q]
                    /\ q \in known' <=> q \in known
                    /\ lock' = q <=> lock = q
  BY <1>0
<1>z. q # 0 /\ r # 0
  BY LiveRunsAssumption DEF Runs
<1>1. CASE Acquire(r)
  BY <1>1, <1>z DEF Acquire, LockFree
<1>2. CASE Release(r)
  BY <1>2, <1>z DEF Release, Freed
<1>3. CASE Kill(r)
  BY <1>3, <1>z DEF Kill, Freed, EndsNow
<1>4. CASE SchedulerRecords(r)
  BY <1>4 DEF SchedulerRecords
<1>5. CASE \E o \in {"clean", "attention", "no order"} : TradingEnds(r, o)
  BY <1>5 DEF TradingEnds, EndsNow
<1>6. CASE \E w \in BOOLEAN : Report(r, w)
  BY <1>6 DEF Report
<1> QED BY <1>1, <1>2, <1>3, <1>4, <1>5, <1>6 DEF RunStep

\* A run's own step keeps what is said of it.
LEMMA OwnStep ==
    ASSUME Shape, NEW r \in Runs, RunStep(r), RunInv(r)
    PROVE  RunInv(r)'
<1>0. how' = how /\ (Trader(r) <=> Trader(r)')
  BY OthersStay DEF Trader
<1>r. RunsTyped
  BY DEF Shape
<1>i. Origin(r) /\ Waits(r) /\ Tells(r) /\ Holds(r)
  BY DEF RunInv
<1> SUFFICES Origin(r)' /\ Waits(r)' /\ Tells(r)' /\ Holds(r)'
  BY DEF RunInv
<1>1. CASE Acquire(r)
  <2>0. step[r] = "boot" /\ UNCHANGED <<how, result, ended, known>>
    BY <1>1 DEF Acquire
  <2>1. CASE step' = [step EXCEPT ![r] = "trade"] /\ UNCHANGED <<tries, truth>>
             /\ (Trader(r) => lock' = r)
    <3>1. step'[r] = "trade"
      BY <1>r, <2>1 DEF RunsTyped
    <3>2. Origin(r)'
      BY <1>i, <2>0, <3>1 DEF Origin
    <3>3. Waits(r)' /\ Tells(r)'
      BY <1>i, <2>0, <2>1, <3>1 DEF Waits, Tells, Early
    <3>4. Holds(r)'
      BY <1>0, <2>1 DEF Holds
    <3> QED BY <3>2, <3>3, <3>4
  <2>2. CASE /\ tries' = [tries EXCEPT ![r] = tries[r] + 1]
             /\ step' = [step EXCEPT ![r] = "report"]
             /\ truth' = [truth EXCEPT ![r] = "no order"] /\ LastTry(r)
    <3>1. step'[r] = "report" /\ truth'[r] = "no order" /\ tries'[r] = tries[r] + 1
      BY <1>r, <2>2 DEF RunsTyped
    <3>2. Origin(r)'
      BY <1>i, <2>0, <3>1 DEF Origin
    <3>3. Waits(r)'
      <4>1. tries'[r] = Attempts
        BY <2>2, <3>1 DEF LastTry
      <4>2. Attempts \in Nat
        BY LiveRunsAssumption
      <4>3. step'[r] \notin {"none", "boot"}
        BY <3>1
      <4>4. tries'[r] <= Attempts
        BY <4>1, <4>2
      <4> QED BY <4>3, <4>4 DEF Waits
    <3>4. Tells(r)'
      BY <1>i, <2>0, <3>1 DEF Tells, Early
    <3>5. Holds(r)'
      BY <3>1 DEF Holds
    <3> QED BY <3>2, <3>3, <3>4, <3>5
  <2>3. CASE /\ tries' = [tries EXCEPT ![r] = tries[r] + 1]
             /\ UNCHANGED <<step, truth, lock>> /\ ~LastTry(r)
    <3>1. tries'[r] = tries[r] + 1 /\ tries[r] \in Nat
      BY <1>r, <2>3 DEF RunsTyped
    <3>2. Origin(r)' /\ Tells(r)'
      BY <1>i, <2>0, <2>3 DEF Origin, Tells, Early
    <3>3. Waits(r)'
      <4>1. Attempts \in Nat
        BY LiveRunsAssumption
      <4> QED BY <1>i, <2>0, <2>3, <3>1, <4>1 DEF Waits, LastTry
    <3>4. Holds(r)'
      BY <2>0, <2>3 DEF Holds
    <3> QED BY <3>2, <3>3, <3>4
  <2> QED BY <1>1, <2>1, <2>2, <2>3 DEF Acquire
<1>2. CASE Release(r)
  <2>1. step[r] = "release" /\ step'[r] = "gone" /\ UNCHANGED <<tries, truth, result, ended, known>>
    BY <1>2, <1>r DEF Release, RunsTyped
  <2> QED BY <1>0, <1>i, <2>1 DEF Origin, Waits, Tells, Holds, Early
<1>3. CASE Kill(r)
  <2>1. step[r] # "none" /\ step'[r] = "killed" /\ UNCHANGED <<tries, result, known>>
    BY <1>3, <1>r DEF Kill, RunsTyped, Alive
  <2>2. truth'[r] = truth[r] \/ (step[r] = "trade" /\ truth'[r] = "attention")
    BY <1>3, <1>r DEF Kill, RunsTyped
  <2>3. ended'[r] # 0
    BY <1>3, EndsShape DEF Kill
  <2>4. Tells(r)'
    BY <1>i, <2>1, <2>2, <2>3 DEF Tells, Early
  <2> QED BY <1>0, <1>i, <2>1, <2>4 DEF Origin, Waits, Holds
<1>4. CASE SchedulerRecords(r)
  <2>1. how[r].from = "elsewhere" /\ UNCHANGED <<step, how, tries, lock, truth, result, ended>>
    BY <1>4 DEF SchedulerRecords
  <2> QED BY <1>0, <1>i, <2>1 DEF Origin, Waits, Tells, Holds, Early
<1>5. CASE \E o \in {"clean", "attention", "no order"} : TradingEnds(r, o)
  <2>1. PICK o \in {"clean", "attention", "no order"} : TradingEnds(r, o)
    BY <1>5
  <2>2. /\ step[r] = "trade" /\ step'[r] = "report" /\ truth'[r] = o
        /\ UNCHANGED <<tries, lock, result, known>>
    BY <1>r, <2>1 DEF TradingEnds, RunsTyped
  <2>3. ended'[r] # 0
    BY <2>1, EndsShape DEF TradingEnds
  <2>4. Tells(r)'
    BY <1>i, <2>2, <2>3 DEF Tells, Early
  <2> QED BY <1>0, <1>i, <2>2, <2>4 DEF Origin, Waits, Holds
<1>6. CASE \E w \in BOOLEAN : Report(r, w)
  <2>1. PICK w \in BOOLEAN : Report(r, w)
    BY <1>6
  <2>2. step[r] = "report" /\ step'[r] = "release" /\ UNCHANGED <<tries, lock, truth, ended, known>>
    BY <1>r, <2>1 DEF Report, RunsTyped
  <2>3. result'[r] \in {result[r], truth[r]}
    BY <1>r, <2>1 DEF Report, RunsTyped
  <2> QED BY <1>0, <1>i, <2>2, <2>3 DEF Origin, Waits, Tells, Holds, Early
<1> QED BY <1>1, <1>2, <1>3, <1>4, <1>5, <1>6 DEF RunStep

\* A run's step keeps what is said of every run.
LEMMA RunStepKeepsRuns ==
    ASSUME Shape, \A q \in Runs : RunInv(q), NEW r \in Runs, RunStep(r)
    PROVE  \A q \in Runs : RunInv(q)'
<1> SUFFICES ASSUME NEW q \in Runs PROVE RunInv(q)'
  OBVIOUS
<1>1. CASE q = r
  BY <1>1, OwnStep
<1>2. CASE q # r
  <2>1. /\ step'[q] = step[q] /\ tries'[q] = tries[q] /\ truth'[q] = truth[q]
        /\ result'[q] = result[q] /\ ended'[q] = ended[q] /\ how' = how
        /\ q \in known' <=> q \in known
        /\ lock' = q <=> lock = q
    BY <1>2, OthersStay
  <2>2. RunInv(q)
    OBVIOUS
  <2> QED BY <2>1, <2>2 DEF RunInv, Origin, Waits, Tells, Holds, Early, Trader
<1> QED BY <1>1, <1>2

\* So does a start: what is new is at its beginning.
LEMMA StartKeepsRuns ==
    ASSUME Shape, \A q \in Runs : RunInv(q), NEW what \in Origins, Start(what),
           what.from # "none", what.from = "elsewhere" => ~what.dry
    PROVE  \A q \in Runs : RunInv(q)'
<1> SUFFICES ASSUME NEW q \in Runs PROVE RunInv(q)'
  OBVIOUS
<1>1. PICK s \in Runs : /\ step[s] = "none" /\ step' = [step EXCEPT ![s] = "boot"]
                        /\ how' = [how EXCEPT ![s] = what]
  BY StartFacts
<1>2. UNCHANGED <<tries, lock, truth, result, ended, known>>
  BY DEF Start
<1>3. step \in [Runs -> Steps] /\ how \in [Runs -> Origins]
  BY DEF Shape, RunsTyped
<1>4. CASE q = s
  <2>1. step'[q] = "boot" /\ how'[q] = what
    BY <1>1, <1>3, <1>4
  <2>2. RunInv(q) /\ step[q] = "none"
    BY <1>1, <1>4
  <2> QED BY <1>2, <2>1, <2>2 DEF RunInv, Origin, Waits, Tells, Holds, Early, Trader
<1>5. CASE q # s
  <2>1. step'[q] = step[q] /\ how'[q] = how[q]
    BY <1>1, <1>3, <1>5
  <2> QED BY <1>2, <2>1 DEF RunInv, Origin, Waits, Tells, Holds, Early, Trader
<1> QED BY <1>4, <1>5

\* Nothing that leaves the runs alone disturbs them.
LEMMA RunsStay == ASSUME \A r \in Runs : RunInv(r), UNCHANGED lives PROVE \A r \in Runs : RunInv(r)'
BY DEF RunInv, Origin, Waits, Tells, Holds, Early, Trader, lives

-----------------------------------------------------------------------------
(* What a run's step and a start mean for the server.                          *)

\* A run's step adds nothing to the page's runs that are going on.
LEMMA StepShrinks ==
    ASSUME Shape, NEW r \in Runs, RunStep(r), \A q \in Runs : RunInv(q)
    PROVE  /\ FromPage' = FromPage /\ OwnRuns' \subseteq OwnRuns
           /\ \A q \in Runs : Early(q)' => Early(q)
           /\ \A q \in Runs : Trader(q)' <=> Trader(q)
<1>0. how' = how /\ mine' = mine
  BY OthersStay
<1>1. step \in [Runs -> Steps] /\ result \in [Runs -> Outcomes]
  BY DEF Shape, RunsTyped
<1>2. \A q \in Runs : q # r => step'[q] = step[q] /\ result'[q] = result[q]
  BY OthersStay
<1>3. /\ Alive(r) \/ step'[r] = step[r]
      /\ step'[r] \in {"boot", "trade", "report"} => step[r] \in {"boot", "trade", "report"}
      /\ result'[r] = result[r] \/ result[r] = "none"
  <2>1. CASE Acquire(r)
    BY <1>1, <2>1 DEF Acquire, Alive
  <2>2. CASE Release(r)
    BY <1>1, <2>2 DEF Release, Alive
  <2>3. CASE Kill(r)
    BY <1>1, <2>3 DEF Kill, Alive
  <2>4. CASE SchedulerRecords(r)
    BY <2>4 DEF SchedulerRecords
  <2>5. CASE \E o \in {"clean", "attention", "no order"} : TradingEnds(r, o)
    BY <1>1, <2>5 DEF TradingEnds, Alive
  <2>6. CASE \E w \in BOOLEAN : Report(r, w)
    <3>1. step[r] = "report" /\ step'[r] = "release"
      BY <1>1, <2>6 DEF Report
    <3>2. result[r] = "none"
      BY <3>1 DEF RunInv, Tells, Early
    <3> QED BY <3>1, <3>2 DEF Alive
  <2> QED BY <2>1, <2>2, <2>3, <2>4, <2>5, <2>6 DEF RunStep
<1>4. FromPage' = FromPage
  BY <1>0 DEF FromPage
<1>5. \A q \in Runs : Trader(q)' <=> Trader(q)
  BY <1>0 DEF Trader
<1>6. \A q \in Runs : Early(q)' => Early(q)
  BY <1>2, <1>3 DEF Early
<1>7. ASSUME NEW q \in OwnRuns' PROVE q \in OwnRuns
  <2>1. q \in FromPage /\ q \in Runs /\ Alive(q)' /\ (q \in mine \/ result'[q] = "none")
    BY <1>0, <1>4, <1>7 DEF OwnRuns, FromPage
  <2>2. Alive(q)
    BY <1>2, <1>3, <2>1 DEF Alive
  <2>3. result'[q] = "none" => result[q] = "none"
    BY <1>2, <1>3, <2>1
  <2> QED BY <2>1, <2>2, <2>3 DEF OwnRuns
<1> QED BY <1>4, <1>5, <1>6, <1>7

\* A run started elsewhere is none of the page's.
LEMMA ElsewhereStays ==
    ASSUME Shape, StartElsewhere, \A q \in Runs : RunInv(q)
    PROVE  /\ FromPage' = FromPage /\ OwnRuns' = OwnRuns
           /\ \A q \in FromPage : how'[q] = how[q] /\ step'[q] = step[q]
           /\ \A q \in Runs : Trader(q) => Trader(q)'
<1> DEFINE what == [from |-> "elsewhere", dry |-> FALSE, set |-> file.val, page |-> 0]
<1>1. what \in Origins
  BY LiveRunsAssumption DEF Origins, Shape, ServerTyped
<1>2. Start(what)
  BY DEF StartElsewhere
<1>w. what.from = "elsewhere"
  OBVIOUS
<1> HIDE DEF what
<1>3. PICK s \in Runs : /\ step[s] = "none" /\ step' = [step EXCEPT ![s] = "boot"]
                        /\ how' = [how EXCEPT ![s] = what]
  BY <1>1, <1>2, StartFacts
<1>4. step \in [Runs -> Steps] /\ how \in [Runs -> Origins]
  BY DEF Shape, RunsTyped
<1>5. /\ how[s].from = "none" /\ how'[s].from = "elsewhere"
      /\ \A q \in Runs : q # s => how'[q] = how[q] /\ step'[q] = step[q]
  <2>1. how[s].from = "none"
    <3>1. Origin(s)
      BY DEF RunInv
    <3> QED BY <1>3, <3>1 DEF Origin
  <2>2. how'[s] = what
    BY <1>3, <1>4
  <2> QED BY <1>3, <1>4, <1>w, <2>1, <2>2
<1>6. FromPage' = FromPage /\ \A q \in FromPage : q # s
  BY <1>5 DEF FromPage
<1>7. UNCHANGED <<result, mine>>
  BY <1>2 DEF Start, StartElsewhere, memory
<1>8. OwnRuns' = OwnRuns
  BY <1>5, <1>6, <1>7 DEF OwnRuns, Alive, FromPage
<1>9. \A q \in Runs : Trader(q) => Trader(q)'
  BY <1>5 DEF Trader
<1> QED BY <1>5, <1>6, <1>8, <1>9 DEF FromPage

-----------------------------------------------------------------------------
(* The request in work.                                                        *)

-----------------------------------------------------------------------------
(* Requests and pages are kept by every run's step.                            *)

\* A run's step ends no request and shows no page; its page's runs only get fewer.
LEMMA RunStepKeepsServer ==
    ASSUME Shape, \A q \in Runs : RunInv(q), RequestInv, PageInv, NEW r \in Runs, RunStep(r)
    PROVE  RequestInv' /\ PageInv'
<1>1. UNCHANGED <<how, file, server, request, session, mine, used, pages>>
  BY OthersStay
<1>2. FromPage' = FromPage /\ OwnRuns' \subseteq OwnRuns /\ \A q \in Runs : Early(q)' => Early(q)
  BY StepShrinks
<1>3. Ready' /\ Named' /\ Current'
  BY <1>1 DEF RequestInv, Ready, Named, Current
<1>4. Alone'
  BY <1>1, <1>2 DEF RequestInv, Alone, Starting
<1>5. Sessions' /\ StartedBy'
  BY <1>1, <1>2 DEF PageInv, Sessions, StartedBy
<1>6. Single'
  BY <1>1, <1>2 DEF PageInv, Single, FromPage
<1> QED BY <1>1, <1>2, <1>3, <1>4, <1>5, <1>6 DEF RequestInv, PageInv

\* A start elsewhere is none of the server's business.
LEMMA ElsewhereKeepsServer ==
    ASSUME Shape, \A q \in Runs : RunInv(q), RequestInv, PageInv, StartElsewhere
    PROVE  RequestInv' /\ PageInv'
<1>1. UNCHANGED <<file, server, request, session, mine, used, pages>>
  BY DEF StartElsewhere, memory
<1>2. FromPage' = FromPage /\ OwnRuns' = OwnRuns
      /\ \A q \in FromPage : how'[q] = how[q] /\ step'[q] = step[q]
  BY ElsewhereStays
<1>3. Ready' /\ Named' /\ Current'
  BY <1>1 DEF RequestInv, Ready, Named, Current
<1>4. Alone'
  BY <1>1, <1>2 DEF RequestInv, Alone, Starting
<1>5. Sessions' /\ StartedBy'
  BY <1>1, <1>2 DEF PageInv, Sessions, StartedBy
<1>6. Single'
  BY <1>1, <1>2 DEF PageInv, Single, Early
<1> QED BY <1>1, <1>2, <1>3, <1>4, <1>5, <1>6 DEF RequestInv, PageInv

-----------------------------------------------------------------------------
(* And by every step of the server.                                            *)

\* What a page that is posted has passed.
LEMMA PostedFacts ==
    ASSUME Shape, PageInv, NEW p \in Pages, server = "idle", Fresh(p)
    PROVE  /\ pages[p].session = session /\ pages[p].session # 0 /\ p \notin used
           /\ pages[p].base = file.ver
           /\ \A r \in FromPage : how[r].page # p
<1>1. pages[p].session = session /\ p \notin used /\ pages[p].base = file.ver
  BY DEF Fresh, Issued, InForce
<1>2. session # 0
  BY DEF PageInv, Sessions
<1>3. ASSUME NEW r \in FromPage, how[r].page = p PROVE FALSE
  BY <1>1, <1>3 DEF PageInv, StartedBy
<1> QED BY <1>1, <1>2, <1>3

\* The run a page starts is its first, and no other is going on.
LEMMA LaunchFacts ==
    ASSUME Shape, \A q \in Runs : RunInv(q), RequestInv, PageInv, Launch, ~UNCHANGED lives
    PROVE  \E s \in Runs :
              /\ s \notin FromPage /\ FromPage' = FromPage \cup {s} /\ mine' = mine \cup {s}
              /\ \A q \in Runs : q # s => how'[q] = how[q] /\ step'[q] = step[q]
              /\ step[s] = "none" /\ step'[s] = "boot"
              /\ how'[s].page = request.page /\ how'[s].set = pages[request.page].set
              /\ how'[s].dry = (request.action = "dry_run")
              /\ \A q \in FromPage : ~Early(q) /\ how[q].page # request.page
<1> DEFINE what == [from |-> "page", dry |-> request.action = "dry_run",
                    set |-> Argv, page |-> request.page]
<1>1. Start(what) /\ mine' = mine \cup {Lowest(Unstarted)}
  BY DEF Launch
<1>2. request.page \in Pages
  BY DEF Launch, RequestInv, Named
<1>3. Argv \in Values \cup {0} /\ Argv = pages[request.page].set
  BY <1>2 DEF Argv, Shape, ServerTyped, Shown
<1>4. what \in Origins
  BY <1>2, <1>3 DEF Origins, Pages
<1>5. /\ what.from = "page" /\ what.page = request.page /\ what.set = pages[request.page].set
      /\ what.dry = (request.action = "dry_run")
  BY <1>3
<1> HIDE DEF what
<1>6. PICK s \in Runs : /\ s = Lowest(Unstarted) /\ step[s] = "none"
                        /\ step' = [step EXCEPT ![s] = "boot"]
                        /\ how' = [how EXCEPT ![s] = what]
  BY <1>1, <1>4, StartFacts
<1>7. step \in [Runs -> Steps] /\ how \in [Runs -> Origins]
  BY DEF Shape, RunsTyped
<1>8. /\ \A q \in Runs : q # s => how'[q] = how[q] /\ step'[q] = step[q]
      /\ step'[s] = "boot" /\ how'[s] = what
  BY <1>6, <1>7
<1>9. s \notin FromPage
  <2>1. Origin(s)
    BY DEF RunInv
  <2> QED BY <1>6, <2>1 DEF Origin, FromPage
<1>10. FromPage' = FromPage \cup {s}
  BY <1>5, <1>8 DEF FromPage
<1>11. OwnRuns = {} /\ \A r \in FromPage : how[r].page # request.page
  BY DEF RequestInv, Alone, Starting, Launch
<1>12. ASSUME NEW q \in FromPage, Early(q) PROVE FALSE
  <2>1. q \in Runs
    BY DEF FromPage
  <2>2. result[q] = "none"
    BY <1>12, <2>1 DEF RunInv, Tells
  <2>3. q \in OwnRuns
    BY <1>12, <2>2 DEF OwnRuns, Alive, Early
  <2> QED BY <1>11, <2>3
<1> QED BY <1>1, <1>5, <1>6, <1>8, <1>9, <1>10, <1>11, <1>12

\* With the runs left alone, so is what the server can tell of them.
LEMMA QuietFacts ==
    ASSUME UNCHANGED lives
    PROVE  /\ FromPage' = FromPage /\ how' = how
           /\ \A r \in Runs : Early(r)' <=> Early(r)
           /\ mine' = mine => OwnRuns' = OwnRuns
BY DEF lives, FromPage, Early, OwnRuns, Alive

\* A request goes on to its next step only with what that step relies on.
LEMMA ServeKeepsRequest ==
    ASSUME Shape, \A q \in Runs : RunInv(q), RequestInv, PageInv, Serve
    PROVE  RequestInv'
<1> USE DEF Named, Current, Alone, Starting
<1>i. Ready /\ Named /\ Current /\ Alone
  BY DEF RequestInv
<1> SUFFICES Ready' /\ Named' /\ Current' /\ Alone'
  BY DEF RequestInv
<1>1. CASE server' \in {"down", "idle"}
  BY <1>1 DEF Ready
<1>2. CASE Render
  BY <1>2 DEF Render, Ready
<1>3. CASE Attend /\ server' # "idle"
  <2>1. /\ server = "checking" /\ server' \in {"save", "launch"}
        /\ UNCHANGED <<lives, request, file, session, mine, pages>>
        /\ used' = used \cup {request.page}
    BY <1>3 DEF Attend
  <2>2. FromPage' = FromPage /\ how' = how /\ OwnRuns' = OwnRuns
    BY <2>1, QuietFacts
  <2>3. Ready'
    BY <2>1 DEF Ready
  <2>4. Named' /\ Current'
    BY <1>i, <2>1
  <2>5. Alone'
    BY <1>i, <2>1, <2>2
  <2> QED BY <2>3, <2>4, <2>5
<1>4. CASE \E w \in BOOLEAN : Save(w) /\ server' # "idle"
  <2>1. /\ server = "save" /\ server' = "launch" /\ request.action = "trade"
        /\ UNCHANGED <<lives, request, session, mine, used, pages>>
    BY <1>4 DEF Save, memory
  <2>2. FromPage' = FromPage /\ how' = how /\ OwnRuns' = OwnRuns
    BY <2>1, QuietFacts
  <2>3. Ready'
    BY <2>1 DEF Ready
  <2>4. Named' /\ Current'
    BY <1>i, <2>1
  <2>5. Alone'
    BY <1>i, <2>1, <2>2
  <2> QED BY <2>3, <2>4, <2>5
<1>5. CASE \E p \in Pages : PostSave(p) \/ PostDryRun(p) \/ \E ack \in BOOLEAN : PostTrade(p, ack)
  <2>1. PICK p \in Pages : PostSave(p) \/ PostDryRun(p) \/ \E ack \in BOOLEAN : PostTrade(p, ack)
    BY <1>5
  <2>2. server = "idle" /\ Fresh(p)
    BY <2>1 DEF PostSave, PostDryRun, PostTrade
  <2>3. /\ pages[p].session = session /\ pages[p].base = file.ver
        /\ \A r \in FromPage : how[r].page # p
    BY <2>2, PostedFacts
  <2>4. /\ request'.page = p /\ UNCHANGED <<lives, file, session, mine, pages>>
        /\ \/ server' = "save" /\ request'.action = "save" /\ p \in used'
           \/ server' = "launch" /\ request'.action = "dry_run" /\ p \in used' /\ OwnRuns = {}
           \/ server' = "checking" /\ request'.action = "trade" /\ OwnRuns = {}
    BY <2>1 DEF PostSave, PostDryRun, PostTrade, Asked, memory
  <2>5. FromPage' = FromPage /\ how' = how /\ OwnRuns' = OwnRuns
    BY <2>4, QuietFacts
  <2>6. Ready'
    BY <2>4 DEF Ready
  <2>7. Named'
    BY <2>3, <2>4
  <2>8. Current'
    BY <2>3, <2>4
  <2>9. Alone'
    BY <2>3, <2>4, <2>5
  <2> QED BY <2>6, <2>7, <2>8, <2>9
<1>6. \/ server' \in {"down", "idle"} \/ Render \/ (Attend /\ server' # "idle")
      \/ \E w \in BOOLEAN : Save(w) /\ server' # "idle"
      \/ \E p \in Pages : PostSave(p) \/ PostDryRun(p) \/ \E ack \in BOOLEAN : PostTrade(p, ack)
  BY DEF Serve, ServerStarts, ServerStops, Launch, Rendered
<1> QED BY <1>1, <1>2, <1>3, <1>4, <1>5, <1>6

\* A page is shown, used, saved or started from by one request at a time.
LEMMA ServeKeepsPages ==
    ASSUME Shape, \A q \in Runs : RunInv(q), RequestInv, PageInv, Serve
    PROVE  PageInv'
<1>i. Sessions /\ StartedBy /\ Single /\ mine \subseteq FromPage
  BY DEF PageInv
<1>t. session \in Nat /\ file.ver \in Nat /\ pages \in [Pages -> Shown]
  BY LiveRunsAssumption DEF Shape, ServerTyped
<1>s. \A p \in Pages : pages[p].session \in Nat
  BY <1>t, LiveRunsAssumption DEF Shown
<1>q. UNCHANGED lives => FromPage' = FromPage /\ how' = how /\ Single'
  <2> SUFFICES ASSUME UNCHANGED lives PROVE FromPage' = FromPage /\ how' = how /\ Single'
    OBVIOUS
  <2>1. FromPage' = FromPage /\ how' = how /\ \A r \in Runs : Early(r)' <=> Early(r)
    BY QuietFacts
  <2> QED BY <1>i, <2>1 DEF Single, FromPage
<1> SUFFICES Sessions' /\ StartedBy' /\ Single' /\ mine' \subseteq FromPage'
  BY DEF PageInv
<1>1. CASE ServerStarts
  <2>1. session' = session + 1 /\ UNCHANGED <<lives, file, mine, used, pages>>
    BY <1>1 DEF ServerStarts
  <2>2. Sessions'
    <3>1. session' # 0
      BY <1>t, <2>1
    <3>2. \A p \in Pages : pages'[p].session <= session' /\ pages'[p].session # session'
      BY <1>i, <1>s, <1>t, <2>1 DEF Sessions
    <3> QED BY <1>i, <2>1, <3>1, <3>2 DEF Sessions
  <2>3. StartedBy'
    <3>1. \A p \in Pages : pages[p].session # session'
      BY <1>i, <1>s, <1>t, <2>1 DEF Sessions
    <3> QED BY <1>i, <1>q, <2>1, <3>1 DEF StartedBy
  <2> QED BY <1>i, <1>q, <2>1, <2>2, <2>3
<1>2. CASE ServerStops
  <2>1. server' = "down" /\ mine' = {} /\ UNCHANGED <<lives, file, session, pages>>
    BY <1>2 DEF ServerStops
  <2>2. Sessions' /\ StartedBy'
    BY <1>i, <1>q, <2>1 DEF Sessions, StartedBy
  <2> QED BY <1>q, <2>1, <2>2
<1>3. CASE /\ server # "down" /\ server' # "down" /\ used \subseteq used'
           /\ UNCHANGED <<lives, file, session, mine, pages>>
  <2>1. Sessions'
    BY <1>i, <1>3 DEF Sessions
  <2>2. StartedBy'
    BY <1>i, <1>q, <1>3 DEF StartedBy
  <2> QED BY <1>i, <1>q, <1>3, <2>1, <2>2
<1>4. CASE \E v \in Values : Rendered(v)
  <2>1. PICK v \in Values : Rendered(v)
    BY <1>4
  <2>2. PICK p \in Pages, w \in 0 .. MaxRuns :
          /\ pages[p] = NoPage
          /\ pages' = [pages EXCEPT ![p] =
                          [session |-> session, set |-> v, base |-> file.ver, warned |-> w]]
    BY <2>1, RenderedFacts
  <2>3. server # "down" /\ UNCHANGED <<lives, file, session, mine, used>>
    BY <2>1 DEF Rendered, memory
  <2>4. /\ pages'[p].session = session /\ pages'[p].set = v
        /\ \A q \in Pages : q # p => pages'[q] = pages[q]
    BY <1>t, <2>2
  <2>5. session # 0 /\ pages[p].session = 0
    BY <1>i, <2>2, <2>3 DEF Sessions, NoPage
  <2>6. Sessions'
    <3>1. \A q \in Pages : /\ pages'[q].session <= session'
                           /\ pages'[q].session = 0 => pages'[q] = NoPage
                           /\ pages'[q].session # 0 => pages'[q].set \in Values
      BY <1>i, <1>t, <2>3, <2>4, <2>5 DEF Sessions
    <3>2. ASSUME NEW u \in 0 .. file.ver - 1
          PROVE  \E q \in Pages : pages'[q].session # 0 /\ pages'[q].base = u
      <4>1. PICK q \in Pages : pages[q].session # 0 /\ pages[q].base = u
        BY <1>i DEF Sessions
      <4> QED BY <2>4, <2>5, <4>1
    <3> QED BY <2>3, <2>5, <3>1, <3>2 DEF Sessions
  <2>7. StartedBy'
    <3>1. \A r \in FromPage : how[r].page # p
      BY <1>i, <2>5 DEF StartedBy
    <3> QED BY <1>i, <1>q, <2>3, <2>4, <3>1 DEF StartedBy
  <2> QED BY <1>i, <1>q, <2>3, <2>6, <2>7
<1>5. CASE \E w \in BOOLEAN : Save(w)
  <2>1. PICK w \in BOOLEAN : Save(w)
    BY <1>5
  <2>2. /\ server = "save" /\ server' # "down" /\ UNCHANGED <<lives, session, mine, used, pages>>
        /\ file' = file \/ file'.ver = file.ver + 1
    BY <2>1 DEF Save, memory
  <2>3. /\ request.page \in Pages /\ pages[request.page].session # 0
        /\ pages[request.page].base = file.ver
    BY <1>i, <2>2 DEF RequestInv, Named, Current, Sessions
  <2>4. Sessions'
    <3>1. ASSUME NEW u \in 0 .. file'.ver - 1
          PROVE  \E q \in Pages : pages[q].session # 0 /\ pages[q].base = u
      <4>1. u \in 0 .. file.ver - 1 \/ u = file.ver
        BY <1>t, <2>2
      <4> QED BY <1>i, <2>3, <4>1 DEF Sessions
    <3> QED BY <1>i, <2>2, <3>1 DEF Sessions
  <2>5. StartedBy'
    BY <1>i, <1>q, <2>2 DEF StartedBy
  <2> QED BY <1>i, <1>q, <2>2, <2>4, <2>5
<1>6. CASE Launch /\ ~UNCHANGED lives
  <2>1. /\ server = "launch" /\ server' # "down" /\ UNCHANGED <<file, session, used, pages>>
    BY <1>6 DEF Launch
  <2>2. PICK s \in Runs :
              /\ s \notin FromPage /\ FromPage' = FromPage \cup {s} /\ mine' = mine \cup {s}
              /\ \A q \in Runs : q # s => how'[q] = how[q] /\ step'[q] = step[q]
              /\ how'[s].page = request.page /\ how'[s].set = pages[request.page].set
              /\ \A q \in FromPage : ~Early(q) /\ how[q].page # request.page
    BY <1>6, LaunchFacts
  <2>3. FromPage \subseteq Runs
    BY DEF FromPage
  <2>4. Sessions'
    BY <1>i, <2>1 DEF Sessions
  <2>5. StartedBy'
    <3>1. /\ request.page \in Pages /\ pages[request.page].session # 0 /\ request.page \in used
      BY <1>i, <2>1 DEF RequestInv, Named, Current, Sessions
    <3> QED BY <1>i, <2>1, <2>2, <2>3, <3>1 DEF StartedBy
  <2>6. Single'
    <3>1. \A q \in FromPage : ~Early(q)' /\ how'[q] = how[q] /\ q # s
      BY <2>2, <2>3 DEF Early
    <3> QED BY <1>i, <2>2, <3>1 DEF Single
  <2>7. mine' \subseteq FromPage'
    BY <1>i, <2>2
  <2> QED BY <2>4, <2>5, <2>6, <2>7
<1>7. CASE Launch /\ UNCHANGED lives
  <2>1. UNCHANGED mine
    <3>1. CASE Start([from |-> "page", dry |-> request.action = "dry_run",
                      set |-> Argv, page |-> request.page])
      <4>1. Unstarted # {} /\ Unstarted \in SUBSET Nat
        BY <3>1, LiveRunsAssumption DEF Start, Unstarted, Runs
      <4>2. Lowest(Unstarted) \in Unstarted
        BY <4>1, LowestIn
      <4>3. step'[Lowest(Unstarted)] = "boot" /\ step[Lowest(Unstarted)] = "none"
        BY <3>1, <4>2 DEF Start, Unstarted, Shape, RunsTyped
      <4> QED BY <1>7, <4>3 DEF lives
    <3> QED BY <1>7, <3>1 DEF Launch
  <2> QED BY <1>3, <1>7, <2>1 DEF Launch
<1>8. CASE Render \/ Attend
  BY <1>3, <1>8 DEF Render, Attend, memory
<1>9. CASE \E p \in Pages : PostSave(p) \/ PostDryRun(p) \/ \E ack \in BOOLEAN : PostTrade(p, ack)
  BY <1>3, <1>9 DEF PostSave, PostDryRun, PostTrade, memory
<1> QED BY <1>1, <1>2, <1>4, <1>5, <1>6, <1>7, <1>8, <1>9 DEF Serve

-----------------------------------------------------------------------------
(* The warning.                                                                *)

\* With none of the page's runs going on, what the last one left for a person is
\* told, whatever the server remembers of it.
LEMMA LeftIsTold ==
    ASSUME Shape, \A r \in Runs : RunInv(r), OwnRuns = {}, NEW q \in Runs, LeftByLast(q)
    PROVE  Attention # 0
<1> DEFINE newest == {r \in Telling : \A t \in Telling : ended[t] <= ended[r]}
<1>1. /\ q \in FromPage /\ Trader(q) /\ truth[q] = "attention"
      /\ \A p \in Runs : Trader(p) => ended[p] <= ended[q]
  BY DEF LeftByLast
<1>2. result[q] \in {"none", "attention"}
  BY <1>1 DEF RunInv, Tells
<1>3. Verdict(q) = "attention"
  BY <1>1, <1>2 DEF Verdict, FolderVerdict
<1>4. q \in Telling
  BY <1>3 DEF Telling
<1>5. ASSUME NEW t \in Telling PROVE ended[t] <= ended[q]
  <2>1. t \in Runs /\ Verdict(t) \in {"clean", "attention"}
    BY DEF Telling
  <2>2. Origin(t)
    BY <2>1 DEF RunInv
  <2>3. CASE t \in FromPage
    BY <1>1, <2>1, <2>3 DEF Verdict, FolderVerdict
  <2>4. CASE t \notin FromPage
    <3>1. t \in known
      BY <2>1, <2>4 DEF Verdict, RecordVerdict
    <3>2. Trader(t)
      BY <2>2, <3>1 DEF Origin, Trader
    <3> QED BY <1>1, <2>1, <3>2
  <2> QED BY <2>3, <2>4
<1>6. q \in newest
  BY <1>4, <1>5
<1>7. newest \subseteq Runs
  BY DEF Telling
<1>8. Attention = CHOOSE r \in newest : TRUE
  <2>1. \E r \in newest : Verdict(r) = "attention"
    BY <1>3, <1>6
  <2> QED BY <2>1 DEF Attention
<1>9. Attention \in Runs
  <2> HIDE DEF newest
  <2> QED BY <1>6, <1>7, <1>8
<1> QED BY <1>9, LiveRunsAssumption DEF Runs

\* Nothing new is left while a request may start a run: a run's step takes no
\* page's run from trading then, and places only grow.
LEMMA StepLeavesNothing ==
    ASSUME Shape, \A q \in Runs : RunInv(q), OwnRuns = {}, NEW r \in Runs, RunStep(r),
           NEW q \in Runs, LeftByLast(q)'
    PROVE  LeftByLast(q)
<1>1. /\ FromPage' = FromPage /\ how' = how
      /\ \A p \in Runs : Trader(p)' <=> Trader(p)
  BY StepShrinks, OthersStay
<1>2. /\ q \in FromPage /\ Trader(q) /\ truth'[q] = "attention"
      /\ \A p \in Runs : Trader(p) => ended'[p] <= ended'[q]
  BY <1>1 DEF LeftByLast
<1>t. truth \in [Runs -> Outcomes] /\ ended \in [Runs -> 0 .. MaxRuns]
  BY DEF Shape, RunsTyped
<1>3. ~Early(q)
  <2>1. SUFFICES ASSUME Early(q) PROVE FALSE
    OBVIOUS
  <2>2. result[q] = "none"
    BY <2>1 DEF RunInv, Tells
  <2>3. q \in OwnRuns
    BY <1>2, <2>1, <2>2 DEF OwnRuns, Alive, Early
  <2> QED BY <2>3
<1>4. truth[q] = "attention"
  <2>1. CASE q # r
    BY <1>2, <2>1, OthersStay
  <2>2. CASE q = r
    <3>1. truth'[r] = truth[r]
      BY <1>3, <1>t, <2>2 DEF RunStep, Acquire, Release, Kill, SchedulerRecords,
                              TradingEnds, Report, Early
    <3> QED BY <1>2, <2>2, <3>1
  <2> QED BY <2>1, <2>2
<1>5. \A p \in Runs : ended[p] # 0 => ended'[p] = ended[p]
  <2>1. SUFFICES ASSUME ended[r] # 0 PROVE ended'[r] = ended[r]
    BY OthersStay
  <2>2. ended' = ended \/ EndsNow(r)
    BY DEF RunStep, Acquire, Release, Kill, SchedulerRecords, TradingEnds, Report
  <2> QED BY <2>1, <2>2, EndsShape
<1>6. ended'[q] = ended[q] /\ ended[q] \in Nat
  <2>1. ended[q] # 0
    BY <1>4 DEF RunInv, Tells
  <2> QED BY <1>5, <1>t, <2>1, LiveRunsAssumption
<1>7. \A p \in Runs : Trader(p) => ended[p] <= ended[q]
  <2> SUFFICES ASSUME NEW p \in Runs, Trader(p) PROVE ended[p] <= ended[q]
    OBVIOUS
  <2>1. CASE ended[p] = 0
    BY <1>6, <2>1
  <2>2. CASE ended[p] # 0
    BY <1>2, <1>5, <1>6, <2>2
  <2> QED BY <2>1, <2>2
<1> QED BY <1>2, <1>4, <1>7 DEF LeftByLast

\* A person was asked at the check, and nothing is left between it and the start.
LEMMA WarnKept ==
    ASSUME LiveIInv, Next
    PROVE  WarnInv'
<1>i. Shape /\ (\A r \in Runs : RunInv(r)) /\ RequestInv /\ PageInv /\ WarnInv
  BY DEF LiveIInv
<1>a. server \in {"save", "launch"} /\ request.action = "trade" => OwnRuns = {}
  BY <1>i DEF RequestInv, Alone, Starting
<1>q. UNCHANGED lives => \A q \in Runs : LeftByLast(q)' <=> LeftByLast(q)
  BY DEF lives, LeftByLast, FromPage, Trader
<1> SUFFICES ASSUME server' \in {"save", "launch"}, request'.action = "trade", ~request'.ack,
                    NEW q \in Runs, LeftByLast(q)'
             PROVE  FALSE
  BY DEF WarnInv
<1>1. CASE \E r \in Runs : RunStep(r)
  <2>1. PICK r \in Runs : RunStep(r)
    BY <1>1
  <2>2. UNCHANGED <<server, request>>
    BY <1>i, <2>1, OthersStay
  <2>3. LeftByLast(q)
    BY <1>a, <1>i, <2>1, <2>2, StepLeavesNothing
  <2> QED BY <1>i, <2>2, <2>3 DEF WarnInv
<1>2. CASE StartElsewhere
  <2>1. UNCHANGED <<server, request>>
    BY <1>2 DEF StartElsewhere
  <2>2. /\ FromPage' = FromPage /\ UNCHANGED <<truth, ended>>
        /\ \A p \in FromPage : how'[p] = how[p]
        /\ \A p \in Runs : Trader(p) => Trader(p)'
    BY <1>i, <1>2, ElsewhereStays DEF StartElsewhere, Start
  <2>3. LeftByLast(q)
    BY <2>2 DEF LeftByLast, Trader
  <2> QED BY <1>i, <2>1, <2>3 DEF WarnInv
<1>3. CASE Attend
  <2>1. /\ server = "checking" /\ UNCHANGED lives /\ UNCHANGED request
        /\ Attention = 0 \/ request.ack
    BY <1>3 DEF Attend
  <2>2. OwnRuns = {}
    BY <1>i, <2>1 DEF RequestInv, Alone, Starting
  <2>3. LeftByLast(q)
    BY <1>q, <2>1
  <2>4. Attention # 0
    BY <1>i, <2>2, <2>3, LeftIsTold
  <2> QED BY <2>1, <2>4
<1>4. CASE \E w \in BOOLEAN : Save(w)
  <2>1. server = "save" /\ UNCHANGED lives /\ UNCHANGED request
    BY <1>4 DEF Save
  <2> QED BY <1>i, <1>q, <2>1 DEF WarnInv
<1>5. CASE \E p \in Pages : PostSave(p) \/ PostDryRun(p) \/ \E ack \in BOOLEAN : PostTrade(p, ack)
  BY <1>5 DEF PostSave, PostDryRun, PostTrade, Asked
<1>6. CASE ServerStarts \/ ServerStops \/ Render \/ Launch \/ \E v \in Values : Rendered(v)
  BY <1>6 DEF ServerStarts, ServerStops, Render, Launch, Rendered
<1> QED BY <1>1, <1>2, <1>3, <1>4, <1>5, <1>6 DEF Next, Serve

-----------------------------------------------------------------------------
(* The invariant and what follows from it.                                     *)

\* Every step keeps the invariant.
LEMMA NextInv == LiveIInv /\ [Next]_vars => LiveIInv'
<1> SUFFICES ASSUME LiveIInv, [Next]_vars PROVE LiveIInv'
  OBVIOUS
<1>i. Shape /\ (\A r \in Runs : RunInv(r)) /\ RequestInv /\ PageInv /\ WarnInv
  BY DEF LiveIInv
<1>1. CASE Serve
  <2>1. Shape' /\ RequestInv' /\ PageInv'
    BY <1>i, <1>1, ServeShape, ServeKeepsRequest, ServeKeepsPages
  <2>2. \A r \in Runs : RunInv(r)'
    <3>1. CASE UNCHANGED lives
      BY <1>i, <3>1, RunsStay
    <3>2. CASE Launch /\ ~UNCHANGED lives
      <4> DEFINE what == [from |-> "page", dry |-> request.action = "dry_run",
                          set |-> Argv, page |-> request.page]
      <4>1. Start(what)
        BY <3>2 DEF Launch
      <4>2. request.page \in Pages /\ Argv \in Values \cup {0}
        BY <1>i, <3>2 DEF Launch, RequestInv, Named, Argv, Shape, ServerTyped, Shown
      <4>3. what \in Origins
        BY <4>2 DEF Origins, Pages
      <4>4. what.from = "page"
        OBVIOUS
      <4> HIDE DEF what
      <4> QED BY <1>i, <4>1, <4>3, <4>4, StartKeepsRuns
    <3>3. Launch \/ UNCHANGED lives
      BY <1>1 DEF Serve, ServerStarts, ServerStops, Render, Attend, Rendered, Save,
                  PostSave, PostDryRun, PostTrade
    <3> QED BY <3>1, <3>2, <3>3
  <2>3. WarnInv'
    BY <1>1, WarnKept DEF Next
  <2> QED BY <2>1, <2>2, <2>3 DEF LiveIInv
<1>2. CASE StartElsewhere
  <2>1. Shape' /\ RequestInv' /\ PageInv'
    BY <1>i, <1>2, ElsewhereShape, ElsewhereKeepsServer
  <2>2. \A r \in Runs : RunInv(r)'
    <3> DEFINE what == [from |-> "elsewhere", dry |-> FALSE, set |-> file.val, page |-> 0]
    <3>1. what \in Origins
      BY <1>i, LiveRunsAssumption DEF Origins, Shape, ServerTyped
    <3>2. Start(what)
      BY <1>2 DEF StartElsewhere
    <3>3. what.from = "elsewhere" /\ ~what.dry
      OBVIOUS
    <3> HIDE DEF what
    <3> QED BY <1>i, <3>1, <3>2, <3>3, StartKeepsRuns
  <2>3. WarnInv'
    BY <1>2, WarnKept DEF Next
  <2> QED BY <2>1, <2>2, <2>3 DEF LiveIInv
<1>3. CASE \E r \in Runs : RunStep(r)
  <2>1. PICK r \in Runs : RunStep(r)
    BY <1>3
  <2>2. Shape' /\ RequestInv' /\ PageInv'
    BY <1>i, <2>1, RunShape, RunStepKeepsServer
  <2>3. \A q \in Runs : RunInv(q)'
    BY <1>i, <2>1, RunStepKeepsRuns
  <2>4. WarnInv'
    BY <1>3, WarnKept DEF Next
  <2> QED BY <2>2, <2>3, <2>4 DEF LiveIInv
<1>4. CASE UNCHANGED vars
  <2>1. UNCHANGED <<step, how, tries, lock, truth, result, ended, known, file, server,
                    request, shared, session, mine, used, pages>>
    BY <1>4 DEF vars, lives, memory
  <2>2. Shape'
    BY <1>i, <2>1 DEF Shape, RunsTyped, ServerTyped
  <2>3. UNCHANGED lives
    BY <1>4 DEF vars
  <2>4. \A r \in Runs : RunInv(r)'
    BY <1>i, <2>3, RunsStay
  <2>5. FromPage' = FromPage /\ OwnRuns' = OwnRuns /\ \A r \in Runs : Early(r)' <=> Early(r)
    BY <2>1, <2>3, QuietFacts
  <2>6. RequestInv'
    BY <1>i, <2>1, <2>5 DEF RequestInv, Ready, Named, Current, Alone, Starting
  <2>7. Sessions' /\ StartedBy'
    BY <1>i, <2>1, <2>5 DEF PageInv, Sessions, StartedBy
  <2>8. Single'
    BY <1>i, <2>1, <2>5 DEF PageInv, Single, FromPage
  <2>9. WarnInv'
    BY <1>i, <2>1 DEF WarnInv, LeftByLast, FromPage, Trader
  <2> QED BY <1>i, <2>1, <2>2, <2>4, <2>5, <2>6, <2>7, <2>8, <2>9 DEF LiveIInv, PageInv
<1> QED BY <1>1, <1>2, <1>3, <1>4 DEF Next

\* So it holds always.
LEMMA LiveIInvHolds == Spec => []LiveIInv
BY InitInv, NextInv, PTL DEF Spec

\* Every version of the defaults was made by a page of its own: no more versions
\* than pages.
LEMMA VersionsArePages == ASSUME Shape, PageInv PROVE file.ver \in 0 .. MaxPages
<1> DEFINE Before == 0 .. file.ver - 1
           Maker == [v \in Before |-> CHOOSE p \in Pages : pages[p].session # 0 /\ pages[p].base = v]
<1>1. file.ver \in Nat /\ MaxPages \in Nat
  BY LiveRunsAssumption DEF Shape, ServerTyped
<1>2. \A v \in Before : Maker[v] \in Pages /\ pages[Maker[v]].base = v
  BY DEF PageInv, Sessions
<1>3. Maker \in [Before -> Pages]
  BY <1>2
<1>4. IsFiniteSet(Before) /\ Cardinality(Before) = file.ver
  <2>1. file.ver - 1 \in Int /\ 0 \in Int
    BY <1>1
  <2>2. IsFiniteSet(Before)
    BY <2>1, FS_Interval
  <2>3. Cardinality(Before) = IF 0 > file.ver - 1 THEN 0 ELSE file.ver - 1 - 0 + 1
    BY <2>1, FS_Interval
  <2>4. (IF 0 > file.ver - 1 THEN 0 ELSE file.ver - 1 - 0 + 1) = file.ver
    BY <1>1
  <2> QED BY <2>2, <2>3, <2>4
<1>5. ASSUME MaxPages < file.ver PROVE FALSE
  <2>1. Cardinality(Pages) < Cardinality(Before)
    BY <1>4, <1>5, PagesAreFinite
  <2> HIDE DEF Before, Maker
  <2>2. \E x, y \in Before : x # y /\ Maker[x] = Maker[y]
    BY <1>3, <1>4, <2>1, PagesAreFinite, FS_PigeonHole
  <2> QED BY <1>2, <2>2
<1> QED BY <1>1, <1>5

\* Two real-money runs never trade at the same time, whoever started them, and
\* none trades before the last one's result is written (run_lock, main): each of
\* them would hold the one lock.
THEOREM OneTraderAlways == Spec => []OneTrader
<1>1. LiveIInv => OneTrader
  <2> SUFFICES ASSUME LiveIInv PROVE OneTrader
    OBVIOUS
  <2> DEFINE Trading == {r \in Runs : Trader(r) /\ truth[r] # "no order"
                                     /\ step[r] \in {"trade", "report"}}
  <2>1. \A r \in Trading : lock = r
    BY DEF LiveIInv, RunInv, Holds
  <2>2. Trading \in SUBSET Runs /\ \A x, y \in Trading : x = y
    BY <2>1
  <2>3. Cardinality(Trading) <= 1
    <3> HIDE DEF Trading
    <3> QED BY <2>2, AtMostOne
  <2> QED BY <2>3 DEF OneTrader
<1> QED BY <1>1, LiveIInvHolds, PTL

\* A run started from a page trades the settings that page showed (_start_run):
\* a page that started a run is never rendered again.
THEOREM ShownIsTraded == Spec => []TradesWhatWasShown
<1>1. LiveIInv => TradesWhatWasShown
  BY DEF LiveIInv, PageInv, StartedBy, TradesWhatWasShown
<1> QED BY <1>1, LiveIInvHolds, PTL

\* The server starts no run beside its own last one, nor two from one page, also
\* across its restarts (_own_run, _used); and the state keeps its type.
THEOREM PageRunsStaySingle == Spec => []PageRunsAreSingle
<1>1. LiveIInv => PageRunsAreSingle
  <2> SUFFICES ASSUME LiveIInv PROVE PageRunsAreSingle
    OBVIOUS
  <2>i. Shape /\ (\A r \in Runs : RunInv(r)) /\ PageInv
    BY DEF LiveIInv
  <2>1. TypeOK
    <3>1. file.ver \in 0 .. MaxPages /\ file.val \in Values
      BY <2>i, VersionsArePages DEF Shape, ServerTyped
    <3>2. tries \in [Runs -> 0 .. Attempts]
      <4>1. \A r \in Runs : tries[r] \in Nat /\ tries[r] <= Attempts
        BY <2>i DEF Shape, RunsTyped, RunInv, Waits
      <4> QED BY <2>i, <4>1, LiveRunsAssumption DEF Shape, RunsTyped
    <3>3. \A r \in Runs : how[r].from \in {"none", "page", "elsewhere"} /\ how[r].page \in 0 .. MaxPages
      BY <2>i DEF Shape, RunsTyped, Origins
    <3> QED BY <2>i, <3>1, <3>2, <3>3 DEF TypeOK, Shape, RunsTyped, ServerTyped, PageInv
  <2>2. OneOwnRun
    <3> DEFINE Going == {r \in FromPage : step[r] \in {"boot", "trade", "report"}}
    <3>1. Going \in SUBSET Runs /\ \A x, y \in Going : x = y
      BY <2>i DEF PageInv, Single, Early, FromPage
    <3>2. Cardinality(Going) <= 1
      <4> HIDE DEF Going
      <4> QED BY <3>1, AtMostOne
    <3> QED BY <3>2 DEF OneOwnRun
  <2>3. OneRunPerPage
    <3> SUFFICES ASSUME NEW p \in Pages PROVE Cardinality({r \in FromPage : how[r].page = p}) <= 1
      BY DEF OneRunPerPage
    <3> DEFINE Its == {r \in FromPage : how[r].page = p}
    <3>1. Its \in SUBSET Runs /\ \A x, y \in Its : x = y
      BY <2>i DEF PageInv, Single, FromPage
    <3> HIDE DEF Its
    <3>2. Cardinality(Its) <= 1
      BY <3>1, AtMostOne
    <3> QED BY <3>2 DEF Its
  <2> QED BY <2>1, <2>2, <2>3 DEF PageRunsAreSingle
<1> QED BY <1>1, LiveIInvHolds, PTL

\* A save never replaces defaults its page did not show.
LEMMA SaveSeesCurrent ==
    ASSUME LiveIInv, [Next]_vars, file' # file
    PROVE  pages[request.page].base = file.ver
<1>1. PICK w \in BOOLEAN : Save(w)
  <2>1. \A r \in Runs : RunStep(r) => file' = file
    BY OthersStay DEF LiveIInv
  <2>2. Serve
    BY <2>1 DEF Next, StartElsewhere, vars
  <2> QED BY <2>2 DEF Serve, ServerStarts, ServerStops, Render, Attend, Launch, Rendered,
                      PostSave, PostDryRun, PostTrade
<1>2. server = "save"
  BY <1>1 DEF Save
<1> QED BY <1>2 DEF LiveIInv, RequestInv, Current

\* A page starts a real-money run after one that left something for a person only
\* when the box was ticked.
LEMMA LaunchWasTicked ==
    ASSUME LiveIInv, [Next]_vars, NEW r \in Runs, NEW q \in Runs, Launches(r), LeftByLast(q)
    PROVE  request.ack
<1>i. Shape /\ (\A p \in Runs : RunInv(p)) /\ RequestInv /\ PageInv /\ WarnInv
  BY DEF LiveIInv
<1>0. step[r] = "none" /\ step'[r] = "boot" /\ how'[r].from = "page" /\ ~how'[r].dry
  BY DEF Launches
<1>1. ~\E s \in Runs : RunStep(s)
  <2> SUFFICES ASSUME NEW s \in Runs, RunStep(s) PROVE FALSE
    OBVIOUS
  <2>1. how' = how
    BY <1>i, OthersStay
  <2>2. Origin(r)
    BY <1>i DEF RunInv
  <2> QED BY <1>0, <2>1, <2>2 DEF Origin
<1>2. ~StartElsewhere
  <2> SUFFICES ASSUME StartElsewhere PROVE FALSE
    OBVIOUS
  <2>1. r \in FromPage'
    BY <1>0 DEF FromPage
  <2>2. r \in FromPage /\ step'[r] = step[r]
    BY <1>i, <2>1, ElsewhereStays
  <2> QED BY <1>0, <2>2
<1>3. ~UNCHANGED lives
  BY <1>0 DEF lives
<1>4. Launch
  BY <1>1, <1>2, <1>3 DEF Next, vars, Serve, ServerStarts, ServerStops, Render, Attend, Rendered,
                          Save, PostSave, PostDryRun, PostTrade
<1>5. PICK s \in Runs : /\ \A p \in Runs : p # s => step'[p] = step[p]
                        /\ how'[s].dry = (request.action = "dry_run")
  BY <1>i, <1>3, <1>4, LaunchFacts
<1>6. server = "launch" /\ request.action \in {"dry_run", "trade"}
  BY <1>4, <1>i DEF Launch, RequestInv, Named
<1>7. request.action = "trade"
  BY <1>0, <1>5, <1>6
<1> QED BY <1>i, <1>6, <1>7 DEF WarnInv

\* A save never replaces defaults its page did not show (_fingerprint), and after a
\* page's run that left something for a person no page starts the next one
\* unticked (_attention), through kills, lost results and restarts.
THEOREM PagesActSeen == Spec => PagesActOnWhatTheySaw
<1>1. LiveIInv /\ [Next]_vars => [file' # file => pages[request.page].base = file.ver]_vars
  BY SaveSeesCurrent
<1>2. LiveIInv /\ [Next]_vars
       => [\A r, q \in Runs : Launches(r) /\ LeftByLast(q) => request.ack]_vars
  BY LaunchWasTicked
<1> QED BY <1>1, <1>2, LiveIInvHolds, PTL DEF Spec, PagesActOnWhatTheySaw, NoLostSave, NoUntickedRun
=============================================================================
