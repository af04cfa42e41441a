------------------------------ MODULE LiveRuns ------------------------------
(***************************************************************************)
(* Who may trade, and when: main.py's processes, the machine-wide lock a    *)
(* real-money run holds (run_lock.py), and one checkout's defaults server   *)
(* (defaults_server.py), whose pages save the live defaults and start runs. *)
(*                                                                          *)
(* The server answers one request at a time but can be stopped and started  *)
(* again at any moment; what it keeps in memory is lost then, while the     *)
(* runs it started go on in processes of their own.  Other real-money runs  *)
(* (the scheduler's, or one started by hand or from another checkout) start *)
(* whenever they like.  Requests that are refused change nothing and have   *)
(* no action here.                                                          *)
(***************************************************************************)
EXTENDS Integers, FiniteSets

CONSTANTS
    MaxRuns,     \* bound: processes of main.py
    MaxPages,    \* bound: pages rendered
    MaxSessions, \* bound: times the server is started
    MaxKills,    \* bound: runs killed
    Values,      \* what the live settings may be
    Attempts     \* tries run_lock.acquire makes before it gives up

Runs  == 1 .. MaxRuns
Pages == 1 .. MaxPages

ASSUME LiveRunsAssumption ==
    /\ MaxRuns \in Nat /\ MaxPages \in Nat /\ MaxSessions \in Nat
    /\ MaxKills \in Nat /\ Values # {} /\ Attempts \in Nat \ {0}

VARIABLES
    step,    \* run -> "none", "boot", "trade", "report", "release", "gone" or
             \* "killed"
    how,     \* run -> what it was started as
    tries,   \* run -> its failed attempts on the lock
    lock,    \* the run that holds the machine's lock, or 0
    truth,   \* run -> how its trading really ended
    result,  \* run -> what its result file says, "none" without one
    ended,   \* run -> its place in the order in which trading ended, or 0
    known,   \* the runs whose end the scheduler has recorded
    file,    \* live_defaults.json: its value, and its version (_fingerprint)
    server,  \* "down", "idle", or the step of the request it is answering
    request, \* that request
    shared,  \* the server holds the lock file shared for its momentary check
    session, \* which server this is: its _key
    mine,    \* _runs: the runs this server started
    used,    \* _used_nonces, by page
    pages    \* page -> what it showed

lives   == <<step, how, tries, lock, truth, result, ended, known>>
memory  == <<session, mine, used>>
vars    == <<lives, file, server, request, shared, memory, pages>>

Nobody     == [from |-> "none", dry |-> FALSE, set |-> 0, page |-> 0]
NoPage     == [session |-> 0, set |-> 0, base |-> 0, warned |-> 0]
NoRequest  == [page |-> 0, action |-> "none", ack |-> FALSE]

Init ==
    /\ step = [r \in Runs |-> "none"] /\ how = [r \in Runs |-> Nobody]
    /\ tries = [r \in Runs |-> 0] /\ lock = 0
    /\ truth = [r \in Runs |-> "none"] /\ result = [r \in Runs |-> "none"]
    /\ ended = [r \in Runs |-> 0] /\ known = {}
    /\ file \in [val : Values, ver : {0}]
    /\ server = "down" /\ request = NoRequest /\ shared = FALSE
    /\ session = 0 /\ mine = {} /\ used = {}
    /\ pages = [p \in Pages |-> NoPage]

----------------------------------------------------------------------------
(* A run: a process of main.py.                                             *)

Unstarted == {r \in Runs : step[r] = "none"}
Lowest(S)  == CHOOSE r \in S : \A q \in S : r <= q
Alive(r)  == step[r] \notin {"none", "gone", "killed"}
Trader(r) == how[r].from # "none" /\ ~how[r].dry
FromPage  == {r \in Runs : how[r].from = "page"}

Start(what) ==
    /\ Unstarted # {}
    /\ step' = [step EXCEPT ![Lowest(Unstarted)] = "boot"]
    /\ how' = [how EXCEPT ![Lowest(Unstarted)] = what]
    /\ UNCHANGED <<tries, lock, truth, result, ended, known>>

\* The scheduler starts one, or somebody else does: both trade the saved value.
StartElsewhere ==
    /\ Start([from |-> "elsewhere", dry |-> FALSE, set |-> file.val, page |-> 0])
    /\ UNCHANGED <<file, server, request, shared, memory, pages>>

\* Mutant: a run from a page relies on the check its server made.
LockFreeOnTrust(r) == how[r].from = "page" \/ (lock = 0 /\ ~shared)

LockFree(r) == lock = 0 /\ ~shared

\* Mutant: it waits as long as it takes.
LastTryNever(r) == FALSE

\* The time to wait for the lock is over.
LastTry(r) == tries[r] + 1 = Attempts

\* A dry run takes no lock.  A real one tries to; after Attempts failures it
\* stops without contacting the exchange (exit 50).  A momentary check is over
\* long before the next try, so it spoils one at most.
Acquire(r) ==
    /\ step[r] = "boot"
    /\ \/ /\ ~Trader(r)
          /\ step' = [step EXCEPT ![r] = "trade"]
          /\ UNCHANGED <<tries, lock, truth, shared>>
       \/ /\ Trader(r) /\ LockFree(r)
          /\ step' = [step EXCEPT ![r] = "trade"]
          /\ lock' = r
          /\ UNCHANGED <<tries, truth, shared>>
       \/ /\ Trader(r) /\ ~LockFree(r)
          /\ shared' = FALSE
          /\ tries' = [tries EXCEPT ![r] = @ + 1]
          /\ IF LastTry(r)
             THEN /\ step' = [step EXCEPT ![r] = "report"]
                  /\ truth' = [truth EXCEPT ![r] = "no order"]
             ELSE UNCHANGED <<step, truth>>
          /\ UNCHANGED lock
    /\ UNCHANGED <<how, result, ended, known, file, server, request, memory,
                   pages>>

Count    == Cardinality({r \in Runs : ended[r] # 0})
EndsNow(r) == ended' = IF ended[r] = 0 THEN [ended EXCEPT ![r] = Count + 1]
              ELSE ended

\* The run mode returns or raises: nothing trades after this.  "attention" is
\* every end that a person has to look at, an error while sending orders too.
TradingEnds(r, outcome) ==
    /\ step[r] = "trade"
    /\ step' = [step EXCEPT ![r] = "report"]
    /\ truth' = [truth EXCEPT ![r] = outcome]
    /\ EndsNow(r)
    /\ UNCHANGED <<how, tries, lock, result, known, file, server, request,
                   shared, memory, pages>>

\* write_run_report: it may fail, and never raises.
Report(r, written) ==
    /\ step[r] = "report"
    /\ step' = [step EXCEPT ![r] = "release"]
    /\ result' = IF written /\ r \in FromPage
                 THEN [result EXCEPT ![r] = truth[r]] ELSE result
    /\ UNCHANGED <<how, tries, lock, truth, ended, known, file, server, request,
                   shared, memory, pages>>

Freed(r) == IF lock = r THEN 0 ELSE lock

\* main closes the lock and exits.
Release(r) ==
    /\ step[r] = "release"
    /\ step' = [step EXCEPT ![r] = "gone"]
    /\ lock' = Freed(r)
    /\ UNCHANGED <<how, tries, truth, result, ended, known, file, server,
                   request, shared, memory, pages>>

\* A process is killed, or the machine's owner stops it: the system frees its
\* locks.  One killed while it traded left the account in an unknown state.
Kill(r) ==
    /\ Alive(r)
    /\ Cardinality({q \in Runs : step[q] = "killed"}) < MaxKills
    /\ step' = [step EXCEPT ![r] = "killed"]
    /\ lock' = Freed(r)
    /\ truth' = IF step[r] = "trade" /\ Trader(r)
                THEN [truth EXCEPT ![r] = "attention"]
                ELSE truth
    /\ EndsNow(r)
    /\ UNCHANGED <<how, tries, result, known, file, server, request, shared,
                   memory, pages>>

\* The scheduler records the end of its run after the process has gone (nobody
\* does for a run started by hand).
SchedulerRecords(r) ==
    /\ how[r].from = "elsewhere" /\ step[r] \in {"gone", "killed"}
    /\ r \notin known
    /\ known' = known \cup {r}
    /\ UNCHANGED <<step, how, tries, lock, truth, result, ended, file, server,
                   request, shared, memory, pages>>

----------------------------------------------------------------------------
(* What the server can tell about the runs.                                 *)

\* Mutant: only the runs this server started are looked for.
OwnRunsRemembered == {r \in mine : Alive(r)}

\* _own_run: its own processes; for runs of an earlier server, no result yet and
\* output.log still locked.
OwnRuns == {r \in FromPage : Alive(r) /\ (r \in mine \/ result[r] = "none")}

\* Mutant: a run that left no result says nothing.
FolderVerdictOfResult(r) ==
    IF r \in OwnRuns \/ ~Trader(r) THEN "none" ELSE result[r]

\* _folder_last_run: a result's own word, or "attention" without one, unless the
\* run is still going; the exit code of a process this server started goes first.
FolderVerdict(r) ==
    IF r \in OwnRuns \/ ~Trader(r) THEN "none"
    ELSE IF r \in mine /\ step[r] = "killed" THEN "attention"
    ELSE IF result[r] # "none" THEN result[r]
    ELSE IF r \in mine /\ truth[r] = "no order" THEN "no order"
    ELSE "attention"

\* _scheduled_last_run.
RecordVerdict(r) == IF r \notin known THEN "none"
                    ELSE IF step[r] = "killed" THEN "attention"
                    ELSE truth[r]

Verdict(r) == IF r \in FromPage THEN FolderVerdict(r) ELSE RecordVerdict(r)

Telling == {r \in Runs : Verdict(r) \in {"clean", "attention"}}

\* _attention: the newest run that says anything, when it needs a person; or 0.
Attention ==
    LET newest == {r \in Telling : \A q \in Telling : ended[q] <= ended[r]}
    IN  IF \E r \in newest : Verdict(r) = "attention"
        THEN CHOOSE r \in newest : TRUE ELSE 0

----------------------------------------------------------------------------
(* The server.                                                              *)

ServerStarts ==
    /\ server = "down" /\ session < MaxSessions
    /\ server' = "idle" /\ session' = session + 1
    /\ UNCHANGED <<lives, file, request, shared, mine, used, pages>>

\* It is stopped, or dies, in the middle of a request too.
ServerStops ==
    /\ server # "down"
    /\ server' = "down" /\ request' = NoRequest /\ shared' = FALSE
    /\ mine' = {} /\ used' = {}
    /\ UNCHANGED <<lives, file, session, pages>>

\* A page is rendered: whether it offers a real-money run takes a look at this
\* server's runs and a momentary check of the lock.
Render ==
    /\ server = "idle" /\ \E p \in Pages : pages[p] = NoPage
    /\ server' = "render" /\ shared' = (lock = 0)
    /\ request' = [NoRequest EXCEPT !.action =
                      IF OwnRuns = {} /\ lock = 0 THEN "offer" ELSE "none"]
    /\ UNCHANGED <<lives, file, memory, pages>>

Rendered(value) ==
    /\ server = "render"
    /\ server' = "idle" /\ shared' = FALSE /\ request' = NoRequest
    /\ pages' = [pages EXCEPT ![Lowest({p \in Pages : pages[p] = NoPage})] =
          [session |-> session, set |-> value, base |-> file.ver,
           warned |-> IF request.action = "offer" THEN Attention ELSE 0]]
    /\ UNCHANGED <<lives, file, memory>>

\* Mutant: a page of an earlier server is taken for one of this.
IssuedEver(p) == pages[p] # NoPage

\* The token names this server's key.
Issued(p) == pages[p] # NoPage /\ pages[p].session = session

\* Mutant: the defaults may have changed since the page was shown.
InForceAnyway(p) == TRUE

\* The page was built on the defaults in force.
InForce(p) == pages[p].base = file.ver

Changes(p) == pages[p].set # file.val

\* The box to tick is on the page only when the page offered a real-money run
\* and showed a warning.
Asked(p, action, ack) ==
    /\ request' = [page |-> p, action |-> action, ack |-> ack]
    /\ ack => pages[p].warned # 0

Fresh(p) == Issued(p) /\ p \notin used /\ InForce(p)

\* Every check before the button counts as used, up to the check of the lock; a
\* saving page has passed them all.
PostSave(p) ==
    /\ server = "idle" /\ Fresh(p) /\ Changes(p)
    /\ Asked(p, "save", FALSE)
    /\ server' = "save" /\ used' = used \cup {p}
    /\ UNCHANGED <<lives, file, shared, session, mine, pages>>

PostDryRun(p) ==
    /\ server = "idle" /\ Fresh(p) /\ OwnRuns = {}
    /\ Asked(p, "dry_run", FALSE)
    /\ server' = "launch" /\ used' = used \cup {p}
    /\ UNCHANGED <<lives, file, shared, session, mine, pages>>

PostTrade(p, ack) ==
    /\ server = "idle" /\ Fresh(p) /\ OwnRuns = {}
    /\ lock = 0
    /\ Asked(p, "trade", ack)
    /\ server' = "checking" /\ shared' = TRUE
    /\ UNCHANGED <<lives, file, memory, pages>>

\* The momentary check is over; the last run's warning must have been ticked.
Attend ==
    /\ server = "checking"
    /\ shared' = FALSE
    /\ IF Attention # 0 /\ ~request.ack
       THEN server' = "idle" /\ request' = NoRequest /\ UNCHANGED used
       ELSE /\ server' = IF Changes(request.page) THEN "save" ELSE "launch"
            /\ used' = used \cup {request.page}
            /\ UNCHANGED request
    /\ UNCHANGED <<lives, file, session, mine, pages>>

\* save_live_defaults; a save that fails starts nothing.
Save(written) ==
    /\ server = "save"
    /\ file' = IF written
               THEN [val |-> pages[request.page].set, ver |-> file.ver + 1]
               ELSE file
    /\ IF written /\ request.action = "trade"
       THEN server' = "launch" /\ UNCHANGED request
       ELSE server' = "idle" /\ request' = NoRequest
    /\ UNCHANGED <<lives, shared, memory, pages>>

\* Mutant: the run is left to read the saved defaults.
ArgvFromFile == file.val

\* live_settings_argv: the page's settings, all as flags.
Argv == pages[request.page].set

\* _start_run: the process is started and remembered, or could not be started.
Launch ==
    /\ server = "launch"
    /\ server' = "idle" /\ request' = NoRequest
    /\ \/ UNCHANGED <<lives, mine>>
       \/ /\ Start([from |-> "page", dry |-> request.action = "dry_run",
                    set |-> Argv, page |-> request.page])
          /\ mine' = mine \cup {Lowest(Unstarted)}
    /\ UNCHANGED <<file, shared, session, used, pages>>

RunStep(r) ==
    \/ Acquire(r) \/ Release(r) \/ Kill(r) \/ SchedulerRecords(r)
    \/ \E o \in {"clean", "attention", "no order"} : TradingEnds(r, o)
    \/ \E w \in BOOLEAN : Report(r, w)

Serve ==
    \/ ServerStarts \/ ServerStops \/ Render \/ Attend \/ Launch
    \/ \E v \in Values : Rendered(v)
    \/ \E w \in BOOLEAN : Save(w)
    \/ \E p \in Pages : PostSave(p) \/ PostDryRun(p)
                        \/ \E ack \in BOOLEAN : PostTrade(p, ack)

Next ==
    \/ Serve
    \/ StartElsewhere
    \/ \E r \in Runs : RunStep(r)

Spec == Init /\ [][Next]_vars

----------------------------------------------------------------------------
(* Properties.                                                              *)

Steps    == {"none", "boot", "trade", "report", "release", "gone", "killed"}
Outcomes == {"none", "clean", "attention", "no order"}

\* Every variable keeps its type.
TypeOK ==
    /\ step \in [Runs -> Steps]
    /\ \A r \in Runs : /\ how[r].from \in {"none", "page", "elsewhere"}
                       /\ how[r].page \in 0 .. MaxPages
    /\ tries \in [Runs -> 0 .. Attempts] /\ lock \in 0 .. MaxRuns
    /\ truth \in [Runs -> Outcomes] /\ result \in [Runs -> Outcomes]
    /\ ended \in [Runs -> 0 .. MaxRuns] /\ known \subseteq Runs
    /\ file.val \in Values /\ file.ver \in 0 .. MaxPages
    /\ server \in {"down", "idle", "render", "checking", "save", "launch"}
    /\ shared \in BOOLEAN /\ session \in 0 .. MaxSessions
    /\ mine \subseteq FromPage /\ used \subseteq Pages

\* Two real-money runs never trade at the same time, whoever started them, and
\* none trades before the last one's result is written (run_lock, main).
OneTrader ==
    Cardinality({r \in Runs : Trader(r) /\ truth[r] # "no order"
                                 /\ step[r] \in {"trade", "report"}}) <= 1

\* A page's run never starts beside another one that has not finished, also when
\* the server that started that one is gone (_own_run, _run_alive).
OneOwnRun ==
    Cardinality({r \in FromPage : step[r] \in {"boot", "trade", "report"}}) <= 1

\* One page starts at most one run, however often it is posted and whatever the
\* server forgot in between (_used, _token).
OneRunPerPage ==
    \A p \in Pages : Cardinality({r \in FromPage : how[r].page = p}) <= 1

\* The server starts no run beside its own last one, nor two from one page.
PageRunsAreSingle == TypeOK /\ OneOwnRun /\ OneRunPerPage

\* A run started from a page trades the settings that page showed
\* (_start_run: all twelve toggles as flags).
TradesWhatWasShown ==
    \A r \in FromPage : how[r].set = pages[how[r].page].set

\* A save never replaces defaults that its page did not show (_fingerprint).
NoLostSave == [][file' # file => pages[request.page].base = file.ver]_vars

\* What happens when a page starts a real-money run.
Launches(r) == /\ step[r] = "none" /\ step'[r] = "boot"
               /\ how'[r].from = "page" /\ ~how'[r].dry

\* The run that traded last came from a page and left something for a person.
LeftByLast(q) == /\ q \in FromPage /\ Trader(q) /\ truth[q] = "attention"
                 /\ \A p \in Runs : Trader(p) => ended[p] <= ended[q]

\* After a page's run that left something for a person, with no other run since,
\* no page starts the next one unless a person ticked the box: whether the result
\* could be written or not, the process was killed, or the server restarted
\* (_attention).
NoUntickedRun ==
    [][\A r, q \in Runs : Launches(r) /\ LeftByLast(q) => request.ack]_vars

\* What a page may change without being seen: the two above.
PagesActOnWhatTheySaw == NoLostSave /\ NoUntickedRun

=============================================================================
