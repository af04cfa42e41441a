------------------------------ MODULE Settings ------------------------------
(***************************************************************************)
(* The live settings: the file that holds them, the links that propose new  *)
(* ones, the save, and the flags a run is started with.                     *)
(*                                                                         *)
(* Settings are a function of Fields; a link, a file and a command line     *)
(* each name some of them.  Tier floors, k and the size cap, which every    *)
(* one of them treats alike, are one field, "rest".  Amounts that lie on a  *)
(* grid are counted in half steps of it.  `Off` is None.                    *)
(***************************************************************************)
EXTENDS Integers, FiniteSets

CONSTANTS
    Off,
    Torn,       \* a file cut off in the middle
    Seed,       \* LIVE_DEFAULTS_SEED
    Pages,      \* what backtest pages show
    OldFiles,   \* "settings" objects older versions wrote
    Typed,      \* flags typed by hand
    MaxPages,   \* bound: confirmation pages opened
    Others,     \* settings saved from elsewhere
    Listed      \* the <<category, tag>> pairs Kalshi lists

Fields   == {"rest", "lo", "hi", "twin", "cats", "tags",
             "rebalance", "move", "until", "sell", "days"}
Optional == {"rebalance", "move", "until", "sell", "days"}
Default  == [f \in Optional |-> IF f = "rebalance" THEN FALSE ELSE Off]
Named    == {"rest", "lo", "hi"}                   \* every link names these
OldKeys  == {"add", "trim", "rise", "categories", "oldtags"}
Switches == {"add", "trim", "rise"}

\* f, and g where f says nothing.
Else(f, g) == [x \in DOMAIN f \cup DOMAIN g |-> IF x \in DOMAIN f THEN f[x] ELSE g[x]]

VARIABLES
    file,   \* live_defaults.json: a "settings" object, Torn, or Off without one
    disk,   \* what a power cut now may leave of it
    page,   \* the confirmation page open, or Off
    save,   \* the save it asked for: [set, step, flushed], or Off
    run,    \* the run started last, or Off
    opened  \* confirmation pages opened so far

vars == <<file, disk, page, save, run, opened>>

-----------------------------------------------------------------------------
(* What may be set together.                                                *)

OnGrid(amount) == amount # Off => amount > 0 /\ amount % 2 = 0

Legal(s) ==
    /\ \A f \in {"rest", "move", "sell"} : OnGrid(s[f])
    /\ s["lo"] < s["hi"]
    /\ ~s["rebalance"] => s["move"] = Off /\ s["until"] = Off
    /\ s["sell"] = Off => s["days"] = Off

\* A tag may be tied to a category: <<category, tag>>; a plain one is <<Off, tag>>.
Ties(tags) == {t[1] : t \in (IF tags = Off THEN {} ELSE tags)} \ {Off}

-----------------------------------------------------------------------------
(* Reading the file.                                                        *)

SettingsFromToggles(raw) ==
    IF Fields \ Optional \subseteq DOMAIN raw /\ DOMAIN raw \subseteq Fields
    THEN LET s == Else(raw, Default) IN IF Legal(s) THEN s ELSE Off
    ELSE Off

\* What no version wrote together: a retired key beside its replacement.
TwoThings(raw) ==
    \/ "categories" \in DOMAIN raw /\ {"cats", "tags"} \cap DOMAIN raw # {}
    \/ "oldtags" \in DOMAIN raw /\ "tags" \in DOMAIN raw
    \/ Switches \cap DOMAIN raw # {} /\ {"rebalance", "move", "until"} \cap DOMAIN raw # {}

Held(raw, key, none) == IF key \in DOMAIN raw THEN raw[key] ELSE none

\* What the older version itself refused.
RefusedThen(raw) ==
    \/ "categories" \in DOMAIN raw
       /\ ~(Ties(Held(raw, "oldtags", Off))
              \subseteq (IF raw["categories"] = Off THEN {} ELSE raw["categories"]))
    \/ "oldtags" \in DOMAIN raw /\ Held(raw, "cats", Off) # Off
       /\ Ties(raw["oldtags"]) \cap raw["cats"] # {}
    \/ Held(raw, "rise", Off) # Off /\ ~(Held(raw, "trim", FALSE) /\ OnGrid(raw["rise"]))

EitherSwitch(raw) == Held(raw, "add", FALSE) \/ Held(raw, "trim", FALSE)
BothSwitches(raw) == Held(raw, "add", FALSE) /\ Held(raw, "trim", FALSE)

\* What an older file's settings are now, or Off.  A list of what to trade
\* becomes: leave nothing out.
RetiredProposal(raw) ==
    LET now    == [f \in DOMAIN raw \ OldKeys |-> raw[f]]
        lists  == [f \in {"cats" : k \in {"categories"} \cap DOMAIN raw}
                        \cup {"tags" : k \in {"oldtags"} \cap DOMAIN raw} |-> Off]
        switch == IF Switches \cap DOMAIN raw = {} THEN [f \in {} |-> Off]
                  ELSE IF BothSwitches(raw) /\ Held(raw, "rise", Off) # Off
                  THEN [rebalance |-> TRUE, move |-> raw["rise"]]
                  ELSE [rebalance |-> BothSwitches(raw)]
    IN  IF TwoThings(raw) \/ RefusedThen(raw) THEN Off
        ELSE SettingsFromToggles(Else(lists, Else(switch, now)))

WidensByCategories(raw) ==
    RetiredProposal(raw) # Off /\ Held(raw, "categories", Off) # Off

Widens(raw) ==
    /\ RetiredProposal(raw) # Off
    /\ Held(raw, "categories", Off) # Off \/ Held(raw, "oldtags", Off) # Off

\* read_saved_live_defaults.  `widens`: an old list of what to trade is given up.
Nothing == [is |-> "none", set |-> Off, widens |-> FALSE]
Read(contents) ==
    IF contents = Off THEN Nothing
    ELSE IF contents = Torn THEN [Nothing EXCEPT !.is = "refused"]
    ELSE IF OldKeys \cap DOMAIN contents # {}
    THEN [is     |-> "outdated", set |-> RetiredProposal(contents),
          widens |-> Widens(contents)]
    ELSE LET s == SettingsFromToggles(contents)
         IN  [Nothing EXCEPT !.is = IF s = Off THEN "refused" ELSE "saved", !.set = s]

LiveDefaults(contents) == IF Read(contents).is = "saved" THEN Read(contents).set ELSE Off

\* What a save writes: an optional field only when it is not at its default.
Text(s) == [f \in {g \in Fields : g \in Optional => s[g] # Default[g]} |-> s[f]]

-----------------------------------------------------------------------------
(* A link, and the settings it proposes.                                    *)

\* The link of a page that shows s and has views of `views`.
Link(s, views) ==
    [named |-> [f \in Named
                  \cup (IF "twin" \in views THEN {"twin"} ELSE {})
                  \cup (IF "rebalance" \in views THEN {"rebalance", "move"} ELSE {})
                  \cup (IF "until" \in views THEN {"until"} ELSE {})
                  \cup (IF "sell" \in views THEN {"sell", "days"} ELSE {})
                  \cup {g \in {"cats", "tags"} : s[g] # Off} |-> s[f]],
     seed  |-> FALSE]

Views == {v \in SUBSET {"twin", "rebalance", "until", "sell"} : "until" \in v => "rebalance" \in v}
PageLinks == {Link(s, v) : s \in Pages, v \in Views}

\* The server's own links, to the seed and to what an older file's settings are now.
SettingsQuery(s, seed) ==
    [named |-> [f \in {g \in Fields : g \in {"cats", "tags"} => s[g] # Off} |-> s[f]],
     seed  |-> seed]
ServerLinks(r) ==
    {SettingsQuery(Seed, TRUE)}
      \cup (IF r.is = "outdated" /\ r.set # Off THEN {SettingsQuery(r.set, FALSE)} ELSE {})

\* What a link says of a field, read and checked.
Given(link, f) == link.named[f]

KeptAll(link, current, f) ==
    CASE f \in {"cats", "tags"} -> Off
      [] f = "twin" -> IF current # Off THEN current[f] ELSE Seed[f]
      [] OTHER -> IF current # Off /\ ~link.seed THEN current[f] ELSE Seed[f]

\* current: the settings in force, or an older file's, or Off.
Kept(link, current, f) ==
    CASE f \in {"cats", "tags"} -> Off
      [] f = "twin" -> IF current # Off THEN current[f] ELSE Seed[f]
      [] f = "until" /\ Held(link.named, "rebalance", TRUE) = FALSE -> Off
      [] OTHER -> IF current # Off /\ ~link.seed THEN current[f] ELSE Seed[f]

Proposal(link, current) ==
    LET s == [f \in Fields |-> IF f \in DOMAIN link.named THEN Given(link, f)
                               ELSE Kept(link, current, f)]
    IN  IF Legal(s) /\ (link.seed => s = Seed) THEN s ELSE Off

-----------------------------------------------------------------------------
(* The flags of a run, laid over the file's settings.                       *)

ArgvOfWhatIsSet(s) == [f \in {g \in Fields : s[g] # Off} |-> s[f]]

\* live_settings_argv names every field, None too.
Argv(s) == s

Cleared(flags) ==
    (IF Held(flags, "rebalance", TRUE) THEN {} ELSE {"move", "until"})
    \cup (IF Held(flags, "sell", 0) = Off THEN {"days"} ELSE {})

Laid(flags, reference) ==
    [f \in Fields |-> IF f \in DOMAIN flags THEN flags[f]
                      ELSE IF f \in Cleared(flags) THEN Off ELSE reference[f]]

\* The settings the run trades, or Off when it refuses to start.
Resolve(flags, contents) ==
    LET reference == LiveDefaults(contents)
    IN  IF reference # Off /\ Legal(Laid(flags, reference)) THEN Laid(flags, reference)
        ELSE Off

-----------------------------------------------------------------------------
Init ==
    /\ file \in {Off} \cup {Text(s) : s \in Pages} \cup OldFiles
    /\ disk = {file} /\ page = Off /\ save = Off /\ run = Off /\ opened = 0

Warned(r) == r.is = "outdated" /\ r.widens

\* _get_confirm.  The page carries the link it was opened by, a fingerprint of
\* the file, and a warning when an older file's lists are given up.
Open ==
    /\ save = Off /\ page = Off /\ run = Off
    /\ opened < MaxPages /\ opened' = opened + 1
    /\ LET r == Read(file)
       IN \E link \in PageLinks \cup ServerLinks(r) :
            /\ r.is # "refused"
            /\ page' = [link |-> link, seen |-> r, shown |-> Proposal(link, r.set),
                        warned |-> Warned(r)]
    /\ UNCHANGED <<file, disk, save, run>>

Close == page # Off /\ save = Off /\ page' = Off /\ UNCHANGED <<file, disk, save, run, opened>>

SameKind(seen, r) == seen.is = r.is

\* _outdated_changes: the file says what it said when the page was opened.
SameFile(seen, r) == seen = r

\* _post_confirm: the settings are worked out again, from the file as it is now.
Confirm ==
    LET r == Read(file)
        s == Proposal(page.link, r.set)
    IN  /\ page # Off /\ save = Off
        /\ r.is # "refused" /\ s # Off /\ SameFile(page.seen, r)
        /\ save' = [set |-> s, step |-> IF LiveDefaults(file) = s THEN "same"
                                        ELSE IF Read(Text(s)).set = s THEN "write" ELSE "failed",
                      flushed |-> FALSE]
        /\ UNCHANGED <<file, disk, page, run, opened>>

Writing(step) == save # Off /\ save.step = step
To(step)      == save' = [save EXCEPT !.step = step]

\* save_live_defaults, from the temporary file to the reading back.
Write == Writing("write") /\ To("written") /\ UNCHANGED <<file, disk, page, run, opened>>
\* Flush as it must not be: the text stays in the machine's memory.
FlushNothing == Writing("written") /\ To("flushed") /\ UNCHANGED <<file, disk, page, run, opened>>
Flush ==
    /\ Writing("written")
    /\ save' = [save EXCEPT !.step = "flushed", !.flushed = TRUE]
    /\ UNCHANGED <<file, disk, page, run, opened>>
\* A file renamed before its text was flushed may be cut off by a power cut.
LeftByACut == {Text(save.set)} \cup (IF save.flushed THEN {} ELSE {Torn})
Replace ==
    /\ Writing("flushed")
    /\ file' = Text(save.set) /\ disk' = disk \cup LeftByACut
    /\ To("replaced") /\ UNCHANGED <<page, run, opened>>
SyncDirectory ==
    /\ Writing("replaced")
    /\ disk' = {file} /\ To("synced") /\ UNCHANGED <<file, page, run, opened>>
ReadBack ==
    /\ Writing("synced")
    /\ To(IF LiveDefaults(file) = save.set THEN "saved" ELSE "failed")
    /\ UNCHANGED <<file, disk, page, run, opened>>
\* The write, the flush, the rename or the directory's flush raises.
Raises ==
    /\ save # Off /\ save.step \in {"write", "written", "flushed", "replaced"}
    /\ To("failed") /\ UNCHANGED <<file, disk, page, run, opened>>

\* The request is answered; Confirm and trade then starts its run.
Saved == save # Off /\ save.step \in {"same", "saved"}
Answer ==
    /\ save # Off /\ save.step \in {"same", "saved", "failed"}
    /\ page' = Off /\ save' = Off
    /\ UNCHANGED <<file, disk, run, opened>>
Launch ==
    /\ Saved
    /\ run' = [flags |-> Argv(save.set), shown |-> page.shown, on |-> Off, trades |-> Off]
    /\ page' = Off /\ save' = Off
    /\ UNCHANGED <<file, disk, opened>>

\* A run started by hand, or with no flag by the scheduler.
Start ==
    /\ run = Off /\ page = Off
    /\ \E flags \in Typed :
        run' = [flags |-> flags, shown |-> Off, on |-> Off, trades |-> Off]
    /\ UNCHANGED <<file, disk, page, save, opened>>

Ends == run # Off /\ run.on # Off /\ run' = Off /\ UNCHANGED <<file, disk, page, save, opened>>

\* The run reads the file, once.
Boot ==
    /\ run # Off /\ run.on = Off
    /\ run' = [run EXCEPT !.on = file, !.trades = Resolve(run.flags, file)]
    /\ UNCHANGED <<file, disk, page, save, opened>>

\* The file is saved from another page, or deleted, before the page is posted.
SavedElsewhere ==
    /\ save = Off /\ (page # Off \/ run # Off)
    /\ \E s \in Others \cup {Off} :
        /\ file' = IF s = Off THEN Off ELSE Text(s)
        /\ disk' = {file'}
    /\ UNCHANGED <<page, save, run, opened>>

PowerCut ==
    /\ \E c \in disk : file' = c /\ disk' = {c}
    /\ page' = Off /\ save' = Off /\ run' = Off /\ UNCHANGED opened

Next ==
    \/ Open \/ Close \/ Confirm \/ Write \/ Flush \/ Replace \/ SyncDirectory \/ ReadBack
    \/ Raises \/ Answer \/ Launch \/ Start \/ Boot \/ Ends \/ SavedElsewhere \/ PowerCut

Spec == Init /\ [][Next]_vars

-----------------------------------------------------------------------------
(* A run started from a page trades what the page showed, whatever the file *)
(* says by then, or nothing; a run started with flags differs from the file *)
(* in the settings they name and those that mean nothing without them, and  *)
(* turning a switch off is always understood.                               *)
RunsAreAsked ==
    run # Off /\ run.on # Off =>
        /\ run.trades # Off => Legal(run.trades) /\ Read(run.on).is = "saved"
        /\ run.shown # Off => run.trades \in {run.shown, Off}
        /\ run.shown # Off /\ Read(run.on).is = "saved" => run.trades = run.shown
        /\ run.trades # Off => \A f \in Fields \ DOMAIN run.flags :
               \/ run.trades[f] = Read(run.on).set[f]
               \/ f \in {"move", "until"} /\ ~run.trades["rebalance"]
               \/ f = "days" /\ run.trades["sell"] = Off
        /\ Read(run.on).is = "saved"
             /\ run.flags \in {[rebalance |-> FALSE], [sell |-> Off]} => run.trades # Off

(* Every link a page may hold is accepted whatever is saved, and proposes   *)
(* what the page showed where it names it.                                  *)
LinksAreTaken ==
    page # Off =>
        /\ page.shown # Off
        /\ \A f \in DOMAIN page.link.named : page.shown[f] = page.link.named[f]

(* The file is whole at every moment and after a power cut, a save said to  *)
(* have been made survives one, and it is the page's.                       *)
FileIsWhole ==
    /\ \A c \in disk \cup {file} : Read(c).is # "refused"
    /\ Saved => save.set = page.shown /\ LiveDefaults(file) = save.set
    /\ Writing("saved") => \A c \in disk : LiveDefaults(c) = save.set

\* What an older file traded.
OldKeeps(raw, row) ==
    /\ Held(raw, "categories", Off) = Off \/ row[1] \in raw["categories"]
    /\ Held(raw, "oldtags", Off) = Off
       \/ {t \in raw["oldtags"] : t[1] \in {Off, row[1]}} = {}
       \/ {<<Off, row[2]>>, row} \cap raw["oldtags"] # {}
    /\ Held(raw, "cats", Off) = Off \/ row[1] \notin raw["cats"]
NewKeeps(s, row) ==
    /\ s["cats"] = Off \/ row[1] \notin s["cats"]
    /\ s["tags"] = Off \/ {<<Off, row[2]>>, row} \cap s["tags"] = {}

(* An older version's file is never traded as it stands; what is offered in *)
(* its place leaves out what it left out and rebalances only when it did    *)
(* both halves of that, or the page says that it trades more.               *)
NothingWidensUnsaid ==
    LET r == Read(file)
    IN  r.is = "outdated" =>
          /\ LiveDefaults(file) = Off
          /\ r.set # Off =>
               /\ (\E row \in Listed : NewKeeps(r.set, row) /\ ~OldKeeps(file, row)) => Warned(r)
               /\ Switches \cap DOMAIN file # {} =>
                    /\ r.set["rebalance"] <=>
                         Held(file, "add", FALSE) /\ Held(file, "trim", FALSE)
                    /\ r.set["rebalance"] => r.set["move"] = Held(file, "rise", Off)

\* The two together.
SettingsAreKept == FileIsWhole /\ NothingWidensUnsaid
=============================================================================
