---------------------------- MODULE PagePublish ----------------------------
(***************************************************************************)
(* Putting a finished page in place.  A page reads its chunks from a folder *)
(* of its own beside it; several backtests may be building at once, and any *)
(* of them may fail or be killed at any point.  A folder is made, and the   *)
(* page replaced and the folders of earlier builds deleted, under a lock.   *)
(***************************************************************************)
EXTENDS Integers, FiniteSets

CONSTANTS
    None,
    Builds      \* the builds, each a process; a build's folder bears its name

VARIABLES
    page,       \* the page in place: the build it is of, or None; the folder
                \* it reads, or None; whether its build held the lock
    folders,    \* the folders there are: [build -> [mark, old]], or None
    lock,       \* the build that holds the builds' lock, or None
    stage,      \* how far each build is
    mine        \* [folder: it made one, todo: the folders it has still to look at]

vars == <<page, folders, lock, stage, mine>>

There == {b \in Builds : folders[b] # None}
Set(b, s) == stage' = [stage EXCEPT ![b] = s]

\* The folder the page it writes will read.
FolderOf(b) == IF mine[b].folder THEN b ELSE None

-----------------------------------------------------------------------------
(* Building.                                                                *)

NewFolder(b) ==
    /\ stage[b] = "start" /\ lock = None
    /\ folders' = [folders EXCEPT ![b] = [mark |-> TRUE, old |-> FALSE]]
    /\ mine' = [mine EXCEPT ![b].folder = TRUE]
    /\ Set(b, "writing")
    /\ UNCHANGED <<page, lock>>

\* A page of one chunk needs no folder; one whose folder cannot be made
\* keeps every chunk itself.
NoFolder(b) ==
    /\ stage[b] = "start"
    /\ Set(b, "writing")
    /\ UNCHANGED <<page, folders, lock, mine>>

Deleted(b) == folders' = [folders EXCEPT ![b] = None]

\* A build that cannot be finished takes its folder with it.
BuildFails(b) ==
    /\ stage[b] = "writing"
    /\ Deleted(b)
    /\ Set(b, "failed")
    /\ UNCHANGED <<page, lock, mine>>

\* Nothing for the page to load from it.
NothingToLoad(b) ==
    /\ stage[b] = "writing" /\ mine[b].folder
    /\ Deleted(b)
    /\ mine' = [mine EXCEPT ![b].folder = FALSE]
    /\ UNCHANGED <<page, lock, stage>>

\* The lock is taken if there are folders at all.
TakeLock(b) ==
    /\ stage[b] = "writing" /\ There # {} /\ lock = None
    /\ lock' = b
    /\ Set(b, "locked")
    /\ UNCHANGED <<page, folders, mine>>

InPlace(b, locked) == page' = [build |-> b, folder |-> FolderOf(b), locked |-> locked]

PlainRename(b) ==
    /\ stage[b] = "writing" /\ There = {}
    /\ InPlace(b, TRUE)
    /\ Set(b, "done")
    /\ UNCHANGED <<folders, lock, mine>>

-----------------------------------------------------------------------------
(* Publishing.                                                              *)

Unmarked(b) == [folders EXCEPT ![b] = IF @ = None THEN None ELSE [@ EXCEPT !.mark = FALSE]]

\* Without the lock the page is replaced all the same, and nothing deleted.
RenameWithoutLock(b) ==
    /\ stage[b] = "writing" /\ There # {}
    /\ InPlace(b, FALSE)
    /\ Set(b, "unmark")
    /\ UNCHANGED <<folders, lock, mine>>

Rename(b) ==
    /\ stage[b] = "locked"
    /\ InPlace(b, TRUE)
    /\ mine' = [mine EXCEPT ![b].todo = There \ {b}]
    /\ Set(b, "cleaning")
    /\ UNCHANGED <<folders, lock>>

\* The page before stays.
RenameRaises(b) ==
    /\ stage[b] \in {"locked", "writing"}
    /\ Deleted(b)
    /\ lock' = IF lock = b THEN None ELSE lock
    /\ Set(b, "failed")
    /\ UNCHANGED <<page, mine>>

AnyFolder(f) == TRUE

\* The folder of a build at work bears a mark that is not old.
Abandoned(f) == ~f.mark \/ f.old

\* One it cannot read or delete is left to the next build.
LookAt(b, c) ==
    /\ stage[b] = "cleaning" /\ c \in mine[b].todo
    /\ mine' = [mine EXCEPT ![b].todo = @ \ {c}]
    /\ \/ folders[c] # None /\ Abandoned(folders[c]) /\ Deleted(c)
       \/ UNCHANGED folders
    /\ UNCHANGED <<page, lock, stage>>

Cleaned(b) ==
    /\ stage[b] = "cleaning" /\ mine[b].todo = {}
    /\ Set(b, "unmark")
    /\ UNCHANGED <<page, folders, lock, mine>>

\* The mark may resist; the lock is let go either way.
Unmark(b) ==
    /\ stage[b] = "unmark"
    /\ folders' \in {folders, Unmarked(b)}
    /\ lock' = IF lock = b THEN None ELSE lock
    /\ Set(b, "done")
    /\ UNCHANGED <<page, mine>>

-----------------------------------------------------------------------------
(* What happens to a build.                                                 *)

Killed(b) ==
    /\ stage[b] \notin {"start", "done", "failed", "killed"}
    /\ lock' = IF lock = b THEN None ELSE lock
    /\ Set(b, "killed")
    /\ UNCHANGED <<page, folders, mine>>

\* Two days on, the mark of a build no longer at work is old.
GetsOld(b) ==
    /\ stage[b] \in {"killed", "done"} /\ folders[b] # None
    /\ folders' = [folders EXCEPT ![b].old = TRUE]
    /\ UNCHANGED <<page, lock, stage, mine>>

Finished ==
    /\ \A b \in Builds : stage[b] \in {"done", "failed", "killed"}
    /\ UNCHANGED vars

-----------------------------------------------------------------------------
Init ==
    /\ page = [build |-> None, folder |-> None, locked |-> TRUE]
    /\ folders = [b \in Builds |-> None]
    /\ lock = None
    /\ stage = [b \in Builds |-> "start"]
    /\ mine = [b \in Builds |-> [folder |-> FALSE, todo |-> {}]]

Next ==
    \/ \E b \in Builds : NewFolder(b)
    \/ \E b \in Builds : NoFolder(b)
    \/ \E b \in Builds : BuildFails(b)
    \/ \E b \in Builds : NothingToLoad(b)
    \/ \E b \in Builds : TakeLock(b)
    \/ \E b \in Builds : PlainRename(b)
    \/ \E b \in Builds : RenameWithoutLock(b)
    \/ \E b \in Builds : Rename(b)
    \/ \E b \in Builds : RenameRaises(b)
    \/ \E b \in Builds, c \in Builds : LookAt(b, c)
    \/ \E b \in Builds : Cleaned(b)
    \/ \E b \in Builds : Unmark(b)
    \/ \E b \in Builds : Killed(b)
    \/ \E b \in Builds : GetsOld(b)
    \/ Finished

Spec == Init /\ [][Next]_vars

-----------------------------------------------------------------------------
TypeOK ==
    /\ page.build \in Builds \cup {None} /\ page.folder \in Builds \cup {None}
    /\ \A b \in Builds : folders[b] # None => folders[b] \in [mark : BOOLEAN, old : BOOLEAN]
    /\ lock \in Builds \cup {None}

(* A page put in place under the lock always has its folder, and a build at *)
(* work keeps the one it is writing, whichever other builds come, fail, or  *)
(* are killed.                                                              *)
PageHasItsFolder ==
    /\ page.locked /\ page.folder # None => folders[page.folder] # None
    /\ \A b \in Builds :
           stage[b] \in {"writing", "locked"} /\ mine[b].folder => folders[b] # None

=============================================================================
