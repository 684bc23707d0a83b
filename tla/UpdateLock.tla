------------------------------ MODULE UpdateLock ------------------------------
(***************************************************************************)
(* The lock file that update and uninstall take: data_dir/update.lock, made *)
(* with create_new, stolen by renaming it away when it looks stale, removed *)
(* by the drop of its guard.  Steps are single file system calls.           *)
(*                                                                         *)
(* A session is one process, with its pid and start time.  It creates at   *)
(* most one lock file, so a file is named by the session that created it,  *)
(* and goes on being written by it wherever it was moved.  Its content is  *)
(* either readable, and names its session, or not yet: empty or cut short. *)
(***************************************************************************)
EXTENDS Naturals, FiniteSets

CONSTANTS
  Sessions,  \* processes that run update or uninstall
  NoFile     \* nothing at a path

ASSUME LockAssumption == NoFile \notin Sessions

VARIABLES
  pc,         \* where each session is
  lock,       \* the file at update.lock
  tombstone,  \* the file at update.lock.stale
  written,    \* the lock files whose content is readable
  contended,  \* the sessions that found a holder when they began (history)
  overlapped, \* those that were acquiring while another one was (history)
  robbed      \* those whose file another one took from the path while they lived (history)

history  == <<contended, overlapped, robbed>>
lockVars == <<pc, lock, tombstone, written, history>>

\* Where a session is:
\*   Idle    not in acquire_update_lock       Write       created, not written
\*   Create  about to create the file         Held        has its guard
\*   Read    found one, about to read it      DropCheck   guard dropped, reads
\*   Rename  thinks it is stale               DropRemove  found its own token
\*   Remove  moved it, removes the tombstone  Done        process ended
\*   Again   about to create the file again   Refused     ended: the lock is held
\*                                            Failed      ended: an I/O error
\*                                            Dead        crashed
Acquiring == {"Create", "Read", "Rename", "Remove", "Again", "Write"}
Holding   == {"Held", "DropCheck", "DropRemove"}
Ended     == {"Done", "Refused", "Failed", "Dead"}

LockTypeOK ==
  /\ pc \in [Sessions -> {"Idle"} \cup Acquiring \cup Holding \cup Ended]
  /\ {lock, tombstone} \subseteq Sessions \cup {NoFile}
  /\ written \subseteq Sessions
  /\ contended \subseteq Sessions /\ overlapped \subseteq Sessions /\ robbed \subseteq Sessions

LockInit ==
  /\ pc = [s \in Sessions |-> "Idle"]
  /\ lock = NoFile /\ tombstone = NoFile
  /\ written = {}
  /\ contended = {} /\ overlapped = {} /\ robbed = {}

Goto(s, stage) == pc' = [pc EXCEPT ![s] = stage]

Begin(s) ==
  /\ pc[s] = "Idle"
  /\ contended' = IF \E t \in Sessions : pc[t] \in Holding THEN contended \cup {s} ELSE contended
  /\ LET others == {t \in Sessions : pc[t] \in Acquiring}
     IN  overlapped' = IF others = {} THEN overlapped ELSE overlapped \cup others \cup {s}
  /\ Goto(s, "Create")
  /\ UNCHANGED <<lock, tombstone, written, robbed>>

\* History of a step of s that may take the file from the path: whose it was, if it
\* was that of another session which lives.
Robbing(s) ==
  robbed' = IF lock' # lock /\ lock \notin {NoFile, s} /\ pc[lock] \notin Ended
            THEN robbed \cup {lock} ELSE robbed

\* Fault: the file is created over one that is there.
CreatedOver(s, otherwise) ==
  lock' = s /\ Goto(s, "Write")

\* create_new succeeds exactly if there is no file.
Created(s, otherwise) ==
  IF lock = NoFile THEN lock' = s /\ Goto(s, "Write")
  ELSE Goto(s, otherwise) /\ UNCHANGED lock

\* The directory is made first; it, or the file, may fail to be.
Create(s) ==
  /\ pc[s] = "Create"
  /\ Created(s, "Read") \/ (Goto(s, "Failed") /\ UNCHANGED lock)
  /\ UNCHANGED <<tombstone, written, history>>

\* Fault: a file without a readable owner counts as held.
StaleIfOwnerGone(file) == file \in written /\ pc[file] \in Ended

\* Fault: any lock file counts as stale.
AlwaysStale(file) == TRUE

\* A lock that cannot be read or parsed is stale, and one whose process is gone.
Stale(file) ==
  \/ file = NoFile
  \/ file \notin written
  \/ pc[file] \in Ended

\* Fault: a session that finds a file waits for it to go.
ReadUntilGone(s) ==
  /\ pc[s] = "Read" /\ lock = NoFile
  /\ Goto(s, "Create")
  /\ UNCHANGED <<lock, tombstone, written, history>>

Read(s) ==
  /\ pc[s] = "Read"
  /\ Goto(s, IF Stale(lock) THEN "Rename" ELSE "Refused")
  /\ UNCHANGED <<lock, tombstone, written, history>>

\* The rename takes whatever file is there by now.
Rename(s) ==
  /\ pc[s] = "Rename"
  /\ IF lock = NoFile
     THEN Goto(s, "Create") /\ UNCHANGED <<lock, tombstone>>
     ELSE Goto(s, "Remove") /\ tombstone' = lock /\ lock' = NoFile
  /\ Robbing(s)
  /\ UNCHANGED <<written, contended, overlapped>>

Remove(s) ==
  /\ pc[s] = "Remove"
  /\ Goto(s, "Again")
  /\ tombstone' = NoFile
  /\ UNCHANGED <<lock, written, history>>

Again(s) ==
  /\ pc[s] = "Again"
  /\ Created(s, "Refused")
  /\ UNCHANGED <<tombstone, written, history>>

\* write_lock_content; a failed write leaves the file as it is.
Write(s) ==
  /\ pc[s] = "Write"
  /\ \/ Goto(s, "Held") /\ written' = written \cup {s}
     \/ Goto(s, "Failed") /\ UNCHANGED written
  /\ UNCHANGED <<lock, tombstone, history>>

\* The file carries the token of s.
OwnToken(s) == lock = s

DropCheck(s) ==
  /\ pc[s] = "DropCheck"
  /\ Goto(s, IF OwnToken(s) THEN "DropRemove" ELSE "Done")
  /\ UNCHANGED <<lock, tombstone, written, history>>

\* A removal that fails is ignored.  It takes whatever file is there by now.
DropRemove(s) ==
  /\ pc[s] = "DropRemove"
  /\ lock' \in {NoFile, lock}
  /\ Robbing(s)
  /\ Goto(s, "Done")
  /\ UNCHANGED <<tombstone, written, contended, overlapped>>

AcquireStep(s) ==
  Create(s) \/ Read(s) \/ Rename(s) \/ Remove(s) \/ Again(s) \/ Write(s)

DropStep(s) == DropCheck(s) \/ DropRemove(s)

Release(s) ==
  /\ pc[s] = "Held"
  /\ Goto(s, "DropCheck")
  /\ UNCHANGED <<lock, tombstone, written, history>>

\* A process may die at any moment and leaves its files behind.
Crash(s) ==
  /\ pc[s] \in Acquiring \cup Holding
  /\ Goto(s, "Dead")
  /\ UNCHANGED <<lock, tombstone, written, history>>

LockNext ==
  \E s \in Sessions :
    Begin(s) \/ AcquireStep(s) \/ Release(s) \/ DropStep(s) \/ Crash(s)

LockSpec == LockInit /\ [][LockNext]_lockVars

-----------------------------------------------------------------------------
(* Properties.                                                             *)

\* At most one session believes that it holds the lock.  Two that acquire at the
\* same time can both get in: the second takes away the fresh file of the first.
MutualExclusion == Cardinality({s \in Sessions : pc[s] = "Held"}) <= 1

\* Only a race lets a session take the lock file of one that lives: as long as no
\* two acquisitions have overlapped, no lock that its owner needs is renamed away as
\* stale, removed by somebody's drop or deleted with somebody's data directory,
\* whatever crashed before.
TheftNeedsRace == robbed # {} => overlapped # {}

\* No crash leaves a lock that needs a hand to remove: a session is refused only if
\* another one was holding when it began, or acquiring while it did.
RefusedOnlyByHolder ==
  \A s \in Sessions : pc[s] = "Refused" => s \in contended \cup overlapped

=============================================================================
