------------------------------ MODULE StateFiles ------------------------------
(***************************************************************************)
(* The state files of an installation, the locks on them, and the command  *)
(* `state migrate` (migrate_copy), step by step, next to scans that open   *)
(* the same files, to kills and to losses of power.                        *)
(*                                                                         *)
(* A database that is open, and the source of a migration, are locked by   *)
(* the operating system until the process ends.  The candidate is a        *)
(* private temporary file next to the destination; it is copied in two     *)
(* halves, the change log and the rest.                                    *)
(*                                                                         *)
(* That a file which a scan has just made may vanish with the power, too,  *)
(* is left out: only the entry of a published copy may.                    *)
(***************************************************************************)
EXTENDS Migrations

CONSTANTS
  StampTime,     \* the time at which files are migrated
  MaxMigrations  \* bound: how often the command is run again

Paths == {"old", "new"}  \* --from and --to

VARIABLES
  files,       \* what is at each path
  lock,        \* who has locked it: "free", "scan" or "migration"
  stage,       \* how far the migration is
  candidate,   \* its temporary file, or Absent
  durable,     \* FALSE: the entry of the published file is not synced
  migrations   \* runs of the command so far

fileVars == <<files, lock, stage, candidate, durable, migrations>>

\* Stages: idle, locked, checked, half, copied, ready, published; then done, failed
\* (nothing published), unsynced (published, reported as failed) or killed.
Working == {"locked", "checked", "half", "copied", "ready"}
Ended   == {"done", "failed", "unsynced", "killed"}

FilesInit(initial) ==
  /\ files = initial
  /\ lock = [p \in Paths |-> "free"]
  /\ stage = "idle" /\ candidate = Absent /\ durable = TRUE /\ migrations = 0

Unlocked(owner) == [p \in Paths |-> IF lock[p] = owner THEN "free" ELSE lock[p]]

-----------------------------------------------------------------------------
(* A scan opens a file, commits to it and closes it; it may be killed.     *)

OpenFile(p) ==
  /\ lock[p] = "free" /\ OpenAccepted(files[p], StampTime)
  /\ files' = [files EXCEPT ![p] = Opened(@, StampTime)]
  /\ lock' = [lock EXCEPT ![p] = "scan"]
  /\ UNCHANGED <<stage, candidate, durable, migrations>>

\* An open that fails in run_migrations: where nothing was, redb has made a database.
OpenFileHalfway(p) ==
  /\ lock[p] = "free" /\ files[p] \in {Absent, Link}
  /\ files' = [files EXCEPT ![p] = Database("current", FreshDb)]
  /\ UNCHANGED <<lock, stage, candidate, durable, migrations>>

WithRows(file, rows, health, changes) ==
  Database(file.engine,
           [file.db EXCEPT !.rows = rows, !.health = @ \cup health, !.changes = @ \cup changes])

\* The transaction of a scan: it replaces the events, appends to the histories (and
\* deletes what has expired, which is left out), and closes the file.
CommitAndClose(p, rows, health, changes) ==
  /\ files' = [files EXCEPT ![p] = WithRows(@, rows, health, changes)]
  /\ lock' = Unlocked("scan")
  /\ UNCHANGED <<stage, candidate, durable, migrations>>

CloseFile ==
  /\ lock' = Unlocked("scan")
  /\ UNCHANGED <<files, stage, candidate, durable, migrations>>

-----------------------------------------------------------------------------
(* migrate_copy                                                            *)

Fail ==
  /\ stage' = "failed" /\ candidate' = Absent /\ lock' = Unlocked("migration")
  /\ UNCHANGED <<files, durable, migrations>>

RegularFile(file) == file.kind \in {"database", "garbage"}

LockSource ==
  /\ stage = "idle"
  /\ RegularFile(files["old"]) /\ lock["old"] = "free"
  /\ lock' = [lock EXCEPT !["old"] = "migration"]
  /\ stage' = "locked"
  /\ UNCHANGED <<files, candidate, durable, migrations>>

RefuseSource ==
  /\ stage = "idle"
  /\ ~ RegularFile(files["old"]) \/ lock["old"] # "free"
  /\ Fail

CheckDestination ==
  /\ stage = "locked"
  /\ files["new"] = Absent
  /\ stage' = "checked"
  /\ UNCHANGED <<files, lock, candidate, durable, migrations>>

RefuseDestination ==
  /\ stage = "locked"
  /\ files["new"] # Absent
  /\ Fail

CopyHalf ==
  /\ stage = "checked"
  /\ candidate' = IF IsDatabase(files["old"]) THEN [files["old"] EXCEPT !.db.changes = {}]
                  ELSE files["old"]
  /\ stage' = "half"
  /\ UNCHANGED <<files, lock, durable, migrations>>

CopyRest ==
  /\ stage = "half"
  /\ candidate' = IF IsDatabase(candidate)
                  THEN [candidate EXCEPT !.db.changes = files["old"].db.changes] ELSE candidate
  /\ stage' = "copied"
  /\ UNCHANGED <<files, lock, durable, migrations>>

\* upgrade_engine, Repository::open and validate, on the private copy.
PrepareCandidate ==
  /\ stage = "copied"
  /\ CandidateAccepted(candidate, StampTime)
  /\ candidate' = Candidate(candidate, StampTime)
  /\ stage' = "ready"
  /\ UNCHANGED <<files, lock, durable, migrations>>

RefuseCandidate ==
  /\ stage = "copied"
  /\ ~ CandidateAccepted(candidate, StampTime)
  /\ Fail

\* Fault: the candidate is renamed over whatever is there.
PublishOver ==
  /\ stage = "ready"
  /\ files' = [files EXCEPT !["new"] = candidate]
  /\ candidate' = Absent /\ durable' = FALSE /\ stage' = "published"
  /\ UNCHANGED <<lock, migrations>>

\* persist_noclobber
PublishCandidate ==
  /\ stage = "ready"
  /\ files["new"] = Absent
  /\ files' = [files EXCEPT !["new"] = candidate]
  /\ candidate' = Absent /\ durable' = FALSE /\ stage' = "published"
  /\ UNCHANGED <<lock, migrations>>

RefusePublication ==
  /\ stage = "ready"
  /\ files["new"] # Absent
  /\ Fail

SyncDirectory ==
  /\ stage = "published"
  /\ durable' = TRUE /\ stage' = "done" /\ lock' = Unlocked("migration")
  /\ UNCHANGED <<files, candidate, migrations>>

SyncFails ==
  /\ stage = "published"
  /\ stage' = "unsynced" /\ lock' = Unlocked("migration")
  /\ UNCHANGED <<files, candidate, durable, migrations>>

\* An error of any system call before publication.
MigrationIoError == stage \in Working /\ Fail

\* The process is killed: its locks are gone, its temporary file is left behind
\* under a name that nothing reads.
KillMigration ==
  /\ stage \in Working \cup {"published"}
  /\ stage' = "killed" /\ candidate' = Absent /\ lock' = Unlocked("migration")
  /\ UNCHANGED <<files, durable, migrations>>

RunAgain ==
  /\ stage \in Ended /\ migrations < MaxMigrations
  /\ stage' = "idle" /\ migrations' = migrations + 1
  /\ UNCHANGED <<files, lock, candidate, durable>>

MigrationNext ==
  \/ LockSource \/ RefuseSource \/ CheckDestination \/ RefuseDestination
  \/ CopyHalf \/ CopyRest \/ PrepareCandidate \/ RefuseCandidate
  \/ PublishCandidate \/ RefusePublication \/ SyncDirectory \/ SyncFails
  \/ MigrationIoError \/ KillMigration \/ RunAgain

\* Power is lost: every process is gone, an entry that was not synced may be too.
FilesAfterPowerLoss ==
  /\ \/ UNCHANGED files
     \/ ~ durable /\ files' = [files EXCEPT !["new"] = Absent]
  /\ durable' = TRUE
  /\ lock' = [p \in Paths |-> "free"]
  /\ stage' = IF stage \in Ended \cup {"idle"} THEN stage ELSE "killed"
  /\ candidate' = Absent
  /\ UNCHANGED migrations

-----------------------------------------------------------------------------
(* Properties.                                                             *)

Copy == INSTANCE AtomicCopy WITH source <- files["old"], destination <- files["new"]

\* The command is atomic for whoever looks at the two paths: no scan that writes to
\* the source while it is copied, none that makes the destination first, no error,
\* kill or loss of power leaves a torn, outdated or replaced file behind.
CopyIsAtomic == Copy!CopySpec

=============================================================================
