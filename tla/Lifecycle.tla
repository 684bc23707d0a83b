------------------------------ MODULE Lifecycle ------------------------------
(***************************************************************************)
(* Self-update and uninstall of one installation, under the update lock:   *)
(* the binary, its staged and rolled-back siblings and the install         *)
(* manifest.  Every step may fail, every process may die between two       *)
(* steps.  A binary is a release and whether the file is complete; the     *)
(* configuration, cache and database directories are left out.             *)
(***************************************************************************)
EXTENDS UpdateLock

CONSTANTS
  Releases,  \* published versions
  Broken,    \* those that cannot run --version
  Nothing    \* no binary at a path

\* A binary: its release, and whether the file is complete.
Binary(v, complete) == [release |-> v, whole |-> complete]
Binaries == [release : Releases, whole : BOOLEAN]

ASSUME LifecycleAssumption ==
  /\ Releases \subseteq Nat /\ 0 \in Releases
  /\ Broken \subseteq Releases \ {0}
  /\ Nothing \notin Binaries

VARIABLES
  step,      \* what each session is at, between and inside the lock's stages
  running,   \* the release each session is a process of
  current,   \* the binary
  temp,      \* the staged download of each session (its name has the pid)
  rollback,  \* the rollback copy
  copier,    \* the session that last created it
  manifest,  \* the install manifest: "None", "Torn" or "Whole"
  plan,      \* the files an uninstall listed before it took the lock
  outcomes   \* what sessions achieved: "Updated", "Removed" (history)

fileVars == <<current, temp, rollback, copier, manifest>>
lifecycleVars == <<lockVars, fileVars, step, running, plan, outcomes>>

Usable(b) == b # Nothing /\ b.whole /\ b.release \notin Broken

\* Where a session is: "Off" is before its launch, "Lock" while it acquires the
\* lock, "End" once it drops the guard or returned without one.
Step == {"Off", "Lock", "List", "Check", "Fetch", "Verify", "Chmod", "TestTemp", "OldRollback",
         "Copy", "Copied", "Replace", "SyncDir", "TestCurrent", "Restore", "Manifest",
         "ManifestSaved", "DeleteBinary", "DeleteData", "DeleteSiblings", "End"}
Plan == [job : {"update", "keep", "purge"}, temps : SUBSET Sessions,
         rollback : BOOLEAN, manifest : BOOLEAN]

LifecycleTypeOK ==
  /\ LockTypeOK
  /\ step \in [Sessions -> Step]
  /\ running \in [Sessions -> Releases]
  /\ {current, rollback} \subseteq Binaries \cup {Nothing}
  /\ temp \in [Sessions -> Binaries \cup {Nothing}]
  /\ copier \in Sessions \cup {NoFile}
  /\ manifest \in {"None", "Torn", "Whole"}
  /\ plan \in [Sessions -> Plan]
  /\ outcomes \subseteq {"Updated", "Removed"}

\* A first installation, by hand or by the install script.
LifecycleInit ==
  /\ LockInit
  /\ step = [s \in Sessions |-> "Off"]
  /\ running = [s \in Sessions |-> 0]
  /\ current = Binary(0, TRUE) /\ rollback = Nothing /\ copier = NoFile
  /\ temp = [s \in Sessions |-> Nothing]
  /\ manifest \in {"None", "Whole"}
  /\ plan = [s \in Sessions |-> [job |-> "update", temps |-> {}, rollback |-> FALSE,
                                  manifest |-> FALSE]]
  /\ outcomes = {}

At(s, stage) == pc[s] = "Held" /\ step[s] = stage
Then(s, stage) == step' = [step EXCEPT ![s] = stage]

\* The command returns, having taken the lock or not.
Finish(s) ==
  /\ Then(s, "End")
  /\ Goto(s, IF pc[s] = "Held" THEN "DropCheck" ELSE "Done")
  /\ UNCHANGED <<lock, tombstone, written, history>>

-----------------------------------------------------------------------------
(* Launch, and what comes before the lock.                                 *)

Launch(s) ==
  /\ step[s] = "Off" /\ Usable(current)
  /\ running' = [running EXCEPT ![s] = current.release]
  /\ \E job \in {"update", "keep", "purge"} :
       /\ plan' = [plan EXCEPT ![s].job = job]
       /\ Then(s, IF job = "update" THEN "Lock" ELSE "List")
  /\ UNCHANGED <<lockVars, fileVars, outcomes>>

\* Without a matching manifest the binary is not ours, unless --force-unmanaged.
RefusedUnmanaged(s) == manifest # "Whole" /\ Finish(s)

\* uninstall lists what to delete, then takes the lock.
List(s) ==
  /\ step[s] = "List" /\ pc[s] = "Idle"
  /\ \/ RefusedUnmanaged(s) /\ UNCHANGED plan
     \/ /\ plan' = [plan EXCEPT ![s].temps = {t \in Sessions : temp[t] # Nothing},
                                ![s].rollback = rollback # Nothing,
                                ![s].manifest = manifest # "None"]
        /\ Then(s, "Lock")
        /\ UNCHANGED lockVars
  /\ UNCHANGED <<fileVars, running, outcomes>>

Acquire(s) ==
  /\ step[s] = "Lock"
  /\ Begin(s) \/ AcquireStep(s)
  /\ UNCHANGED <<fileVars, step, running, plan, outcomes>>

Acquired(s) ==
  /\ At(s, "Lock")
  /\ Then(s, IF plan[s].job = "update" THEN "Check" ELSE "DeleteBinary")
  /\ UNCHANGED <<lockVars, fileVars, running, plan, outcomes>>

-----------------------------------------------------------------------------
(* update.                                                                 *)

\* Ownership, then the release, its assets and its checksum.
Check(s) ==
  /\ At(s, "Check")
  /\ RefusedUnmanaged(s) \/ (Then(s, "Fetch") /\ UNCHANGED lockVars)
  /\ UNCHANGED <<fileVars, running, plan, outcomes>>

\* A newer release is downloaded next to the binary; anything else ends here.
Fetch(s) ==
  /\ At(s, "Fetch")
  /\ \/ Finish(s) /\ UNCHANGED temp
     \/ \E v \in Releases :
          /\ v > running[s]
          /\ temp' = [temp EXCEPT ![s] = Binary(v, FALSE)]
          /\ Then(s, "Verify")
          /\ UNCHANGED lockVars
  /\ UNCHANGED <<current, rollback, manifest, copier, running, plan, outcomes>>

\* A file with the expected hash; one that was deleted meanwhile stays so.
HashMatched(s) == IF temp[s] = Nothing THEN Nothing ELSE Binary(temp[s].release, TRUE)

\* The download ended and its hash is right, or the staged file is removed.
Verify(s) ==
  /\ At(s, "Verify")
  /\ \/ /\ temp' = [temp EXCEPT ![s] = HashMatched(s)]
        /\ Then(s, "Chmod")
        /\ UNCHANGED lockVars
     \/ temp' \in {temp, [temp EXCEPT ![s] = Nothing]} /\ Finish(s)
  /\ UNCHANGED <<current, rollback, manifest, copier, running, plan, outcomes>>

\* chmod and fsync; a failure leaves the staged file behind.
Chmod(s) ==
  /\ At(s, "Chmod")
  /\ Finish(s) \/ (temp[s] # Nothing /\ Then(s, "TestTemp") /\ UNCHANGED lockVars)
  /\ UNCHANGED <<fileVars, running, plan, outcomes>>

\* Fault: the candidate is not run before it replaces the binary.
PassesUntested(b) == TRUE

\* A self-test may pass.  It may fail for any binary: spawning a process can.
Passes(b) == Usable(b)

TestTemp(s) ==
  /\ At(s, "TestTemp")
  /\ \/ Passes(temp[s]) /\ Then(s, "OldRollback") /\ UNCHANGED <<lockVars, temp>>
     \/ temp' \in {temp, [temp EXCEPT ![s] = Nothing]} /\ Finish(s)
  /\ UNCHANGED <<current, rollback, manifest, copier, running, plan, outcomes>>

OldRollback(s) ==
  /\ At(s, "OldRollback")
  /\ \/ rollback' = Nothing /\ Then(s, "Copy") /\ UNCHANGED lockVars
     \/ Finish(s) /\ UNCHANGED rollback
  /\ UNCHANGED <<current, temp, manifest, copier, running, plan, outcomes>>

\* The copy is created, empty at first; it fails if there is no binary.
Copy(s) ==
  /\ At(s, "Copy")
  /\ \/ Finish(s) /\ UNCHANGED <<rollback, copier>>
     \/ /\ current # Nothing /\ rollback = Nothing
        /\ rollback' = Binary(current.release, FALSE) /\ copier' = s
        /\ Then(s, "Copied")
        /\ UNCHANGED lockVars
  /\ UNCHANGED <<current, temp, manifest, running, plan, outcomes>>

\* Fault: a copy that failed half-way is as good as any.
CopyAnyway == rollback

\* The copy once its bytes, its sync and its mode are in place.  A copy that is gone
\* fails the mode; another session's, in its place, is not written to.
CompleteCopy == Binary(rollback.release, TRUE)

Copied(s) ==
  /\ At(s, "Copied")
  /\ \/ Finish(s) /\ UNCHANGED rollback
     \/ /\ rollback # Nothing
        /\ rollback' = IF copier = s THEN CompleteCopy ELSE rollback
        /\ Then(s, "Replace")
        /\ UNCHANGED lockVars
  /\ UNCHANGED <<current, temp, manifest, copier, running, plan, outcomes>>

\* The atomic rename; if it fails, both siblings are removed.
Replace(s) ==
  /\ At(s, "Replace")
  /\ \/ /\ temp[s] # Nothing
        /\ current' = temp[s] /\ temp' = [temp EXCEPT ![s] = Nothing]
        /\ Then(s, "SyncDir")
        /\ UNCHANGED <<lockVars, rollback>>
     \/ /\ temp' \in {temp, [temp EXCEPT ![s] = Nothing]}
        /\ rollback' \in {rollback, Nothing}
        /\ Finish(s)
        /\ UNCHANGED current
  /\ UNCHANGED <<manifest, copier, running, plan, outcomes>>

SyncDir(s) ==
  /\ At(s, "SyncDir")
  /\ Finish(s) \/ (Then(s, "TestCurrent") /\ UNCHANGED lockVars)
  /\ UNCHANGED <<fileVars, running, plan, outcomes>>

TestCurrent(s) ==
  /\ At(s, "TestCurrent")
  /\ \/ /\ Passes(current)
        /\ outcomes' = outcomes \cup {"Updated"}
        /\ Then(s, "Manifest")
     \/ Then(s, "Restore") /\ UNCHANGED outcomes
  /\ UNCHANGED <<lockVars, fileVars, running, plan>>

Restore(s) ==
  /\ At(s, "Restore")
  /\ \/ rollback # Nothing /\ current' = rollback /\ rollback' = Nothing
     \/ UNCHANGED <<current, rollback>>
  /\ Finish(s)
  /\ UNCHANGED <<temp, manifest, copier, running, plan, outcomes>>

\* The manifest is truncated and written in place; a failure is a warning.
Manifest(s) ==
  /\ At(s, "Manifest")
  /\ \/ manifest' = "Torn" /\ Then(s, "ManifestSaved") /\ UNCHANGED lockVars
     \/ Finish(s) /\ UNCHANGED manifest
  /\ UNCHANGED <<current, temp, rollback, copier, running, plan, outcomes>>

ManifestSaved(s) ==
  /\ At(s, "ManifestSaved")
  /\ manifest' \in {"Whole", "Torn"}
  /\ Finish(s)
  /\ UNCHANGED <<current, temp, rollback, copier, running, plan, outcomes>>

-----------------------------------------------------------------------------
(* uninstall, in the order of its list; the first failure ends it.         *)

DeleteBinary(s) ==
  /\ At(s, "DeleteBinary")
  /\ \/ current' = Nothing /\ Then(s, "DeleteData") /\ UNCHANGED lockVars
     \/ current # Nothing /\ Finish(s) /\ UNCHANGED current
  /\ UNCHANGED <<temp, rollback, manifest, copier, running, plan, outcomes>>

\* --purge deletes the data directory, and with it the lock file it holds; a
\* deletion that fails may have got that far.
DeleteData(s) ==
  /\ At(s, "DeleteData")
  /\ \/ Then(s, "DeleteSiblings") /\ UNCHANGED pc
     \/ Then(s, "End") /\ Goto(s, "DropCheck")
  /\ IF plan[s].job = "purge"
     THEN /\ \/ lock' = NoFile /\ tombstone' = NoFile
             \/ step'[s] = "End" /\ UNCHANGED <<lock, tombstone>>
          /\ manifest' \in IF step'[s] = "End" THEN {"None", manifest} ELSE {"None"}
     ELSE /\ manifest' = IF plan[s].manifest /\ step'[s] # "End" THEN "None" ELSE manifest
          /\ UNCHANGED <<lock, tombstone>>
  /\ Robbing(s)
  /\ UNCHANGED <<written, contended, overlapped>>
  /\ UNCHANGED <<current, temp, rollback, copier, running, plan, outcomes>>

\* The staged files and the rollback copy that were listed before the lock.
DeleteSiblings(s) ==
  /\ At(s, "DeleteSiblings")
  /\ \/ /\ temp' = [t \in Sessions |-> IF t \in plan[s].temps THEN Nothing ELSE temp[t]]
        /\ rollback' = IF plan[s].rollback THEN Nothing ELSE rollback
        /\ outcomes' = outcomes \cup {"Removed"}
     \/ /\ \E some \in SUBSET plan[s].temps :
             temp' = [t \in Sessions |-> IF t \in some THEN Nothing ELSE temp[t]]
        /\ UNCHANGED <<rollback, outcomes>>
  /\ Finish(s)
  /\ UNCHANGED <<current, copier, manifest, running, plan>>

-----------------------------------------------------------------------------

SessionStep(s) ==
  \/ List(s) \/ Acquire(s) \/ Acquired(s)
  \/ Check(s) \/ Fetch(s) \/ Verify(s) \/ Chmod(s) \/ TestTemp(s) \/ OldRollback(s)
  \/ Copy(s) \/ Copied(s) \/ Replace(s) \/ SyncDir(s) \/ TestCurrent(s) \/ Restore(s)
  \/ Manifest(s) \/ ManifestSaved(s)
  \/ DeleteBinary(s) \/ DeleteData(s) \/ DeleteSiblings(s)
  \/ DropStep(s) /\ UNCHANGED <<fileVars, step, running, plan, outcomes>>

Die(s) == Crash(s) /\ UNCHANGED <<fileVars, step, running, plan, outcomes>>

LifecycleNext == \E s \in Sessions : Launch(s) \/ SessionStep(s) \/ Die(s)

\* A running process gets on: its downloads and its file system calls end.
LifecycleSpec ==
  /\ LifecycleInit /\ [][LifecycleNext]_lifecycleVars
  /\ \A s \in Sessions : WF_lifecycleVars(SessionStep(s))

-----------------------------------------------------------------------------
(* Properties.                                                             *)

\* Whatever fails, and wherever a process dies, the binary is complete and runs,
\* or was uninstalled, as long as no session had its lock taken away while it lived:
\* an update never leaves a half-written or untested one.
CurrentUsable == robbed = {} => current = Nothing \/ Usable(current)

\* From the replacement of the binary to the end of its self-test, the copy that
\* a failed test is restored from is complete and runs, as long as no session had
\* its lock taken away.
RecoveryPathExists ==
  robbed = {} =>
    \A s \in Sessions : pc[s] = "Held" /\ step[s] \in {"SyncDir", "TestCurrent", "Restore"}
      => Usable(rollback)

\* Nobody waits for the lock: a session that is launched ends, also when it has
\* to try again for the lock, or dies.
SessionsEnd == \A s \in Sessions : step[s] # "Off" ~> pc[s] \in Ended

\* Purged(s): the lock file of s went with the data directory, which s deleted.
Purged(s) == plan[s].job = "purge" /\ step[s] = "DeleteSiblings"

\* However sessions race, two work on the files at once only if another session took
\* the lock file of one of them, or one is a purge that has deleted its own: create_new
\* lets in nobody else.
OneAtATime ==
  Cardinality({s \in Sessions : pc[s] = "Held" /\ s \notin robbed /\ ~ Purged(s)}) <= 1

Quiet == \A s \in Sessions : pc[s] \in {"Done", "Refused", "Failed"} \/ step[s] = "Off"

\* The previous binary is kept until the next successful update: after updates
\* that succeeded or returned an error, none of which had its lock taken away, there
\* is a rollback copy.
RollbackRetained ==
  robbed = {} /\ Quiet /\ "Updated" \in outcomes /\ (\A s \in Sessions : plan[s].job = "update")
    => Usable(rollback)

=============================================================================
