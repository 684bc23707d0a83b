---------------------------- MODULE LifecycleProofs ----------------------------
(* Proofs about Lifecycle with the lock in it, for every set of sessions and   *)
(* releases and however they race: who can be inside the lock together, what   *)
(* it takes to lose one's lock to another, who is refused; and, until somebody *)
(* loses it, that the binary stays usable and a failed update can be undone.   *)
EXTENDS Lifecycle, FiniteSetTheorems, TLAPS

-----------------------------------------------------------------------------
(* The commands: the inductive invariant.                                  *)

\* What a session does fits where it is with the lock.
StepFits(s) ==
  /\ step[s] \in {"Off", "List"} => pc[s] = "Idle"
  /\ pc[s] \in Acquiring => step[s] = "Lock"
  /\ pc[s] = "Held" => step[s] \notin {"Off", "List", "End"}
  /\ pc[s] \in {"DropCheck", "DropRemove"} => step[s] = "End"

\* The lock file of a purge goes with the data directory, before the purge ends.
LockGone(s) == plan[s].job = "purge" /\ step[s] = "DeleteSiblings"

\* The file of a session that was not robbed is at the path as long as the session
\* relies on it.
LockOfSession(s) ==
  /\ s \notin robbed =>
       (pc[s] \in {"Write", "DropRemove"} \/ (pc[s] = "Held" /\ ~ LockGone(s)) => lock = s)
  /\ pc[s] \in Holding => s \in written
  /\ s \in written => pc[s] \in Holding \cup Ended
  /\ lock = s => pc[s] \in {"Write"} \cup Holding \cup Ended

\* Whoever acquires beside another has it on record; one that acquires alone renames
\* only a file that nobody needs.
RaceFits(s) ==
  /\ pc[s] \in Acquiring => \A t \in Sessions \ {s} : pc[t] \in Acquiring => s \in overlapped
  /\ pc[s] \in Acquiring => \A t \in Sessions : pc[t] \in Holding => s \in contended \cup overlapped
  /\ pc[s] = "Rename" /\ s \notin overlapped => lock = NoFile \/ pc[lock] \in Ended
  /\ pc[s] \in {"Remove", "Again"} /\ s \notin overlapped => lock = NoFile
  /\ pc[s] = "Refused" => s \in contended \cup overlapped

\* What an update can rely on at each step; nothing is left of the binary where the
\* lock is gone.
FilesFit(s) ==
  /\ pc[s] = "Held" /\ LockGone(s) => current = Nothing
  /\ At(s, "DeleteData") => current = Nothing
  /\ pc[s] = "Held" /\ step[s] \in {"Copied", "Replace", "SyncDir", "TestCurrent", "Restore"}
       => current # Nothing
  /\ pc[s] = "Held" /\ step[s] \in {"OldRollback", "Copy", "Copied", "Replace"}
       => current = Nothing \/ Usable(temp[s])
  /\ At(s, "Copied") => rollback # Nothing /\ rollback.release = current.release /\ copier = s
  /\ pc[s] = "Held" /\ step[s] \in {"Replace", "SyncDir", "TestCurrent", "Restore"}
       => Usable(rollback)

\* A session is past its download, which it keeps to itself.
Staged(s) ==
  /\ plan[s].job = "update"
  /\ step[s] \notin {"Off", "Lock", "List", "Check", "Fetch",
                     "DeleteBinary", "DeleteData", "DeleteSiblings"}

\* An uninstall that works has on its list downloads of sessions that ended only.
StagingFits(s) ==
  /\ step[s] \in {"Check", "Fetch"} => plan[s].job = "update"
  /\ temp[s] # Nothing => Staged(s)
  /\ \A u \in plan[s].temps : Staged(u)
  /\ pc[s] = "Held" /\ step[s] \in {"DeleteBinary", "DeleteData", "DeleteSiblings"}
       => \A u \in plan[s].temps : pc[u] # "Held"
  /\ At(s, "Verify") => temp[s] # Nothing

\* The part of the invariant that is about the lock.
LockPart ==
  /\ LockTypeOK /\ step \in [Sessions -> Step]
  /\ \A s \in Sessions : StepFits(s)
  /\ \A s \in Sessions : LockOfSession(s)
  /\ \A s \in Sessions : RaceFits(s)
  /\ TheftNeedsRace

\* It holds with the types whatever happens; the files fit as long as nobody was robbed.
BaseInv == LifecycleTypeOK /\ LockPart

CurrentRuns == current = Nothing \/ Usable(current)

CalmInv ==
  /\ BaseInv
  /\ \A s \in Sessions : FilesFit(s)
  /\ \A s \in Sessions : StagingFits(s)
  /\ CurrentRuns
  /\ robbed = {}

LifecycleInv == BaseInv /\ (robbed = {} => CalmInv)

\* A binary that ran, or was copied from one that did, is usable; the first is release 0.
LEMMA UsableBinaries ==
  /\ \A v \in Releases, complete \in BOOLEAN :
       /\ Binary(v, complete) \in Binaries /\ Binary(v, complete) # Nothing
       /\ Binary(v, complete).release = v /\ Binary(v, complete).whole = complete
  /\ Usable(Binary(0, TRUE))
  /\ \A b \in Binaries \cup {Nothing} : Usable(b) => b \in Binaries /\ b.release \in Releases
<1>1. \A v \in Releases, complete \in BOOLEAN :
       /\ Binary(v, complete) \in Binaries
       /\ Binary(v, complete).release = v /\ Binary(v, complete).whole = complete
  BY DEF Binary, Binaries
<1>2. \A v \in Releases, complete \in BOOLEAN : Binary(v, complete) # Nothing
  BY <1>1, LifecycleAssumption
<1>3. Usable(Binary(0, TRUE))
  BY <1>1, <1>2, LifecycleAssumption DEF Usable
<1>4. \A b \in Binaries : b.release \in Releases
  BY DEF Binaries
<1> QED BY <1>1, <1>2, <1>3, <1>4 DEF Usable

\* An installation starts inside the invariant.
LEMMA LifecycleInvInit == LifecycleInit => LifecycleInv
<1> SUFFICES ASSUME LifecycleInit PROVE LifecycleInv
  OBVIOUS
<1>1. /\ pc = [s \in Sessions |-> "Idle"] /\ step = [s \in Sessions |-> "Off"]
      /\ lock = NoFile /\ written = {} /\ tombstone = NoFile
      /\ contended = {} /\ overlapped = {} /\ robbed = {}
  BY DEF LifecycleInit, LockInit
<1>2. LifecycleTypeOK /\ LockTypeOK /\ step \in [Sessions -> Step]
  <2>1. LockTypeOK
    BY <1>1 DEF LockTypeOK
  <2>2. step \in [Sessions -> Step]
    BY <1>1 DEF Step
  <2>3. current \in Binaries /\ rollback = Nothing
    BY UsableBinaries, LifecycleAssumption DEF LifecycleInit
  <2>4. plan \in [Sessions -> Plan]
    BY DEF LifecycleInit, Plan
  <2> QED BY <2>1, <2>2, <2>3, <2>4, LifecycleAssumption DEF LifecycleInit, LifecycleTypeOK
<1>3. \A s \in Sessions : StepFits(s) /\ LockOfSession(s) /\ RaceFits(s) /\ FilesFit(s)
  BY <1>1, LockAssumption DEF StepFits, LockOfSession, RaceFits, FilesFit, At, LockGone,
                               Acquiring, Holding, Ended
<1>4. TheftNeedsRace
  BY <1>1 DEF TheftNeedsRace
<1>5. CurrentRuns
  BY UsableBinaries DEF LifecycleInit, CurrentRuns
<1>6. \A s \in Sessions : StagingFits(s)
  BY <1>1 DEF LifecycleInit, StagingFits, At
<1> QED BY <1>1, <1>2, <1>3, <1>4, <1>5, <1>6 DEF LifecycleInv, CalmInv, BaseInv, LockPart

-----------------------------------------------------------------------------
(* The lock, however sessions race.                                        *)

\* A holder goes on; only a purge gives up its file on the way.
LEMMA GoingOnKeepsLock ==
  ASSUME LockPart, NEW s \in Sessions, pc[s] = "Held", ~ LockGone(s),
         NEW stage \in Step \ {"Off", "List", "End"}, Then(s, stage),
         UNCHANGED <<lockVars, plan>>, stage = "DeleteSiblings" => plan[s].job # "purge"
  PROVE  LockPart'
<1>1. UNCHANGED <<pc, lock, tombstone, written, contended, overlapped, robbed, plan>>
  BY DEF lockVars, history
<1>2. /\ step' \in [Sessions -> Step] /\ step'[s] = stage
      /\ \A t \in Sessions \ {s} : step'[t] = step[t]
  BY DEF LockPart, Then
<1>3. \A t \in Sessions : StepFits(t)'
  BY <1>1, <1>2 DEF LockPart, StepFits, Acquiring
<1>4. \A t \in Sessions : LockOfSession(t)'
  BY <1>1, <1>2 DEF LockPart, LockOfSession, LockGone
<1>5. \A t \in Sessions : RaceFits(t)'
  BY <1>1 DEF LockPart, RaceFits
<1>6. LockTypeOK' /\ TheftNeedsRace'
  BY <1>1 DEF LockPart, LockTypeOK, TheftNeedsRace
<1> QED BY <1>2, <1>3, <1>4, <1>5, <1>6 DEF LockPart

\* Whoever takes a file from the path robs the one that needs it, or nobody.
LEMMA TakingRobs ==
  ASSUME LockPart, NEW s \in Sessions, lock' \in {lock, NoFile}, Robbing(s)
  PROVE  /\ robbed \subseteq robbed' /\ robbed' \subseteq Sessions
         /\ \A t \in Sessions \ {s} : lock = t /\ lock' # t /\ pc[t] \notin Ended => t \in robbed'
         /\ lock \in {s, NoFile} \/ lock' = lock \/ pc[lock] \in Ended => robbed' = robbed
BY LockAssumption DEF LockPart, LockTypeOK, Robbing

\* A holder ends: it will look for its own file, which may be gone with a purge.
LEMMA EndingKeepsLock ==
  ASSUME LockPart, NEW s \in Sessions, pc[s] = "Held", Then(s, "End"), Goto(s, "DropCheck"),
         lock' \in {lock, NoFile}, Robbing(s), lock' # lock => ~ LockGone(s),
         tombstone' \in {tombstone, NoFile}, UNCHANGED <<written, contended, overlapped, plan>>
  PROVE  LockPart'
<1>1. /\ step' \in [Sessions -> Step] /\ step'[s] = "End" /\ pc'[s] = "DropCheck"
      /\ \A t \in Sessions \ {s} : step'[t] = step[t] /\ pc'[t] = pc[t]
  BY DEF LockPart, LockTypeOK, Then, Goto, Step
<1>2. LockTypeOK'
  BY TakingRobs DEF LockPart, LockTypeOK, Goto, Holding
<1>3. \A t \in Sessions : StepFits(t)'
  BY <1>1 DEF LockPart, StepFits, Acquiring
<1>4. \A t \in Sessions : LockOfSession(t)'
  <2>1. \A t \in Sessions : LockOfSession(t)
    BY DEF LockPart
  <2>2. LockOfSession(s)'
    BY <1>1, <2>1, LockAssumption DEF LockOfSession, Holding, Ended
  <2>3. ASSUME NEW t \in Sessions \ {s} PROVE LockOfSession(t)'
    BY <1>1, <2>1, TakingRobs, LockAssumption DEF LockOfSession, LockGone, Holding, Ended
  <2> QED BY <2>2, <2>3
<1>5. \A t \in Sessions : RaceFits(t)'
  BY <1>1, LockAssumption DEF LockPart, LockTypeOK, RaceFits, LockOfSession,
                               Acquiring, Holding, Ended
<1>6. TheftNeedsRace'
  BY TakingRobs DEF LockPart, TheftNeedsRace, LockOfSession
<1> QED BY <1>1, <1>2, <1>3, <1>4, <1>5, <1>6 DEF LockPart

\* A purge deletes the file at the path and goes on without it.
LEMMA PurgingKeepsLock ==
  ASSUME LockPart, NEW s \in Sessions, pc[s] = "Held", ~ LockGone(s), Then(s, "DeleteSiblings"),
         lock' \in {lock, NoFile}, Robbing(s), lock' # lock => plan[s].job = "purge",
         tombstone' \in {tombstone, NoFile}, UNCHANGED <<pc, written, contended, overlapped, plan>>
  PROVE  LockPart'
<1>1. /\ step' \in [Sessions -> Step] /\ step'[s] = "DeleteSiblings"
      /\ \A t \in Sessions \ {s} : step'[t] = step[t]
  BY DEF LockPart, Then, Step
<1>2. LockTypeOK'
  BY TakingRobs DEF LockPart, LockTypeOK
<1>3. \A t \in Sessions : StepFits(t)'
  BY <1>1 DEF LockPart, StepFits, Acquiring
<1>4. \A t \in Sessions : LockOfSession(t)'
  <2>1. \A t \in Sessions : LockOfSession(t)
    BY DEF LockPart
  <2>2. LockOfSession(s)'
    BY <1>1, <2>1, TakingRobs, LockAssumption DEF LockOfSession, LockGone, Holding, Ended
  <2>3. ASSUME NEW t \in Sessions \ {s} PROVE LockOfSession(t)'
    BY <1>1, <2>1, TakingRobs, LockAssumption DEF LockOfSession, LockGone, Holding, Ended
  <2> QED BY <2>2, <2>3
<1>5. \A t \in Sessions : RaceFits(t)'
  BY <1>1, LockAssumption DEF LockPart, LockTypeOK, RaceFits, Acquiring, Holding, Ended
<1>6. TheftNeedsRace'
  BY TakingRobs DEF LockPart, TheftNeedsRace, LockOfSession
<1> QED BY <1>1, <1>2, <1>3, <1>4, <1>5, <1>6 DEF LockPart

\* The lock's own steps, call by call.
LEMMA AcquiringKeepsLock ==
  ASSUME LockPart, NEW s \in Sessions, step[s] = "Lock", Begin(s) \/ AcquireStep(s),
         UNCHANGED <<step, plan>>
  PROVE  LockPart'
<1> USE LockAssumption DEF LockPart, LockTypeOK, StepFits, LockOfSession, RaceFits, TheftNeedsRace,
                           LockGone, Acquiring, Holding, Ended, Goto, history
<1>1. CASE Begin(s)
  BY <1>1 DEF Begin
<1>2. CASE Create(s)
  BY <1>2 DEF Create, Created
<1>3. CASE Read(s)
  BY <1>3 DEF Read, Stale
<1>4. CASE Rename(s)
  BY <1>4 DEF Rename, Robbing
<1>5. CASE Remove(s)
  BY <1>5 DEF Remove
<1>6. CASE Again(s)
  BY <1>6 DEF Again, Created
<1>7. CASE Write(s)
  BY <1>7 DEF Write
<1> QED BY <1>1, <1>2, <1>3, <1>4, <1>5, <1>6, <1>7 DEF AcquireStep

\* The drop of the guard, and a death at any point.
LEMMA LeavingKeepsLock ==
  ASSUME LockPart, NEW s \in Sessions, DropStep(s) \/ Crash(s), UNCHANGED <<step, plan>>
  PROVE  LockPart'
<1> USE LockAssumption DEF LockPart, LockTypeOK, StepFits, LockOfSession, RaceFits, TheftNeedsRace,
                           LockGone, Acquiring, Holding, Ended, Goto, history
<1>1. CASE DropCheck(s)
  BY <1>1 DEF DropCheck, OwnToken
<1>2. CASE DropRemove(s)
  BY <1>2 DEF DropRemove, Robbing
<1>3. CASE Crash(s)
  BY <1>3 DEF Crash
<1> QED BY <1>1, <1>2, <1>3 DEF DropStep

-----------------------------------------------------------------------------
(* The types, and the lock through the steps of the commands.              *)

\* What the files may become.
FilesTyped ==
  /\ {current', rollback'} \subseteq Binaries \cup {Nothing}
  /\ temp' \in [Sessions -> Binaries \cup {Nothing}]
  /\ copier' \in Sessions \cup {NoFile}
  /\ manifest' \in {"None", "Torn", "Whole"}
  /\ outcomes' \subseteq {"Updated", "Removed"}

FileStep(s) ==
  \/ Acquired(s) \/ Check(s) \/ Fetch(s) \/ Verify(s) \/ Chmod(s) \/ TestTemp(s) \/ OldRollback(s)
  \/ Copy(s) \/ Copied(s) \/ Replace(s) \/ SyncDir(s) \/ TestCurrent(s) \/ Restore(s)
  \/ Manifest(s) \/ ManifestSaved(s) \/ DeleteBinary(s) \/ DeleteSiblings(s)

\* A holder works on files of their types.
LEMMA FilesStayTyped ==
  ASSUME LifecycleTypeOK, NEW s \in Sessions, FileStep(s) \/ DeleteData(s)
  PROVE  FilesTyped
<1>1. /\ {current, rollback} \subseteq Binaries \cup {Nothing}
      /\ temp \in [Sessions -> Binaries \cup {Nothing}]
      /\ copier \in Sessions \cup {NoFile}
      /\ manifest \in {"None", "Torn", "Whole"}
      /\ outcomes \subseteq {"Updated", "Removed"}
  BY DEF LifecycleTypeOK
<1>2. CASE Acquired(s) \/ Check(s) \/ Chmod(s) \/ SyncDir(s) \/ TestCurrent(s)
  BY <1>1, <1>2 DEF FilesTyped, Acquired, Check, Chmod, SyncDir, TestCurrent, fileVars
<1>3. CASE Fetch(s)
  <2>1. \A v \in Releases : Binary(v, FALSE) \in Binaries
    BY UsableBinaries
  <2>2. temp' \in [Sessions -> Binaries \cup {Nothing}]
    <3>1. CASE UNCHANGED temp
      BY <1>1, <3>1
    <3>2. CASE \E v \in Releases : temp' = [temp EXCEPT ![s] = Binary(v, FALSE)]
      BY <1>1, <2>1, <3>2
    <3> QED BY <1>3, <3>1, <3>2 DEF Fetch
  <2> QED BY <1>1, <1>3, <2>2 DEF FilesTyped, Fetch
<1>4. CASE Verify(s)
  <2>1. HashMatched(s) \in Binaries \cup {Nothing}
    <3>1. CASE temp[s] = Nothing
      BY <3>1 DEF HashMatched
    <3>2. CASE temp[s] # Nothing
      <4>1. temp[s] \in Binaries /\ temp[s].release \in Releases
        BY <1>1, <3>2 DEF Binaries
      <4> QED BY <3>2, <4>1, UsableBinaries DEF HashMatched
    <3> QED BY <3>1, <3>2
  <2> QED BY <1>1, <1>4, <2>1 DEF FilesTyped, Verify
<1>5. CASE TestTemp(s) \/ OldRollback(s) \/ Replace(s) \/ Restore(s)
  BY <1>1, <1>5 DEF FilesTyped, TestTemp, OldRollback, Replace, Restore
<1>6. CASE Copy(s)
  <2>1. current # Nothing => Binary(current.release, FALSE) \in Binaries
    BY <1>1, UsableBinaries DEF Binaries
  <2> QED BY <1>1, <1>6, <2>1 DEF FilesTyped, Copy
<1>7. CASE Copied(s)
  <2>1. rollback # Nothing => CompleteCopy \in Binaries
    BY <1>1, UsableBinaries DEF CompleteCopy, Binaries
  <2> QED BY <1>1, <1>7, <2>1 DEF FilesTyped, Copied
<1>8. CASE Manifest(s) \/ ManifestSaved(s) \/ DeleteBinary(s) \/ DeleteData(s)
  BY <1>1, <1>8 DEF FilesTyped, Manifest, ManifestSaved, DeleteBinary, DeleteData
<1>9. CASE DeleteSiblings(s)
  BY <1>1, <1>9 DEF FilesTyped, DeleteSiblings
<1> QED BY <1>2, <1>3, <1>4, <1>5, <1>6, <1>7, <1>8, <1>9 DEF FileStep

\* A holder ends, or goes on with the lock as it is.
LEMMA FileStepShape ==
  ASSUME NEW s \in Sessions, FileStep(s)
  PROVE  /\ pc[s] = "Held" /\ UNCHANGED <<running, plan>>
         /\ \/ Finish(s)
            \/ /\ ~ LockGone(s) /\ UNCHANGED lockVars
               /\ \E stage \in Step \ {"Off", "List", "End", "DeleteSiblings"} : Then(s, stage)
<1> USE DEF At, LockGone, Step, RefusedUnmanaged
<1>1. CASE Acquired(s) \/ Check(s) \/ Fetch(s) \/ Verify(s) \/ Chmod(s) \/ TestTemp(s)
  BY <1>1 DEF Acquired, Check, Fetch, Verify, Chmod, TestTemp
<1>2. CASE OldRollback(s) \/ Copy(s) \/ Copied(s) \/ Replace(s) \/ SyncDir(s)
  BY <1>2 DEF OldRollback, Copy, Copied, Replace, SyncDir
<1>3. CASE TestCurrent(s) \/ Restore(s) \/ Manifest(s) \/ ManifestSaved(s)
  BY <1>3 DEF TestCurrent, Restore, Manifest, ManifestSaved
<1>4. CASE DeleteBinary(s) \/ DeleteSiblings(s)
  BY <1>4 DEF DeleteBinary, DeleteSiblings
<1> QED BY <1>1, <1>2, <1>3, <1>4 DEF FileStep

\* The steps of a holder keep the lock's part.
LEMMA HolderKeepsBase ==
  ASSUME BaseInv, NEW s \in Sessions, FileStep(s) \/ DeleteData(s)
  PROVE  BaseInv'
<1>1. FilesTyped /\ LockPart /\ LifecycleTypeOK
  BY FilesStayTyped DEF BaseInv
<1>2. pc[s] = "Held" /\ UNCHANGED <<running, plan>>
  BY FileStepShape DEF DeleteData, At
<1>3. LockPart'
  <2>1. CASE Finish(s)
    <3>1. /\ Then(s, "End") /\ Goto(s, "DropCheck") /\ Robbing(s)
          /\ UNCHANGED <<lock, tombstone, written, contended, overlapped>>
      BY <1>2, <2>1 DEF Finish, history, Robbing
    <3>2. lock' \in {lock, NoFile} /\ tombstone' \in {tombstone, NoFile} /\ lock' = lock
      BY <3>1
    <3> QED BY <1>1, <1>2, <3>1, <3>2, EndingKeepsLock
  <2>2. ASSUME NEW stage \in Step \ {"Off", "List", "End", "DeleteSiblings"}, Then(s, stage),
               ~ LockGone(s), UNCHANGED lockVars
        PROVE  LockPart'
    <3>1. stage \in Step \ {"Off", "List", "End"} /\ stage # "DeleteSiblings"
      OBVIOUS
    <3> QED BY <1>1, <1>2, <2>2, <3>1, GoingOnKeepsLock
  <2>3. CASE DeleteData(s)
    <3>1. /\ step[s] = "DeleteData" /\ ~ LockGone(s) /\ Robbing(s)
          /\ UNCHANGED <<written, contended, overlapped>>
          /\ \/ Then(s, "DeleteSiblings") /\ UNCHANGED pc
             \/ Then(s, "End") /\ Goto(s, "DropCheck")
      BY <2>3 DEF DeleteData, At, LockGone
    <3>2. /\ lock' \in {lock, NoFile} /\ (lock' # lock => plan[s].job = "purge")
          /\ tombstone' \in {tombstone, NoFile}
      BY <2>3 DEF DeleteData
    <3>3. CASE Then(s, "End") /\ Goto(s, "DropCheck")
      BY <1>1, <1>2, <3>1, <3>2, <3>3, EndingKeepsLock
    <3>4. CASE Then(s, "DeleteSiblings") /\ UNCHANGED pc
      BY <1>1, <1>2, <3>1, <3>2, <3>4, PurgingKeepsLock
    <3> QED BY <3>1, <3>3, <3>4
  <2> QED BY <2>1, <2>2, <2>3, FileStepShape
<1> QED BY <1>1, <1>2, <1>3 DEF BaseInv, LifecycleTypeOK, LockPart, FilesTyped

\* A session that is launched, or lists what it will delete.
Starts(s) ==
  /\ pc[s] = "Idle" /\ step[s] \in {"Off", "List"}
  /\ UNCHANGED <<fileVars, lock, tombstone, written, history, outcomes>>
  /\ running' \in [Sessions -> Releases]
  /\ plan' \in [Sessions -> Plan] /\ \A t \in Sessions \ {s} : plan'[t] = plan[t]
  /\ plan'[s].temps \in {plan[s].temps, {t \in Sessions : temp[t] # Nothing}}
  /\ \/ UNCHANGED pc /\ \E stage \in {"Lock", "List"} : Then(s, stage)
     \/ Goto(s, "Done") /\ Then(s, "End")

LEMMA StartShape ==
  ASSUME BaseInv, NEW s \in Sessions, Launch(s) \/ List(s)
  PROVE  Starts(s)
<1>1. /\ plan \in [Sessions -> Plan] /\ plan[s] \in Plan /\ running \in [Sessions -> Releases]
      /\ current \in Binaries \cup {Nothing} /\ StepFits(s)
  BY DEF BaseInv, LockPart, LifecycleTypeOK
<1>2. CASE Launch(s)
  <2>1. PICK job \in {"update", "keep", "purge"} :
          /\ plan' = [plan EXCEPT ![s].job = job]
          /\ Then(s, IF job = "update" THEN "Lock" ELSE "List")
    BY <1>2 DEF Launch
  <2>2. /\ plan' \in [Sessions -> Plan] /\ plan'[s].temps = plan[s].temps
        /\ \A t \in Sessions \ {s} : plan'[t] = plan[t]
    BY <1>1, <2>1 DEF Plan
  <2>3. current.release \in Releases
    BY <1>1, <1>2, UsableBinaries DEF Launch
  <2>4. running' \in [Sessions -> Releases]
    BY <1>1, <1>2, <2>3 DEF Launch
  <2>5. pc[s] = "Idle" /\ step[s] = "Off"
    BY <1>1, <1>2, SMTT(30) DEF Launch, StepFits
  <2> QED BY <1>2, <2>1, <2>2, <2>4, <2>5 DEF Starts, Launch, lockVars
<1>3. CASE List(s)
  <2>0. pc[s] = "Idle" /\ step[s] = "List" /\ UNCHANGED <<fileVars, running, outcomes>>
    BY <1>3 DEF List
  <2>1. CASE RefusedUnmanaged(s) /\ UNCHANGED plan
    <3>1. /\ Goto(s, "Done") /\ Then(s, "End") /\ UNCHANGED <<lock, tombstone, written, history>>
      BY <2>0, <2>1 DEF RefusedUnmanaged, Finish
    <3> QED BY <1>1, <2>0, <2>1, <3>1, ZenonT(60) DEF Starts
  <2>2. CASE /\ plan' = [plan EXCEPT ![s].temps = {t \in Sessions : temp[t] # Nothing},
                                    ![s].rollback = rollback # Nothing,
                                    ![s].manifest = manifest # "None"]
             /\ Then(s, "Lock") /\ UNCHANGED lockVars
    <3> DEFINE listed == {t \in Sessions : temp[t] # Nothing}
               hasRollback == rollback # Nothing
               hasManifest == manifest # "None"
               new == [plan[s] EXCEPT !.temps = listed, !.rollback = hasRollback,
                                      !.manifest = hasManifest]
    <3>1. listed \in SUBSET Sessions /\ hasRollback \in BOOLEAN /\ hasManifest \in BOOLEAN
      OBVIOUS
    <3>2. plan' = [plan EXCEPT ![s] = new]
      BY <1>1, <2>2
    <3> HIDE DEF listed, hasRollback, hasManifest
    <3>3. new \in Plan /\ new.temps = listed
      BY <1>1, <3>1 DEF Plan
    <3> HIDE DEF new
    <3>4. /\ plan' \in [Sessions -> Plan] /\ plan'[s].temps = listed
          /\ \A t \in Sessions \ {s} : plan'[t] = plan[t]
      BY <1>1, <3>2, <3>3
    <3>5. plan'[s].temps = {t \in Sessions : temp[t] # Nothing}
      BY <3>4, SMTT(30) DEF listed
    <3> QED BY <1>1, <2>0, <2>2, <3>4, <3>5 DEF Starts, lockVars
  <2> QED BY <1>3, <2>1, <2>2 DEF List
<1> QED BY <1>2, <1>3

\* Where a session that starts gets to; it has no lock file.
LEMMA StartGoes ==
  ASSUME BaseInv, NEW s \in Sessions, Starts(s)
  PROVE  /\ step' \in [Sessions -> Step] /\ pc'[s] \in {"Idle", "Done"}
         /\ pc' \in [Sessions -> {"Idle"} \cup Acquiring \cup Holding \cup Ended]
         /\ \A t \in Sessions \ {s} : step'[t] = step[t] /\ pc'[t] = pc[t]
         /\ step'[s] \in {"Lock", "List", "End"}
         /\ step'[s] = "End" <=> pc'[s] = "Done"
         /\ lock # s /\ s \notin written
<1>1. pc \in [Sessions -> {"Idle"} \cup Acquiring \cup Holding \cup Ended]
      /\ step \in [Sessions -> Step] /\ pc[s] = "Idle" /\ LockOfSession(s)
  BY DEF Starts, BaseInv, LockPart, LockTypeOK
<1>2. lock # s /\ s \notin written
  BY <1>1 DEF LockOfSession, Holding, Ended
<1> QED BY <1>1, <1>2 DEF Starts, Then, Goto, Step, Ended

LEMMA StartKeepsBase ==
  ASSUME BaseInv, NEW s \in Sessions, Starts(s)
  PROVE  BaseInv'
<1>0. UNCHANGED <<lock, tombstone, written, contended, overlapped, robbed>>
  BY DEF Starts, history
<1>1. \A t \in Sessions : StepFits(t)'
  BY StartGoes DEF BaseInv, LockPart, StepFits, Acquiring
<1>2. \A t \in Sessions : LockOfSession(t)'
  <2>1. \A t \in Sessions : LockOfSession(t)
    BY DEF BaseInv, LockPart
  <2>2. LockOfSession(s)'
    BY <1>0, StartGoes DEF LockOfSession, Holding
  <2>3. ASSUME NEW t \in Sessions \ {s} PROVE LockOfSession(t)'
    <3>1. plan'[t] = plan[t]
      BY DEF Starts
    <3> QED BY <1>0, <2>1, <3>1, StartGoes DEF LockOfSession, LockGone
  <2> QED BY <2>2, <2>3
<1>3. \A t \in Sessions : RaceFits(t)'
  BY <1>0, StartGoes, LockAssumption
  DEF BaseInv, LockPart, LockTypeOK, RaceFits, Acquiring, Holding, Ended
<1>4. LockTypeOK' /\ TheftNeedsRace'
  BY <1>0, StartGoes DEF BaseInv, LockPart, LockTypeOK, TheftNeedsRace
<1>5. LifecycleTypeOK'
  BY <1>4, StartGoes DEF BaseInv, LifecycleTypeOK, Starts, fileVars
<1> QED BY <1>1, <1>2, <1>3, <1>4, <1>5, StartGoes DEF BaseInv, LockPart

\* Taking and dropping the lock, and a death.
LEMMA LockingKeepsBase ==
  ASSUME BaseInv, NEW s \in Sessions,
         \/ Acquire(s)
         \/ (DropStep(s) \/ Crash(s)) /\ UNCHANGED <<fileVars, step, running, plan, outcomes>>
  PROVE  BaseInv'
<1>1. LockPart' /\ UNCHANGED <<fileVars, step, running, plan, outcomes>>
  BY AcquiringKeepsLock, LeavingKeepsLock DEF BaseInv, Acquire
<1> QED BY <1>1 DEF BaseInv, LifecycleTypeOK, LockPart, fileVars

\* Every step keeps the types and the lock's part.
LEMMA NextKeepsBase ==
  ASSUME BaseInv, [LifecycleNext]_lifecycleVars
  PROVE  BaseInv'
<1>1. ASSUME NEW s \in Sessions, Launch(s) \/ SessionStep(s) \/ Die(s) PROVE BaseInv'
  <2>1. CASE Launch(s) \/ List(s)
    BY <2>1, StartShape, StartKeepsBase
  <2>2. CASE FileStep(s) \/ DeleteData(s)
    BY <2>2, HolderKeepsBase
  <2>3. CASE \/ Acquire(s)
             \/ (DropStep(s) \/ Crash(s)) /\ UNCHANGED <<fileVars, step, running, plan, outcomes>>
    BY <2>3, LockingKeepsBase
  <2> QED BY <1>1, <2>1, <2>2, <2>3 DEF SessionStep, FileStep, Die
<1>2. CASE UNCHANGED lifecycleVars
  BY <1>2 DEF lifecycleVars, lockVars, history, fileVars, BaseInv, LockPart, LifecycleTypeOK, LockTypeOK,
              StepFits, LockOfSession, RaceFits, TheftNeedsRace, LockGone
<1> QED BY <1>1, <1>2 DEF LifecycleNext

-----------------------------------------------------------------------------
(* The files.                                                              *)

\* Where two sessions hold, one is a purge that has deleted the binary.
LEMMA OneWorks ==
  ASSUME CalmInv, NEW s \in Sessions, NEW t \in Sessions, s # t, pc[s] = "Held", pc[t] = "Held"
  PROVE  current = Nothing /\ (LockGone(s) \/ LockGone(t))
BY DEF CalmInv, BaseInv, LockPart, LockOfSession, FilesFit

\* A session's list of temporary files names only sessions.
LEMMA ListsSessions == CalmInv => \A s \in Sessions : plan[s].temps \subseteq Sessions
BY DEF CalmInv, BaseInv, LifecycleTypeOK, Plan

\* A step of a holder on the files: what is left to show is what holds of the holder
\* itself, and that no binary comes out of nothing.
LEMMA HolderKeepsInv ==
  ASSUME CalmInv, BaseInv', robbed' = {}, NEW s \in Sessions, pc[s] = "Held",
         \A t \in Sessions \ {s} : pc'[t] = pc[t] /\ step'[t] = step[t], UNCHANGED plan,
         \/ UNCHANGED <<current, temp, rollback, copier>>
         \/ LockGone(s) /\ UNCHANGED current
         \/ ~ LockGone(s) /\ (current = Nothing => current' = Nothing),
         CurrentRuns', FilesFit(s)',
         \A t \in Sessions \ {s} : temp'[t] = temp[t] \/ (temp'[t] = Nothing /\ pc[t] # "Held"),
         Staged(s) => Staged(s)', StagingFits(s)'
  PROVE  CalmInv'
<1>1. ASSUME NEW t \in Sessions, t # s PROVE FilesFit(t)'
  <2>1. FilesFit(t) /\ FilesFit(s) /\ pc'[t] = pc[t] /\ step'[t] = step[t] /\ plan'[t] = plan[t]
    BY <1>1 DEF CalmInv
  <2>2. CASE pc[t] # "Held"
    BY <2>1, <2>2 DEF FilesFit, At
  <2>3. CASE UNCHANGED <<current, temp, rollback, copier>>
    BY <1>1, <2>1, <2>3 DEF FilesFit, At, LockGone, Usable
  <2>4. CASE pc[t] = "Held" /\ LockGone(s) /\ UNCHANGED current
    <3>1. current = Nothing
      BY <1>1, <2>4, OneWorks
    <3> QED BY <2>1, <2>4, <3>1 DEF FilesFit, At, LockGone
  <2>5. CASE pc[t] = "Held" /\ ~ LockGone(s) /\ (current = Nothing => current' = Nothing)
    <3>1. current = Nothing /\ LockGone(t)
      BY <1>1, <2>5, OneWorks
    <3> QED BY <2>1, <2>5, <3>1 DEF FilesFit, At, LockGone
  <2> QED BY <2>2, <2>3, <2>4, <2>5
<1>2. \A t \in Sessions : FilesFit(t)'
  BY <1>1
<1>3. \A t \in Sessions : Staged(t) => Staged(t)'
  BY DEF Staged
<1>4. \A t \in Sessions \ {s} : StagingFits(t)'
  BY <1>3, ListsSessions DEF CalmInv, StagingFits, At
<1> QED BY <1>2, <1>4 DEF CalmInv

\* A holder that goes on.
LEMMA GoingOnKeepsInv ==
  ASSUME CalmInv, BaseInv', NEW s \in Sessions, pc[s] = "Held", ~ LockGone(s),
         NEW stage \in Step \ {"Off", "List", "End"}, Then(s, stage),
         UNCHANGED <<lockVars, plan>>, current = Nothing => current' = Nothing,
         CurrentRuns', FilesFit(s)',
         \A t \in Sessions \ {s} : temp'[t] = temp[t],
         Staged(s) => Staged(s)', StagingFits(s)'
  PROVE  CalmInv'
<1>1. robbed' = {}
  BY DEF CalmInv, lockVars, history
<1>2. \A t \in Sessions \ {s} : pc'[t] = pc[t] /\ step'[t] = step[t]
  BY DEF Then, lockVars, CalmInv, BaseInv, LifecycleTypeOK
<1> QED BY <1>1, <1>2, HolderKeepsInv

\* A holder that ends.
LEMMA EndingKeepsInv ==
  ASSUME CalmInv, BaseInv', robbed' = {},
         NEW s \in Sessions, pc[s] = "Held", Then(s, "End"), Goto(s, "DropCheck"),
         UNCHANGED plan,
         \/ UNCHANGED <<current, temp, rollback, copier>>
         \/ LockGone(s) /\ UNCHANGED current
         \/ ~ LockGone(s) /\ (current = Nothing => current' = Nothing),
         CurrentRuns',
         \A t \in Sessions \ {s} : temp'[t] = temp[t] \/ (temp'[t] = Nothing /\ pc[t] # "Held"),
         temp'[s] # Nothing => temp[s] # Nothing
  PROVE  CalmInv'
<1>1. /\ \A t \in Sessions \ {s} : pc'[t] = pc[t] /\ step'[t] = step[t]
      /\ pc'[s] = "DropCheck" /\ step'[s] = "End"
  BY DEF Then, Goto, CalmInv, BaseInv, LifecycleTypeOK, LockTypeOK
<1>2. FilesFit(s)'
  BY <1>1 DEF FilesFit, At
<1>3. \A t \in Sessions : Staged(t) => Staged(t)'
  BY <1>1 DEF Staged
<1>4. StagingFits(s)'
  BY <1>1, <1>3, ListsSessions DEF CalmInv, StagingFits, At
<1> QED BY <1>1, <1>2, <1>3, <1>4, HolderKeepsInv

\* Finish of a session that holds, with or without a change of the siblings.
LEMMA FinishKeepsInv ==
  ASSUME CalmInv, BaseInv', NEW s \in Sessions, pc[s] = "Held", Finish(s), UNCHANGED plan,
         \/ UNCHANGED <<current, temp, rollback, copier>>
         \/ LockGone(s) /\ UNCHANGED current
         \/ ~ LockGone(s) /\ (current = Nothing => current' = Nothing),
         CurrentRuns',
         \A t \in Sessions \ {s} : temp'[t] = temp[t] \/ (temp'[t] = Nothing /\ pc[t] # "Held"),
         temp'[s] # Nothing => temp[s] # Nothing
  PROVE  CalmInv'
<1>1. Then(s, "End") /\ Goto(s, "DropCheck") /\ robbed' = {}
  BY DEF Finish, history, CalmInv
<1> QED BY <1>1, EndingKeepsInv

-----------------------------------------------------------------------------
(* update.                                                                 *)

\* What the steps of an update start from.
LEMMA HolderFacts ==
  ASSUME CalmInv, NEW s \in Sessions, NEW stage \in Step \ {"DeleteSiblings"}, At(s, stage)
  PROVE  /\ pc[s] = "Held" /\ step[s] = stage /\ ~ LockGone(s) /\ FilesFit(s) /\ StagingFits(s)
         /\ step \in [Sessions -> Step] /\ {current, rollback} \subseteq Binaries \cup {Nothing}
         /\ temp \in [Sessions -> Binaries \cup {Nothing}]
         /\ CurrentRuns
BY DEF CalmInv, BaseInv, LifecycleTypeOK, At, LockGone

\* After the test of its download an update only loses it, to the path of the binary.
LEMMA StagedGoesOn ==
  ASSUME CalmInv, NEW s \in Sessions, pc[s] = "Held",
         step[s] \in {"OldRollback", "Copy", "Copied", "Replace", "SyncDir", "TestCurrent", "Manifest"},
         NEW stage \in {"Copy", "Copied", "Replace", "SyncDir", "TestCurrent", "Restore",
                        "Manifest", "ManifestSaved"},
         Then(s, stage), UNCHANGED <<lockVars, plan>>,
         temp' \in {temp, [temp EXCEPT ![s] = Nothing]}
  PROVE  /\ Staged(s) => Staged(s)'
         /\ StagingFits(s)'
         /\ \A t \in Sessions \ {s} : temp'[t] = temp[t]
         /\ stage \in Step \ {"Off", "List", "End", "DeleteSiblings"}
<1>1. step'[s] = stage /\ UNCHANGED pc /\ \A t \in Sessions \ {s} : step'[t] = step[t]
  BY DEF Then, lockVars, CalmInv, BaseInv, LifecycleTypeOK
<1>2. \A t \in Sessions : Staged(t) => Staged(t)'
  BY <1>1 DEF Staged
<1>3. \A t \in Sessions \ {s} : temp'[t] = temp[t]
  BY DEF CalmInv, BaseInv, LifecycleTypeOK
<1>4. temp'[s] # Nothing => temp[s] # Nothing
  BY DEF CalmInv, BaseInv, LifecycleTypeOK
<1>5. StagingFits(s)'
  BY <1>1, <1>2, <1>4, ListsSessions DEF CalmInv, StagingFits, At
<1> QED BY <1>2, <1>3, <1>5 DEF Step

\* Up to the test of what was downloaded the binary is left alone.
LEMMA StagingKeepsInv ==
  ASSUME CalmInv, BaseInv', NEW s \in Sessions,
         Check(s) \/ Fetch(s) \/ Verify(s) \/ Chmod(s) \/ TestTemp(s)
  PROVE  CalmInv'
<1>0. PICK stage \in {"Check", "Fetch", "Verify", "Chmod", "TestTemp"} : At(s, stage)
  BY DEF Check, Fetch, Verify, Chmod, TestTemp
<1>1. /\ pc[s] = "Held" /\ step[s] = stage /\ ~ LockGone(s) /\ StagingFits(s)
      /\ step \in [Sessions -> Step] /\ {current, rollback} \subseteq Binaries \cup {Nothing}
      /\ temp \in [Sessions -> Binaries \cup {Nothing}]
      /\ CurrentRuns
  <2>1. stage \in Step \ {"DeleteSiblings"}
    BY DEF Step
  <2> QED BY <1>0, <2>1, HolderFacts
<1>2. /\ UNCHANGED <<current, rollback, manifest, running, plan, outcomes>>
      /\ temp' \in [Sessions -> Binaries \cup {Nothing}]
      /\ \A t \in Sessions \ {s} : temp'[t] = temp[t]
      /\ temp'[s] # Nothing => temp[s] # Nothing \/ Fetch(s)
  <2>1. CASE Check(s) \/ Chmod(s)
    BY <1>1, <2>1 DEF Check, Chmod, fileVars
  <2>2. CASE Fetch(s)
    BY <1>1, <2>2, UsableBinaries, ZenonT(60) DEF Fetch
  <2>3. CASE Verify(s)
    <3>1. temp[s] \in Binaries /\ temp[s] # Nothing
      BY <1>1, <2>3 DEF Verify, StagingFits
    <3>2. HashMatched(s) \in Binaries
      BY <3>1, UsableBinaries DEF HashMatched, Binaries
    <3> QED BY <1>1, <2>3, <3>1, <3>2 DEF Verify
  <2>4. CASE TestTemp(s)
    BY <1>1, <2>4 DEF TestTemp
  <2> QED BY <2>1, <2>2, <2>3, <2>4
<1>3. CurrentRuns'
  BY <1>1, <1>2 DEF CurrentRuns, Usable
<1>4. ASSUME Finish(s), Fetch(s) => UNCHANGED temp PROVE CalmInv'
  BY <1>1, <1>2, <1>3, <1>4, FinishKeepsInv
<1>5. ASSUME NEW next \in {"Fetch", "Verify", "Chmod", "TestTemp", "OldRollback"},
             Then(s, next), UNCHANGED lockVars,
             next = "Fetch" => stage = "Check", next = "Verify" => temp'[s] # Nothing,
             next \notin {"Fetch", "Verify"} => stage \notin {"Check", "Fetch"},
             next = "OldRollback" => Usable(temp'[s])
      PROVE  CalmInv'
  <2>1. next \in Step \ {"Off", "List", "End"} /\ next # "DeleteSiblings"
    BY DEF Step
  <2>2. step'[s] = next /\ pc'[s] = "Held" /\ \A t \in Sessions \ {s} : step'[t] = step[t]
    BY <1>1, <1>5 DEF Then, lockVars
  <2>3. FilesFit(s)'
    BY <1>5, <2>2 DEF FilesFit, At, LockGone
  <2>4. Staged(s) => Staged(s)'
    BY <1>1, <1>2, <1>5, <2>2 DEF Staged
  <2>5. StagingFits(s)'
    <3>1. \A u \in plan[s].temps : Staged(u)'
      BY <1>1, <1>2, <2>2, <2>4, ListsSessions DEF StagingFits, Staged
    <3>2. temp'[s] # Nothing => Staged(s)'
      BY <1>1, <1>2, <1>5, <2>2 DEF StagingFits, Staged, Fetch, At
    <3>3. next = "Fetch" => plan'[s].job = "update"
      BY <1>1, <1>2, <1>5 DEF StagingFits
    <3> QED BY <1>2, <1>5, <2>2, <3>1, <3>2, <3>3 DEF StagingFits, At
  <2> QED BY <1>1, <1>2, <1>3, <1>5, <2>1, <2>3, <2>4, <2>5, GoingOnKeepsInv
<1>6. CASE Check(s)
  BY <1>4, <1>5, <1>6, <1>1 DEF Check, RefusedUnmanaged, Fetch, At, fileVars
<1>7. CASE Fetch(s)
  <2>1. stage = "Fetch"
    BY <1>1, <1>7 DEF Fetch, At
  <2>2. CASE Finish(s) /\ UNCHANGED temp
    BY <1>4, <2>2
  <2>3. ASSUME NEW v \in Releases, temp' = [temp EXCEPT ![s] = Binary(v, FALSE)],
               Then(s, "Verify"), UNCHANGED lockVars
        PROVE  CalmInv'
    <3>1. temp'[s] # Nothing
      BY <1>1, <2>3, UsableBinaries
    <3> QED BY <1>5, <2>1, <2>3, <3>1
  <2> QED BY <1>7, <2>2, <2>3 DEF Fetch
<1>8. CASE Verify(s)
  BY <1>1, <1>4, <1>5, <1>8 DEF Verify, Fetch, At
<1>9. CASE Chmod(s)
  BY <1>1, <1>4, <1>5, <1>9 DEF Chmod, Fetch, At
<1>10. CASE TestTemp(s)
  BY <1>1, <1>4, <1>5, <1>10 DEF TestTemp, Fetch, At, Passes
<1> QED BY <1>6, <1>7, <1>8, <1>9, <1>10

\* The rollback copy is made of the binary that there is.
LEMMA CopyingKeepsInv ==
  ASSUME CalmInv, BaseInv', NEW s \in Sessions, OldRollback(s) \/ Copy(s) \/ Copied(s)
  PROVE  CalmInv'
<1>0. PICK stage \in {"OldRollback", "Copy", "Copied"} : At(s, stage)
  BY DEF OldRollback, Copy, Copied
<1>1. /\ pc[s] = "Held" /\ step[s] = stage /\ ~ LockGone(s) /\ FilesFit(s)
      /\ step \in [Sessions -> Step] /\ {current, rollback} \subseteq Binaries \cup {Nothing}
      /\ temp \in [Sessions -> Binaries \cup {Nothing}]
      /\ CurrentRuns
  <2>1. stage \in Step \ {"DeleteSiblings"}
    BY DEF Step
  <2> QED BY <1>0, <2>1, HolderFacts
<1>2. /\ UNCHANGED <<current, temp, plan>> /\ CurrentRuns'
  BY <1>1 DEF OldRollback, Copy, Copied, CurrentRuns, Usable
<1>3. /\ "Copy" \in Step \ {"Off", "List", "End"} /\ "Copied" \in Step \ {"Off", "List", "End"}
      /\ "Replace" \in Step \ {"Off", "List", "End"}
  BY DEF Step
<1>4. CASE Finish(s) /\ UNCHANGED <<rollback, copier>>
  BY <1>1, <1>2, <1>4, FinishKeepsInv
<1>5. CASE OldRollback(s) /\ rollback' = Nothing /\ Then(s, "Copy") /\ UNCHANGED lockVars
  <2>2. step'[s] = "Copy" /\ step[s] = "OldRollback"
    BY <1>1, <1>5 DEF Then, OldRollback, At
  <2>3. FilesFit(s)'
    BY <1>1, <1>2, <1>5, <2>2 DEF FilesFit, At, LockGone, Usable
  <2> QED BY <1>1, <1>2, <1>3, <1>5, <2>3, StagedGoesOn, GoingOnKeepsInv
<1>6. CASE /\ Copy(s) /\ current # Nothing /\ rollback' = Binary(current.release, FALSE)
           /\ copier' = s /\ Then(s, "Copied") /\ UNCHANGED lockVars
  <2>1. /\ rollback' \in Binaries /\ rollback' # Nothing /\ rollback'.release = current.release
    <3>1. current.release \in Releases
      BY <1>1, <1>6, UsableBinaries DEF CurrentRuns
    <3> QED BY <1>6, <3>1, UsableBinaries
  <2>3. step'[s] = "Copied" /\ step[s] = "Copy"
    BY <1>1, <1>6 DEF Then, Copy, At
  <2>4. FilesFit(s)'
    BY <1>1, <1>2, <1>6, <2>1, <2>3 DEF FilesFit, At, LockGone, Usable
  <2> QED BY <1>1, <1>2, <1>3, <1>6, <2>4, StagedGoesOn, GoingOnKeepsInv
<1>7. CASE /\ Copied(s) /\ rollback' = IF copier = s THEN CompleteCopy ELSE rollback
           /\ Then(s, "Replace") /\ UNCHANGED lockVars
  <2>0. step'[s] = "Replace" /\ step[s] = "Copied"
    BY <1>1, <1>7 DEF Then, Copied, At
  <2>1. current # Nothing /\ rollback # Nothing /\ rollback.release = current.release /\ copier = s
    BY <1>1, <2>0 DEF FilesFit, At
  <2>2. current.release \in Releases /\ current.release \notin Broken
    BY <1>1, <2>1, UsableBinaries DEF CurrentRuns, Usable
  <2>3. rollback' \in Binaries /\ Usable(rollback')
    BY <1>7, <2>1, <2>2, UsableBinaries DEF CompleteCopy, Usable
  <2>5. FilesFit(s)'
    BY <1>1, <1>2, <2>0, <2>3 DEF FilesFit, At, LockGone, Usable
  <2> QED BY <1>1, <1>2, <1>3, <1>7, <2>5, StagedGoesOn, GoingOnKeepsInv
<1> QED BY <1>4, <1>5, <1>6, <1>7 DEF OldRollback, Copy, Copied

\* The binary is replaced by one that was tested, or by the copy of the one before.
LEMMA ReplacingKeepsInv ==
  ASSUME CalmInv, BaseInv', NEW s \in Sessions,
         Replace(s) \/ SyncDir(s) \/ TestCurrent(s) \/ Restore(s) \/ Manifest(s) \/ ManifestSaved(s)
  PROVE  CalmInv'
<1>0. PICK stage \in {"Replace", "SyncDir", "TestCurrent", "Restore", "Manifest", "ManifestSaved"} :
        At(s, stage)
  BY DEF Replace, SyncDir, TestCurrent, Restore, Manifest, ManifestSaved
<1>1. /\ pc[s] = "Held" /\ step[s] = stage /\ ~ LockGone(s) /\ FilesFit(s)
      /\ step \in [Sessions -> Step] /\ {current, rollback} \subseteq Binaries \cup {Nothing}
      /\ temp \in [Sessions -> Binaries \cup {Nothing}]
      /\ CurrentRuns
  <2>1. stage \in Step \ {"DeleteSiblings"}
    BY DEF Step
  <2> QED BY <1>0, <2>1, HolderFacts
<1>2. UNCHANGED plan
  BY DEF Replace, SyncDir, TestCurrent, Restore, Manifest, ManifestSaved
<1>3. CASE Replace(s)
  <2>1. /\ step[s] = "Replace" /\ current # Nothing /\ Usable(temp[s]) /\ Usable(rollback)
    BY <1>1, <1>3 DEF Replace, At, FilesFit
  <2>2. CASE /\ current' = temp[s] /\ temp' = [temp EXCEPT ![s] = Nothing]
             /\ Then(s, "SyncDir") /\ UNCHANGED <<lockVars, rollback>>
    <3>1. CurrentRuns' /\ current' # Nothing /\ Usable(rollback)'
      BY <1>1, <2>1, <2>2 DEF CurrentRuns, Usable
    <3>2. step'[s] = "SyncDir"
      BY <1>1, <2>2 DEF Then
    <3>3. FilesFit(s)'
      BY <3>1, <3>2 DEF FilesFit, At, LockGone
    <3> QED BY <1>1, <1>2, <2>1, <2>2, <3>1, <3>3, StagedGoesOn, GoingOnKeepsInv
  <2>3. CASE /\ temp' \in {temp, [temp EXCEPT ![s] = Nothing]} /\ rollback' \in {rollback, Nothing}
             /\ Finish(s) /\ UNCHANGED current
    <3>1. CurrentRuns'
      BY <1>1, <2>1, <2>3 DEF CurrentRuns, Usable
    <3>2. /\ \A t \in Sessions \ {s} : temp'[t] = temp[t]
          /\ temp'[s] # Nothing => temp[s] # Nothing
      BY <1>1, <2>3
    <3> QED BY <1>1, <1>2, <2>3, <3>1, <3>2, FinishKeepsInv
  <2> QED BY <1>3, <2>2, <2>3 DEF Replace
<1>4. CASE SyncDir(s) \/ TestCurrent(s)
  <2>1. /\ UNCHANGED <<current, temp, rollback, copier>>
        /\ stage \in {"SyncDir", "TestCurrent"}
    BY <1>1, <1>4 DEF SyncDir, TestCurrent, At, fileVars
  <2>2. CurrentRuns'
    BY <1>1, <2>1 DEF CurrentRuns, Usable
  <2>3. CASE Finish(s)
    BY <1>1, <1>2, <2>1, <2>2, <2>3, FinishKeepsInv
  <2>4. ASSUME NEW next \in {"TestCurrent", "Manifest", "Restore"}, Then(s, next), UNCHANGED lockVars
        PROVE  CalmInv'
    <3>1. step'[s] = next
      BY <1>1, <2>4 DEF Then
    <3>2. FilesFit(s)'
      BY <1>1, <2>1, <3>1 DEF FilesFit, At, LockGone, Usable
    <3> QED BY <1>1, <1>2, <2>1, <2>2, <2>4, <3>2, StagedGoesOn, GoingOnKeepsInv
  <2> QED BY <1>4, <2>3, <2>4 DEF SyncDir, TestCurrent
<1>5. CASE Restore(s)
  <2>1. current # Nothing /\ Usable(rollback)
    BY <1>1, <1>5 DEF Restore, At, FilesFit
  <2>2. /\ CurrentRuns' /\ Finish(s) /\ UNCHANGED temp
        /\ current = Nothing => current' = Nothing
    BY <1>1, <1>5, <2>1 DEF Restore, CurrentRuns, Usable
  <2> QED BY <1>1, <1>2, <2>2, FinishKeepsInv
<1>6. CASE Manifest(s) \/ ManifestSaved(s)
  <2>1. CurrentRuns' /\ UNCHANGED <<current, temp, rollback, copier>>
    BY <1>1, <1>6 DEF Manifest, ManifestSaved, CurrentRuns, Usable
  <2>2. CASE Finish(s)
    BY <1>1, <1>2, <2>1, <2>2, FinishKeepsInv
  <2>3. CASE Manifest(s) /\ Then(s, "ManifestSaved") /\ UNCHANGED lockVars
    <3>1. step'[s] = "ManifestSaved" /\ step[s] = "Manifest"
      BY <1>1, <2>3 DEF Then, Manifest, At
    <3>2. FilesFit(s)'
      BY <3>1 DEF FilesFit, At, LockGone
    <3> QED BY <1>1, <1>2, <2>1, <2>3, <3>1, <3>2, StagedGoesOn, GoingOnKeepsInv
  <2> QED BY <1>6, <2>2, <2>3 DEF Manifest, ManifestSaved
<1> QED BY <1>3, <1>4, <1>5, <1>6

-----------------------------------------------------------------------------
(* uninstall.                                                              *)

\* The binary goes first, under the lock.
LEMMA DeleteBinaryKeepsInv ==
  ASSUME CalmInv, BaseInv', NEW s \in Sessions, DeleteBinary(s)
  PROVE  CalmInv'
<1>1. /\ pc[s] = "Held" /\ step[s] = "DeleteBinary" /\ ~ LockGone(s) /\ StagingFits(s)
      /\ step \in [Sessions -> Step] /\ {current, rollback} \subseteq Binaries \cup {Nothing}
      /\ temp \in [Sessions -> Binaries \cup {Nothing}]
      /\ CurrentRuns
  <2>1. "DeleteBinary" \in Step \ {"DeleteSiblings"}
    BY DEF Step
  <2> QED BY <2>1, HolderFacts DEF DeleteBinary
<1>2. UNCHANGED <<temp, rollback, copier, plan>> /\ current' \in {current, Nothing}
  BY DEF DeleteBinary
<1>3. CurrentRuns'
  BY <1>1, <1>2 DEF CurrentRuns, Usable
<1>4. CASE Finish(s)
  BY <1>1, <1>2, <1>3, <1>4, FinishKeepsInv
<1>5. CASE current' = Nothing /\ Then(s, "DeleteData") /\ UNCHANGED lockVars
  <2>1. /\ step'[s] = "DeleteData" /\ UNCHANGED pc
        /\ \A t \in Sessions \ {s} : step'[t] = step[t]
    BY <1>1, <1>5 DEF Then, lockVars
  <2>2. FilesFit(s)'
    BY <1>5, <2>1 DEF FilesFit, At, LockGone
  <2>3. \A t \in Sessions : Staged(t) => Staged(t)'
    BY <1>1, <1>2, <2>1 DEF Staged
  <2>4. StagingFits(s)'
    BY <1>1, <1>2, <2>1, <2>3, ListsSessions DEF StagingFits, At, Staged
  <2>5. "DeleteData" \in Step \ {"Off", "List", "End"}
    BY DEF Step
  <2> QED BY <1>1, <1>2, <1>3, <1>5, <2>2, <2>3, <2>4, <2>5, GoingOnKeepsInv
<1> QED BY <1>4, <1>5 DEF DeleteBinary

\* A purge gives up the lock that it still holds.
LEMMA DeleteDataKeepsInv ==
  ASSUME CalmInv, BaseInv', NEW s \in Sessions, DeleteData(s)
  PROVE  CalmInv'
<1>1. /\ pc[s] = "Held" /\ step[s] = "DeleteData" /\ ~ LockGone(s) /\ StagingFits(s) /\ FilesFit(s)
      /\ step \in [Sessions -> Step]
      /\ CurrentRuns
  <2>1. "DeleteData" \in Step \ {"DeleteSiblings"}
    BY DEF Step
  <2> QED BY <2>1, HolderFacts DEF DeleteData
<1>2. current = Nothing /\ lock = s
  BY <1>1 DEF FilesFit, At, CalmInv, BaseInv, LockPart, LockOfSession
<1>3. UNCHANGED <<current, temp, rollback, copier, plan>> /\ Robbing(s)
  BY DEF DeleteData
<1>4. CurrentRuns' /\ robbed' = {}
  BY <1>1, <1>2, <1>3 DEF CurrentRuns, Usable, Robbing, CalmInv
<1>5. CASE Then(s, "End") /\ Goto(s, "DropCheck")
  BY <1>1, <1>3, <1>4, <1>5, EndingKeepsInv
<1>6. CASE Then(s, "DeleteSiblings") /\ UNCHANGED pc
  <2>1. step'[s] = "DeleteSiblings" /\ \A t \in Sessions \ {s} : step'[t] = step[t]
    BY <1>1, <1>6 DEF Then
  <2>2. FilesFit(s)'
    BY <1>2, <1>3, <2>1 DEF FilesFit, At, LockGone
  <2>3. \A t \in Sessions : Staged(t) => Staged(t)'
    BY <1>1, <1>3, <2>1 DEF Staged
  <2>4. StagingFits(s)'
    BY <1>1, <1>3, <1>6, <2>1, <2>3, ListsSessions DEF StagingFits, At, Staged
  <2>5. \A t \in Sessions \ {s} : pc'[t] = pc[t] /\ step'[t] = step[t] /\ temp'[t] = temp[t]
    BY <1>3, <1>6, <2>1
  <2> QED BY <1>1, <1>3, <1>4, <2>2, <2>3, <2>4, <2>5, HolderKeepsInv
<1> QED BY <1>5, <1>6 DEF DeleteData

\* What was listed goes last: downloads of sessions that are not at work.
LEMMA DeleteSiblingsKeepsInv ==
  ASSUME CalmInv, BaseInv', NEW s \in Sessions, DeleteSiblings(s)
  PROVE  CalmInv'
<1>1. /\ pc[s] = "Held" /\ step[s] = "DeleteSiblings" /\ Finish(s)
      /\ UNCHANGED <<current, plan>> /\ CurrentRuns
  BY DEF DeleteSiblings, At, CalmInv
<1>2. \E some \in SUBSET plan[s].temps :
        temp' = [t \in Sessions |-> IF t \in some THEN Nothing ELSE temp[t]]
  BY DEF DeleteSiblings
<1>3. \A t \in plan[s].temps : pc[t] # "Held"
  BY <1>1 DEF CalmInv, StagingFits
<1>4. \A t \in Sessions : temp'[t] = temp[t] \/ (temp'[t] = Nothing /\ pc[t] # "Held")
  BY <1>2, <1>3
<1>5. CurrentRuns' /\ (current = Nothing => current' = Nothing)
  BY <1>1 DEF CurrentRuns, Usable
<1>6. temp'[s] # Nothing => temp[s] # Nothing
  BY <1>4
<1>7. \/ LockGone(s) /\ UNCHANGED current
      \/ ~ LockGone(s) /\ (current = Nothing => current' = Nothing)
  BY <1>1, <1>5
<1> QED BY <1>1, <1>4, <1>5, <1>6, <1>7, FinishKeepsInv

-----------------------------------------------------------------------------
(* Launches, and the lock's own steps.                                     *)

\* A session that is launched, or lists what it will delete, holds nothing yet.
LEMMA StartKeepsInv ==
  ASSUME CalmInv, BaseInv', NEW s \in Sessions, Starts(s)
  PROVE  CalmInv'
<1>1. /\ step' \in [Sessions -> Step] /\ pc'[s] \in {"Idle", "Done"}
      /\ \A t \in Sessions \ {s} : step'[t] = step[t] /\ pc'[t] = pc[t]
      /\ step'[s] \in {"Lock", "List", "End"}
  BY StartGoes DEF CalmInv
<1>2. /\ pc[s] = "Idle" /\ step[s] \in {"Off", "List"} /\ UNCHANGED fileVars /\ robbed' = {}
      /\ \A t \in Sessions \ {s} : plan'[t] = plan[t]
      /\ plan'[s].temps \in {plan[s].temps, {t \in Sessions : temp[t] # Nothing}}
  BY DEF Starts, history, CalmInv
<1>3. \A t \in Sessions : FilesFit(t)'
  BY <1>1, <1>2 DEF CalmInv, FilesFit, At, LockGone, fileVars, Usable
<1>4. \A t \in Sessions : Staged(t) => t # s /\ Staged(t)'
  BY <1>1, <1>2 DEF Staged
<1>5. \A t \in Sessions : StagingFits(t)'
  <2>1. \A t \in Sessions : temp[t] # Nothing => Staged(t)
    BY DEF CalmInv, StagingFits
  <2>2. \A t \in Sessions \ {s} : StagingFits(t)'
    BY <1>1, <1>2, <1>4, ListsSessions DEF CalmInv, StagingFits, At, fileVars
  <2>3. \A u \in plan'[s].temps : Staged(u)'
    BY <1>2, <1>4, <2>1, ListsSessions DEF CalmInv, StagingFits
  <2>4. StagingFits(s)'
    BY <1>1, <1>2, <1>4, <2>1, <2>3 DEF StagingFits, At, fileVars
  <2> QED BY <2>2, <2>4
<1>6. CurrentRuns'
  BY <1>2 DEF CalmInv, CurrentRuns, Usable, fileVars
<1> QED BY <1>2, <1>3, <1>5, <1>6 DEF CalmInv

\* A step of the lock leaves the files alone, and makes a holder of one that is
\* about to begin only.
LEMMA LockingKeepsInv ==
  ASSUME CalmInv, BaseInv', robbed' = {}, NEW s \in Sessions,
         \/ Acquire(s)
         \/ (DropStep(s) \/ Crash(s)) /\ UNCHANGED <<fileVars, step, running, plan, outcomes>>
  PROVE  CalmInv'
<1>1. UNCHANGED <<fileVars, step, plan>>
  BY DEF Acquire
<1>2. \A t \in Sessions \ {s} : pc'[t] = pc[t]
  <2>1. pc \in [Sessions -> {"Idle"} \cup Acquiring \cup Holding \cup Ended]
    BY DEF CalmInv, BaseInv, LockPart, LockTypeOK
  <2> QED BY <2>1 DEF Acquire, Begin, AcquireStep, Create, Created, Read, Rename, Remove, Again,
                      Write, DropStep, DropCheck, DropRemove, Crash, Goto
<1>3. pc'[s] = "Held" => step[s] = "Lock"
  <2>1. pc \in [Sessions -> {"Idle"} \cup Acquiring \cup Holding \cup Ended]
    BY DEF CalmInv, BaseInv, LockPart, LockTypeOK
  <2> QED BY <2>1 DEF Acquire, DropStep, DropCheck, DropRemove, Crash, Goto
<1>4. \A t \in Sessions : FilesFit(t)'
  BY <1>1, <1>2, <1>3 DEF CalmInv, FilesFit, At, LockGone, fileVars, Usable
<1>5. \A t \in Sessions : Staged(t) => Staged(t)' /\ step[t] # "Lock"
  BY <1>1 DEF Staged
<1>6. \A t \in Sessions : StagingFits(t)'
  BY <1>1, <1>2, <1>3, <1>5, ListsSessions DEF CalmInv, StagingFits, At, fileVars
<1>7. CurrentRuns'
  BY <1>1 DEF CalmInv, CurrentRuns, Usable, fileVars
<1> QED BY <1>4, <1>6, <1>7 DEF CalmInv

\* Whoever has just got the lock is the only one at work: what an uninstall listed
\* before is of sessions that ended.
LEMMA AcquiredKeepsInv ==
  ASSUME CalmInv, BaseInv', NEW s \in Sessions, Acquired(s)
  PROVE  CalmInv'
<1>1. /\ pc[s] = "Held" /\ step[s] = "Lock" /\ ~ LockGone(s) /\ StagingFits(s)
      /\ step \in [Sessions -> Step] /\ {current, rollback} \subseteq Binaries \cup {Nothing}
      /\ temp \in [Sessions -> Binaries \cup {Nothing}]
      /\ CurrentRuns
  <2>1. "Lock" \in Step \ {"DeleteSiblings"}
    BY DEF Step
  <2> QED BY <2>1, HolderFacts DEF Acquired
<1>2. PICK stage \in {"Check", "DeleteBinary"} :
        Then(s, stage) /\ (stage = "Check" => plan[s].job = "update")
  BY DEF Acquired
<1>3. UNCHANGED <<lockVars, fileVars, running, plan, outcomes>>
  BY DEF Acquired
<1>4. step'[s] = stage /\ UNCHANGED pc /\ \A t \in Sessions \ {s} : step'[t] = step[t]
  BY <1>1, <1>2, <1>3 DEF Then, lockVars
<1>5. \A t \in Sessions : Staged(t) => Staged(t)' /\ t # s
  BY <1>1, <1>3, <1>4 DEF Staged
<1>6. \A u \in plan[s].temps : Staged(u) /\ u \in Sessions
  BY <1>1, ListsSessions DEF StagingFits
<1>7. ASSUME NEW u \in plan[s].temps PROVE pc[u] # "Held"
  <2>1. Staged(u) /\ u \in Sessions /\ u # s
    BY <1>5, <1>6
  <2>2. ~ LockGone(u)
    BY <2>1 DEF Staged, LockGone
  <2> QED BY <1>1, <2>1, <2>2, OneWorks
<1>8. StagingFits(s)'
  BY <1>1, <1>2, <1>3, <1>4, <1>5, <1>6, <1>7 DEF StagingFits, At, fileVars
<1>9. FilesFit(s)'
  BY <1>4 DEF FilesFit, At, LockGone
<1>10. CurrentRuns' /\ UNCHANGED <<current, temp>>
  BY <1>1, <1>3 DEF CurrentRuns, Usable, fileVars
<1>11. stage \in Step \ {"Off", "List", "End"} /\ stage # "DeleteSiblings"
  BY DEF Step
<1> QED BY <1>1, <1>2, <1>3, <1>5, <1>8, <1>9, <1>10, <1>11, GoingOnKeepsInv

-----------------------------------------------------------------------------
(* The theorems.                                                           *)

\* As long as nobody is robbed, every step keeps what the files are.
LEMMA NextKeepsCalmInv ==
  ASSUME CalmInv, BaseInv', robbed' = {}, [LifecycleNext]_lifecycleVars
  PROVE  CalmInv'
<1>1. ASSUME NEW s \in Sessions, Launch(s) \/ SessionStep(s) \/ Die(s) PROVE CalmInv'
  <2>1. CASE Launch(s) \/ List(s)
    BY <2>1, StartShape, StartKeepsInv DEF CalmInv
  <2>2. CASE FileStep(s) \/ DeleteData(s)
    BY <2>2, AcquiredKeepsInv, StagingKeepsInv, CopyingKeepsInv, ReplacingKeepsInv,
       DeleteBinaryKeepsInv, DeleteDataKeepsInv, DeleteSiblingsKeepsInv DEF FileStep
  <2>3. CASE \/ Acquire(s)
             \/ (DropStep(s) \/ Crash(s)) /\ UNCHANGED <<fileVars, step, running, plan, outcomes>>
    BY <2>3, LockingKeepsInv
  <2> QED BY <1>1, <2>1, <2>2, <2>3 DEF SessionStep, FileStep, Die
<1>2. CASE UNCHANGED lifecycleVars
  BY <1>2 DEF lifecycleVars, lockVars, history, fileVars, CalmInv, FilesFit, StagingFits, Staged, At,
              LockGone, CurrentRuns, Usable
<1> QED BY <1>1, <1>2 DEF LifecycleNext

\* Nobody who was robbed is forgotten.
LEMMA RobbedStays ==
  ASSUME BaseInv, [LifecycleNext]_lifecycleVars, robbed' = {}
  PROVE  robbed = {}
<1>1. ASSUME NEW s \in Sessions, Launch(s) \/ SessionStep(s) \/ Die(s) PROVE robbed = {}
  <2>1. CASE Launch(s) \/ List(s)
    BY <2>1, StartShape DEF Starts, history
  <2>2. CASE FileStep(s)
    BY <2>2, FileStepShape DEF Finish, lockVars, history
  <2>3. CASE DeleteData(s)
    BY <2>3 DEF DeleteData, Robbing
  <2>4. CASE \/ Acquire(s)
             \/ (DropStep(s) \/ Crash(s)) /\ UNCHANGED <<fileVars, step, running, plan, outcomes>>
    BY <2>4 DEF Acquire, Begin, AcquireStep, Create, Read, Rename, Remove, Again, Write,
                DropStep, DropCheck, DropRemove, Crash, Robbing, history
  <2> QED BY <1>1, <2>1, <2>2, <2>3, <2>4 DEF SessionStep, FileStep, Die
<1>2. CASE UNCHANGED lifecycleVars
  BY <1>2 DEF lifecycleVars, lockVars, history
<1> QED BY <1>1, <1>2 DEF LifecycleNext

\* However sessions race and die, the types and the lock's part of the invariant hold
\* of every installation, and what the files are as long as nobody was robbed.
THEOREM LifecycleInvHolds == LifecycleSpec => []LifecycleInv
<1>1. LifecycleInv /\ [LifecycleNext]_lifecycleVars => LifecycleInv'
  <2> SUFFICES ASSUME LifecycleInv, [LifecycleNext]_lifecycleVars PROVE LifecycleInv'
    OBVIOUS
  <2>1. BaseInv'
    BY NextKeepsBase DEF LifecycleInv
  <2>2. ASSUME robbed' = {} PROVE CalmInv'
    BY <2>1, <2>2, RobbedStays, NextKeepsCalmInv DEF LifecycleInv
  <2> QED BY <2>1, <2>2 DEF LifecycleInv
<1> QED BY <1>1, LifecycleInvInit, PTL DEF LifecycleSpec

\* Until a session loses its lock to another, and whatever fails and wherever processes
\* die, the binary is complete and runs, or was uninstalled.
THEOREM CurrentUsableHolds == LifecycleSpec => []CurrentUsable
<1>1. LifecycleInv => CurrentUsable
  BY DEF LifecycleInv, CalmInv, CurrentRuns, CurrentUsable
<1> QED BY <1>1, LifecycleInvHolds, PTL

\* Until a session loses its lock to another, from the replacement of the binary to the
\* end of its test there is a copy to go back to.
THEOREM RecoveryPathExistsHolds == LifecycleSpec => []RecoveryPathExists
<1>1. LifecycleInv => RecoveryPathExists
  BY DEF LifecycleInv, CalmInv, FilesFit, RecoveryPathExists
<1> QED BY <1>1, LifecycleInvHolds, PTL

\* However many sessions race, at most one that nobody has robbed works on the files, but
\* for a purge that has deleted its own lock: its file is the one at the path.
THEOREM OneAtATimeHolds == LifecycleSpec => []OneAtATime
<1>1. LifecycleInv => OneAtATime
  <2> SUFFICES ASSUME LifecycleInv PROVE OneAtATime
    OBVIOUS
  <2> DEFINE working == {s \in Sessions : pc[s] = "Held" /\ s \notin robbed /\ ~ Purged(s)}
  <2>1. working \subseteq {lock}
    BY DEF LifecycleInv, BaseInv, LockPart, LockOfSession, LockGone, Purged
  <2>2. IsFiniteSet({lock}) /\ Cardinality({lock}) = 1
    BY FS_Singleton
  <2>3. Cardinality(working) <= 1
    BY <2>1, <2>2, FS_Subset
  <2> QED BY <2>3 DEF OneAtATime
<1> QED BY <1>1, LifecycleInvHolds, PTL

\* As long as no two acquisitions overlap nobody is robbed, whatever crashes, is purged
\* or is found stale.
THEOREM TheftNeedsRaceHolds == LifecycleSpec => []TheftNeedsRace
<1>1. LifecycleInv => TheftNeedsRace
  BY DEF LifecycleInv, BaseInv, LockPart
<1> QED BY <1>1, LifecycleInvHolds, PTL

\* An update or uninstall is refused only by one that was under way when it began, or that
\* acquired beside it: no crash and no purge leaves a lock that needs a hand to remove.
THEOREM RefusalsHaveAHolder == LifecycleSpec => []RefusedOnlyByHolder
<1>1. LifecycleInv => RefusedOnlyByHolder
  BY DEF LifecycleInv, BaseInv, LockPart, RaceFits, RefusedOnlyByHolder
<1> QED BY <1>1, LifecycleInvHolds, PTL

=============================================================================
