--------------------------- MODULE ScanPipelineProofs ---------------------------
(* Proofs about the state files under ScanPipeline, for every set of          *)
(* scenarios: the command `state migrate` is atomic whatever scans, kills and *)
(* losses of power come in between, and no history is lost.                   *)
EXTENDS ScanPipeline, TLAPS

USE DEF inputs

-----------------------------------------------------------------------------
(* The inductive invariant.                                                *)

FilesWellFormed ==
  /\ scenario \in Scenarios /\ scans \in Nat /\ durable \in BOOLEAN
  /\ files = [p \in Paths |-> files[p]]
  /\ \A p \in Paths : WellFormed(files[p])
  /\ lock \in [Paths -> {"free", "scan", "migration"}]

\* A file that has been opened.
InUse(file) ==
  /\ IsDatabase(file) /\ file.engine = "current" /\ file.db.version = StateSchemaVersion
  /\ Ordered(file)

\* A scan that is about to commit has its file locked since it opened it.
ScanHolds ==
  pc = "store" => ~ args.no_state /\ lock[StatePath] = "scan" /\ InUse(files[StatePath])

\* Until it has published, a migration has its source locked.
MigrationHolds == stage \in Working => lock["old"] = "migration"

HalfOf(file) == IF IsDatabase(file) THEN [file EXCEPT !.db.changes = {}] ELSE file

\* So the candidate is made of what the source is at any later moment.
CandidateOfSource ==
  /\ stage = "half" => candidate = HalfOf(files["old"])
  /\ stage = "copied" => candidate = files["old"]
  /\ stage = "ready" => /\ CandidateAccepted(files["old"], StampTime)
                        /\ candidate = Candidate(files["old"], StampTime)

FilesInv == FilesWellFormed /\ ScanHolds /\ MigrationHolds /\ CandidateOfSource

-----------------------------------------------------------------------------
(* Rows and databases.                                                     *)

AllStamped(rows, now) == {Stamped(r, now) : r \in rows}

\* What stamping and rekeying make of a row.
LEMMA RowsRewritten ==
  ASSUME NEW r, IsRow(r), NEW now \in Nat \ {NoTime}
  PROVE  /\ Stamped(r, now) = [form |-> "fixed", source |-> r.source,
                               at |-> IF r.at = NoTime THEN now ELSE r.at, parses |-> r.parses]
         /\ [r EXCEPT !.form = "fixed"] = [form |-> "fixed", source |-> r.source,
                                           at |-> r.at, parses |-> r.parses]
<1> DEFINE f == r.form
           s == r.source
           a == r.at
           p == r.parses
<1> HIDE DEF f, s, a, p
<1>1. r = [form |-> f, source |-> s, at |-> a, parses |-> p]
  BY DEF IsRow, f, s, a, p
<1>2. [r EXCEPT !.form = "fixed"] = [form |-> "fixed", source |-> s, at |-> a, parses |-> p]
  BY <1>1
<1>3. Stamped(r, now) = [form |-> "fixed", source |-> s,
                         at |-> IF a = NoTime THEN now ELSE a, parses |-> p]
  <2>1. CASE a = NoTime
    <3>1. Stamped(r, now) = [r EXCEPT !.form = "fixed", !.at = now]
      BY <2>1 DEF Stamped, a
    <3> QED BY <1>1, <2>1, <3>1
  <2>2. CASE a # NoTime
    <3>1. Stamped(r, now) = [r EXCEPT !.form = "fixed", !.at = a]
      BY <2>2 DEF Stamped, a
    <3> QED BY <1>1, <2>2, <3>1
  <2> QED BY <2>1, <2>2
<1> QED BY <1>2, <1>3 DEF f, s, a, p

\* A stamped row is one of version 4, is not changed by rekeying, and keeps what its
\* original said.
LEMMA StampedRow ==
  ASSUME NEW r, IsRow(r), NEW now \in Nat \ {NoTime}
  PROVE  /\ IsRow(Stamped(r, now)) /\ InVersionFour(Stamped(r, now))
         /\ [Stamped(r, now) EXCEPT !.form = "fixed"] = Stamped(r, now)
         /\ Stamped(r, now).source = r.source /\ Stamped(r, now).parses = r.parses
         /\ r.at # NoTime => Stamped(r, now).at = r.at
         /\ r.at # NoTime => [r EXCEPT !.form = "fixed"] = Stamped(r, now)
         /\ InVersionFour(r) => r = Stamped(r, now)
<1> DEFINE s == Stamped(r, now)
<1>1. s = [form |-> "fixed", source |-> r.source,
           at |-> IF r.at = NoTime THEN now ELSE r.at, parses |-> r.parses]
  BY RowsRewritten
<1>2. /\ s.form = "fixed" /\ s.source = r.source /\ s.parses = r.parses
      /\ s.at = IF r.at = NoTime THEN now ELSE r.at
  BY <1>1
<1>3. s.at \in Nat /\ s.at # NoTime /\ s.parses \in BOOLEAN
  BY <1>2 DEF IsRow, NoTime
<1>4. s = [form |-> s.form, source |-> s.source, at |-> s.at, parses |-> s.parses]
  BY <1>1, <1>2
<1>5. IsRow(s) /\ InVersionFour(s)
  BY <1>2, <1>3, <1>4 DEF IsRow, InVersionFour
<1>6. [s EXCEPT !.form = "fixed"] = s
  BY <1>1
<1>7. r.at # NoTime => [r EXCEPT !.form = "fixed"] = s
  BY <1>1, RowsRewritten
<1>8. InVersionFour(r) => r = s
  BY <1>1 DEF IsRow, InVersionFour
<1> QED BY <1>2, <1>5, <1>6, <1>7, <1>8

\* run_migrations, where it does not refuse, rewrites every row as if it were bare:
\* the other rows of older versions have a time, and those of version 4 are as they
\* should be.
LEMMA MigrationStampsAll ==
  ASSUME NEW db, IsDb(db), NEW now \in Nat \ {NoTime}, ~ MigrationRefused(db, now)
  PROVE  RunMigrations(db, now) =
           [version |-> StateSchemaVersion, events_parse |-> db.events_parse, rows |-> db.rows,
            health |-> AllStamped(db.health, now), changes |-> AllStamped(db.changes, now)]
<1>1. \A r \in db.health \cup db.changes : IsRow(r)
  BY DEF IsDb
<1>2. \A r \in db.health \cup db.changes :
        /\ IsRow(Stamped(r, now))
        /\ [Stamped(r, now) EXCEPT !.form = "fixed"] = Stamped(r, now)
        /\ r.at # NoTime => [r EXCEPT !.form = "fixed"] = Stamped(r, now)
        /\ InVersionFour(r) => r = Stamped(r, now)
  BY <1>1, StampedRow
<1>3. CASE HasOldKeys(db)
  <2>1. /\ \A r \in RekeyBare(db.health, now) : r.at # NoTime
        /\ \A r \in db.changes : r.at # NoTime
    BY <1>3 DEF MigrationRefused, RekeyRefused
  <2>2. Rekeyed(RekeyBare(db.health, now)) = AllStamped(db.health, now)
    <3>1. \A r \in db.health :
            r.form # "bare" => r.at # NoTime /\ [r EXCEPT !.form = "fixed"] = Stamped(r, now)
      BY <1>2, <2>1 DEF RekeyBare, Bare
    <3> QED BY <1>2, <3>1 DEF Rekeyed, RekeyBare, Bare, AllStamped
  <2>3. Rekeyed(db.changes) = AllStamped(db.changes, now)
    BY <1>2, <2>1 DEF Rekeyed, AllStamped
  <2> QED BY <1>3, <2>2, <2>3 DEF RunMigrations, IsDb
<1>4. CASE ~ HasOldKeys(db)
  <2>1. db.version \in {0, StateSchemaVersion}
    BY <1>4 DEF MigrationRefused, HasOldKeys, IsDb, StateSchemaVersion
  <2>2. /\ \A r \in db.health : r.form # "bare" => r = Stamped(r, now)
        /\ \A r \in db.changes : r = Stamped(r, now)
    BY <1>2, <2>1 DEF IsDb
  <2>3. RekeyBare(db.health, now) = AllStamped(db.health, now)
    BY <2>2 DEF RekeyBare, Bare, AllStamped
  <2>4. db.changes = AllStamped(db.changes, now)
    BY <2>2 DEF AllStamped
  <2> QED BY <1>4, <2>3, <2>4 DEF RunMigrations, IsDb
<1> QED BY <1>3, <1>4

\* So what it leaves is a database of the current version, ordered, with every
\* record of before.
LEMMA MigrationKeeps ==
  ASSUME NEW db, IsDb(db), NEW now \in Nat \ {NoTime}, ~ MigrationRefused(db, now),
         NEW engine
  PROVE  LET new == Database("current", RunMigrations(db, now))
         IN  /\ WellFormed(new) /\ InUse(new) /\ new.db.rows = db.rows
             /\ Keeps(Database(engine, db), new)
<1> DEFINE migrated == RunMigrations(db, now)
           new == Database("current", migrated)
<1>1. migrated = [version |-> StateSchemaVersion, events_parse |-> db.events_parse,
                  rows |-> db.rows, health |-> AllStamped(db.health, now), changes |-> AllStamped(db.changes, now)]
  BY MigrationStampsAll
<1>2. /\ migrated.version = StateSchemaVersion /\ migrated.events_parse = db.events_parse
      /\ migrated.rows = db.rows
      /\ migrated.health = AllStamped(db.health, now)
      /\ migrated.changes = AllStamped(db.changes, now)
  BY <1>1
<1>3. new.kind = "database" /\ new.engine = "current" /\ new.db = migrated
  BY DEF Database
<1>4. \A r \in db.health \cup db.changes :
        /\ IsRow(Stamped(r, now)) /\ InVersionFour(Stamped(r, now))
        /\ Stamped(r, now).source = r.source /\ Stamped(r, now).parses = r.parses
        /\ r.at # NoTime => Stamped(r, now).at = r.at
  BY StampedRow DEF IsDb
<1>5. \A r \in migrated.health \cup migrated.changes : IsRow(r) /\ InVersionFour(r)
  BY <1>2, <1>4 DEF AllStamped
<1>6. IsDb(migrated)
  <2>1. migrated = [version |-> migrated.version, events_parse |-> migrated.events_parse,
                    rows |-> migrated.rows, health |-> migrated.health, changes |-> migrated.changes]
    BY <1>1, <1>2
  <2> QED BY <1>2, <1>5, <2>1 DEF IsDb, StateSchemaVersion
<1>7. Ordered(new)
  BY <1>3, <1>5 DEF Ordered, InVersionFour
<1>8. WellFormed(new) /\ InUse(new)
  BY <1>2, <1>3, <1>6, <1>7 DEF WellFormed, InUse, IsDatabase
<1>9. Keeps(Database(engine, db), new)
  <2>1. KeepsRows(db.health, migrated.health) /\ KeepsRows(db.changes, migrated.changes)
    BY <1>2, <1>4 DEF KeepsRows, AllStamped
  <2>2. Database(engine, db).db = db
    BY DEF Database
  <2> QED BY <1>2, <1>3, <2>1, <2>2 DEF Keeps, IsDatabase
<1> QED BY <1>2, <1>3, <1>8, <1>9

-----------------------------------------------------------------------------
(* What happens to a file.                                                 *)

\* A scan opens a file: what was there is kept.
LEMMA OpeningKeeps ==
  ASSUME NEW file, WellFormed(file), NEW now \in Nat \ {NoTime}, OpenAccepted(file, now)
  PROVE  /\ WellFormed(Opened(file, now)) /\ InUse(Opened(file, now))
         /\ Keeps(file, Opened(file, now))
         /\ RowsOf(Opened(file, now)) = RowsOf(file)
         /\ file.kind \in {"absent", "link", "database"}
         /\ IsDatabase(file) => file.engine = "current"
<1>1. CASE IsDatabase(file)
  <2>1. file = Database(file.engine, file.db) /\ IsDb(file.db)
    BY <1>1 DEF WellFormed, IsDatabase, Absent, Link, Directory, Garbage
  <2>2. ~ MigrationRefused(file.db, now) /\ file.engine = "current"
    BY <1>1 DEF OpenAccepted
  <2>3. Opened(file, now) = Database("current", RunMigrations(file.db, now))
    BY <1>1 DEF Opened
  <2> QED BY <1>1, <2>1, <2>2, <2>3, MigrationKeeps DEF IsDatabase, RowsOf, InUse
<1>2. CASE ~ IsDatabase(file)
  <2>1. IsDb(FreshDb)
    BY DEF IsDb, FreshDb, StateSchemaVersion
  <2>2. ~ MigrationRefused(FreshDb, now)
    BY DEF MigrationRefused, FreshDb, StateSchemaVersion, BareRefused, Bare, HasOldKeys
  <2>3. Opened(file, now) = Database("current", RunMigrations(FreshDb, now))
    BY <1>2 DEF Opened
  <2>4. /\ WellFormed(Opened(file, now)) /\ InUse(Opened(file, now))
        /\ RowsOf(Opened(file, now)) = {}
    BY <2>1, <2>2, <2>3, MigrationKeeps DEF RowsOf, InUse, FreshDb
  <2>5. file.kind \in {"absent", "link", "database"}
    BY <1>2 DEF WellFormed, IsDatabase, Absent, Link, Directory, Garbage, Database, OpenAccepted
  <2> QED BY <1>2, <2>4, <2>5 DEF Keeps, RowsOf
<1> QED BY <1>1, <1>2

\* A scan commits rows of the current form to a file it has opened.
LEMMA CommittingKeeps ==
  ASSUME NEW file, WellFormed(file), InUse(file), NEW table, NEW rows, NEW more,
         \A r \in rows \cup more : IsRow(r) /\ InVersionFour(r)
  PROVE  LET next == WithRows(file, table, rows, more)
         IN  WellFormed(next) /\ InUse(next) /\ RowsOf(next) = table /\ Keeps(file, next)
<1> DEFINE db == file.db
           new == [db EXCEPT !.rows = table, !.health = @ \cup rows, !.changes = @ \cup more]
           next == WithRows(file, table, rows, more)
<1>1. IsDb(db) /\ db.version = StateSchemaVersion
  BY DEF WellFormed, InUse, IsDatabase, Absent, Link, Directory, Garbage
<1>2. new = [version |-> db.version, events_parse |-> db.events_parse, rows |-> table,
             health |-> db.health \cup rows, changes |-> db.changes \cup more]
  <2> DEFINE v == db.version
             e == db.events_parse
             t == db.rows
             h == db.health
             c == db.changes
  <2>1. db = [version |-> v, events_parse |-> e, rows |-> t, health |-> h, changes |-> c]
    BY <1>1 DEF IsDb
  <2>2. new = [db EXCEPT !.rows = table, !.health = h \cup rows, !.changes = c \cup more]
    OBVIOUS
  <2> HIDE DEF db, v, e, t, h, c, new
  <2>3. new = [version |-> v, events_parse |-> e, rows |-> table, health |-> h \cup rows,
               changes |-> c \cup more]
    BY <2>1, <2>2
  <2> QED BY <2>3 DEF v, e, h, c
<1>3. /\ new.version = db.version /\ new.events_parse = db.events_parse /\ new.rows = table
      /\ new.health = db.health \cup rows /\ new.changes = db.changes \cup more
  BY <1>2
<1>4. IsDb(new)
  <2>1. new = [version |-> new.version, events_parse |-> new.events_parse, rows |-> new.rows,
               health |-> new.health, changes |-> new.changes]
    BY <1>2, <1>3
  <2> HIDE DEF new
  <2> QED BY <1>1, <1>3, <2>1 DEF IsDb, StateSchemaVersion
<1>5. next.kind = "database" /\ next.engine = "current" /\ next.db = new
  BY DEF WithRows, Database, InUse
<1> HIDE DEF new, next
<1>6. Ordered(next)
  BY <1>1, <1>3, <1>5 DEF InUse, Ordered, InVersionFour, IsDatabase
<1>7. next = Database(next.engine, next.db)
  BY <1>5 DEF next, WithRows, Database, new, InUse
<1>8. Keeps(file, next)
  <2>1. KeepsRows(db.health, new.health) /\ KeepsRows(db.changes, new.changes)
    BY <1>3 DEF KeepsRows
  <2> QED BY <1>3, <1>5, <2>1 DEF Keeps, IsDatabase
<1> QED BY <1>1, <1>3, <1>4, <1>5, <1>6, <1>7, <1>8 DEF WellFormed, InUse, IsDatabase, RowsOf, next

\* A candidate that is accepted is the migrated form of its source.
LEMMA CandidateIsMigrated ==
  ASSUME NEW file, WellFormed(file), StampTime \in Nat \ {NoTime},
         CandidateAccepted(file, StampTime)
  PROVE  /\ WellFormed(Candidate(file, StampTime)) /\ InUse(Candidate(file, StampTime))
         /\ IsDatabase(file) /\ Candidate(file, StampTime) = Copy!Migrated(file)
<1>1. /\ IsDatabase(file) /\ ~ MigrationRefused(file.db, StampTime)
      /\ RunMigrations(file.db, StampTime).events_parse
  BY DEF CandidateAccepted, Upgradable, Valid
<1>2. IsDb(file.db)
  BY <1>1 DEF WellFormed, IsDatabase, Absent, Link, Directory, Garbage
<1>3. RunMigrations(file.db, StampTime) =
        [version |-> StateSchemaVersion, events_parse |-> file.db.events_parse,
         rows |-> file.db.rows, health |-> AllStamped(file.db.health, StampTime),
         changes |-> AllStamped(file.db.changes, StampTime)]
  BY <1>1, <1>2, MigrationStampsAll
<1>4. file.db.events_parse = TRUE
  <2>1. file.db.events_parse \in BOOLEAN
    BY <1>2 DEF IsDb
  <2>2. RunMigrations(file.db, StampTime).events_parse = file.db.events_parse
    BY <1>3
  <2> QED BY <1>1, <2>1, <2>2
<1>5. \A rows : AllStamped(rows, StampTime) = Copy!MigratedRows(rows)
  BY DEF AllStamped, Stamped, Copy!MigratedRows, NoTime, Copy!NoTime
<1>6. Candidate(file, StampTime) = Copy!Migrated(file)
  <2> DEFINE yes == TRUE
  <2>1. file.db.events_parse = yes
    BY <1>4
  <2> HIDE DEF yes
  <2>2. RunMigrations(file.db, StampTime) =
          [version |-> StateSchemaVersion, events_parse |-> yes, rows |-> file.db.rows,
           health |-> Copy!MigratedRows(file.db.health),
           changes |-> Copy!MigratedRows(file.db.changes)]
    BY <1>3, <1>5, <2>1
  <2> QED BY <2>2, Zenon DEF Candidate, Copy!Migrated, Database, Copy!Database, yes,
                             StateSchemaVersion, Copy!StateSchemaVersion
<1> QED BY <1>1, <1>2, <1>6, MigrationKeeps DEF Candidate

-----------------------------------------------------------------------------
(* What a step does to the files.                                          *)

ScanUses(p) ==
  /\ \A q \in Paths \ {p} : files'[q] = files[q]
  /\ UNCHANGED durable
  /\ files[p].kind \in {"absent", "link", "database"}
  /\ IsDatabase(files[p]) => files[p].engine = "current"
  /\ InUse(files'[p]) /\ Keeps(files[p], files'[p])

\* An open that failed has made an empty database.
Creates(p) ==
  /\ \A q \in Paths \ {p} : files'[q] = files[q]
  /\ UNCHANGED durable
  /\ files[p] \in {Absent, Link} /\ files'[p] = Database("current", FreshDb)

Publishes ==
  /\ files["new"] = Absent /\ IsDatabase(files["old"])
  /\ files'["old"] = files["old"] /\ files'["new"] = Copy!Migrated(files["old"])
  /\ Ordered(files'["new"])
  /\ durable' = FALSE

Loses ==
  /\ ~ durable /\ durable' = TRUE
  /\ files'["old"] = files["old"] /\ files'["new"] = Absent

FileStep ==
  \/ UNCHANGED files /\ durable' \in {durable, TRUE}
  \/ \E p \in Paths : ScanUses(p) \/ Creates(p)
  \/ Publishes
  \/ Loses

-----------------------------------------------------------------------------
(* Every step keeps the invariant and is a step on files.                  *)

\* The files start inside the invariant.
LEMMA FilesInvInit == Init => FilesInv
BY PipelineAssumption
DEF Init, FilesInit, FilesInv, FilesWellFormed, ScanHolds, MigrationHolds, CandidateOfSource, Working

\* The phases of a scan between opening and committing leave the files alone.
LEMMA PhaseKeepsFilesInv ==
  ASSUME FilesInv, scenario' = scenario, scans' \in Nat, pc' # "store", UNCHANGED fileVars
  PROVE  FilesInv' /\ FileStep
BY DEF FilesInv, FilesWellFormed, ScanHolds, MigrationHolds, CandidateOfSource, fileVars, FileStep,
       HalfOf, CandidateAccepted, Candidate

\* So do closing a file without a commit, and a kill.
LEMMA CloseKeepsFilesInv ==
  ASSUME FilesInv, scenario' = scenario, scans' = scans, pc' # "store", CloseFile
  PROVE  FilesInv' /\ FileStep
BY DEF FilesInv, FilesWellFormed, ScanHolds, MigrationHolds, CandidateOfSource, CloseFile, FileStep,
       Unlocked, HalfOf, Paths

\* Opening the store keeps it.
LEMMA OpenKeepsFilesInv ==
  ASSUME FilesInv, OpenState
  PROVE  FilesInv' /\ FileStep
<1> DEFINE p == StatePath
<1>1. p \in Paths
  BY PipelineAssumption DEF FilesInv, FilesWellFormed, StatePath, args, Paths
<1>2. /\ lock[p] = "free" /\ OpenAccepted(files[p], StampTime)
      /\ files' = [files EXCEPT ![p] = Opened(files[p], StampTime)]
      /\ lock' = [lock EXCEPT ![p] = "scan"]
      /\ UNCHANGED <<stage, candidate, durable, migrations, scenario, scans>>
      /\ ~ args.no_state
  BY DEF OpenState, OpenFile
<1>3. StatePath' = p /\ args' = args
  BY <1>2 DEF StatePath, args
<1> HIDE DEF p
<1>4. /\ WellFormed(Opened(files[p], StampTime)) /\ InUse(Opened(files[p], StampTime))
      /\ Keeps(files[p], Opened(files[p], StampTime))
      /\ files[p].kind \in {"absent", "link", "database"}
      /\ IsDatabase(files[p]) => files[p].engine = "current"
  BY <1>1, <1>2, OpeningKeeps, PipelineAssumption DEF FilesInv, FilesWellFormed
<1>5. files'[p] = Opened(files[p], StampTime) /\ \A q \in Paths \ {p} : files'[q] = files[q]
  BY <1>1, <1>2 DEF FilesInv, FilesWellFormed
<1>6. FilesWellFormed'
  BY <1>1, <1>2, <1>4, <1>5 DEF FilesInv, FilesWellFormed
<1>7. ScanHolds'
  BY <1>1, <1>2, <1>3, <1>4, <1>5 DEF FilesInv, FilesWellFormed, ScanHolds
<1>8. MigrationHolds' /\ CandidateOfSource'
  <2>1. stage \in Working => p # "old"
    BY <1>2 DEF FilesInv, MigrationHolds
  <2>2. stage \in Working => files'["old"] = files["old"] /\ lock'["old"] = lock["old"]
    BY <1>1, <1>2, <1>5, <2>1 DEF FilesInv, FilesWellFormed, Paths
  <2> QED BY <1>2, <2>2
          DEF FilesInv, MigrationHolds, CandidateOfSource, Working, HalfOf
<1>9. ScanUses(p)
  BY <1>2, <1>4, <1>5 DEF ScanUses
<1> QED BY <1>1, <1>6, <1>7, <1>8, <1>9 DEF FilesInv, FileStep

\* So does an open that fails after it has made a file.
LEMMA HalfOpenKeepsFilesInv ==
  ASSUME FilesInv, OpenFailsHalfway
  PROVE  FilesInv' /\ FileStep
<1> DEFINE p == StatePath
           fresh == Database("current", FreshDb)
<1>1. p \in Paths
  BY PipelineAssumption DEF FilesInv, FilesWellFormed, StatePath, args, Paths
<1>2. /\ lock[p] = "free" /\ files[p] \in {Absent, Link} /\ pc' # "store"
      /\ files' = [files EXCEPT ![p] = fresh]
      /\ UNCHANGED <<lock, stage, candidate, durable, migrations, scenario, scans>>
  BY DEF OpenFailsHalfway, OpenFileHalfway, Exit
<1> HIDE DEF p
<1>3. WellFormed(fresh)
  BY DEF WellFormed, Database, IsDb, FreshDb, StateSchemaVersion
<1>4. files'[p] = fresh /\ \A q \in Paths \ {p} : files'[q] = files[q]
  BY <1>1, <1>2 DEF FilesInv, FilesWellFormed
<1>5. FilesWellFormed'
  BY <1>1, <1>2, <1>3, <1>4 DEF FilesInv, FilesWellFormed
<1>6. ScanHolds'
  BY <1>2 DEF ScanHolds
<1>7. MigrationHolds' /\ CandidateOfSource'
  <2>1. stage \in Working => p # "old"
    BY <1>2 DEF FilesInv, MigrationHolds
  <2>2. stage \in Working => files'["old"] = files["old"] /\ lock'["old"] = lock["old"]
    BY <1>2, <1>4, <2>1 DEF Paths
  <2> QED BY <1>2, <2>2 DEF FilesInv, MigrationHolds, CandidateOfSource, Working, HalfOf
<1>8. Creates(p)
  BY <1>2, <1>4 DEF Creates
<1> QED BY <1>1, <1>5, <1>6, <1>7, <1>8 DEF FilesInv, FileStep

\* Storing a scan keeps it.
LEMMA StoreKeepsFilesInv ==
  ASSUME FilesInv, StoreBundle
  PROVE  FilesInv' /\ FileStep
<1> DEFINE p == StatePath
           now == ScanTime + scans
           table == TableAfter(Rows, events', aliases, health)
           next == WithRows(files[p], table, HealthRows(now), ChangeRows(now))
<1>1. p \in Paths
  BY PipelineAssumption DEF FilesInv, FilesWellFormed, StatePath, args, Paths
<1>2. /\ files' = [files EXCEPT ![p] = next]
      /\ lock' = Unlocked("scan") /\ pc' = "present"
      /\ UNCHANGED <<stage, candidate, durable, migrations, scenario, scans>>
  BY DEF StoreBundle, CommitAndClose
<1>3. lock[p] = "scan" /\ InUse(files[p]) /\ WellFormed(files[p])
  BY <1>1 DEF StoreBundle, FilesInv, ScanHolds, FilesWellFormed
<1>4. \A r \in HealthRows(now) \cup ChangeRows(now) : IsRow(r) /\ InVersionFour(r)
  <2>1. now \in Nat /\ now # NoTime
    BY PipelineAssumption DEF FilesInv, FilesWellFormed, NoTime
  <2> HIDE DEF now
  <2>2. ASSUME NEW source
        PROVE  LET r == [form |-> "fixed", source |-> source, at |-> now, parses |-> TRUE]
               IN  IsRow(r) /\ InVersionFour(r)
    BY <2>1 DEF IsRow, InVersionFour
  <2> QED BY <2>2, Zenon DEF HealthRows, ChangeRows
<1> HIDE DEF p
<1>5. WellFormed(next) /\ InUse(next) /\ Keeps(files[p], next)
  BY <1>3, <1>4, CommittingKeeps
<1> HIDE DEF next
<1>6. files'[p] = next /\ \A q \in Paths \ {p} : files'[q] = files[q]
  BY <1>1, <1>2 DEF FilesInv, FilesWellFormed
<1>7. FilesWellFormed'
  BY <1>1, <1>2, <1>5, <1>6 DEF FilesInv, FilesWellFormed, Unlocked
<1>8. MigrationHolds' /\ CandidateOfSource'
  <2>1. stage \in Working => p # "old"
    BY <1>3 DEF FilesInv, MigrationHolds
  <2>2. stage \in Working => files'["old"] = files["old"] /\ lock'["old"] = lock["old"]
    BY <1>1, <1>2, <1>6, <2>1 DEF FilesInv, FilesWellFormed, MigrationHolds, Paths, Unlocked
  <2> QED BY <1>2, <2>2
          DEF FilesInv, MigrationHolds, CandidateOfSource, Working, HalfOf
<1>9. ScanUses(p)
  BY <1>2, <1>3, <1>5, <1>6 DEF ScanUses, InUse, IsDatabase
<1> QED BY <1>1, <1>2, <1>7, <1>8, <1>9 DEF FilesInv, FileStep, ScanHolds

\* Losing power keeps it: what was not durable was never promised.
LEMMA PowerLossKeepsFilesInv ==
  ASSUME FilesInv, PowerLoss
  PROVE  FilesInv' /\ FileStep
<1>1. pc' # "store" /\ scenario' = scenario /\ scans' = scans
  BY DEF PowerLoss, Running
<1>2. /\ files' = files \/ (~ durable /\ files' = [files EXCEPT !["new"] = Absent])
      /\ durable' = TRUE /\ lock' = [p \in Paths |-> "free"]
      /\ stage' \notin Working
  BY DEF PowerLoss, FilesAfterPowerLoss, Ended, Working
<1>3. FilesWellFormed'
  BY <1>1, <1>2 DEF FilesInv, FilesWellFormed, WellFormed, Paths
<1>4. ScanHolds' /\ MigrationHolds' /\ CandidateOfSource'
  BY <1>1, <1>2 DEF ScanHolds, MigrationHolds, CandidateOfSource, Working
<1>5. FileStep
  BY <1>2 DEF FileStep, Loses, FilesInv, FilesWellFormed, Paths
<1> QED BY <1>3, <1>4, <1>5 DEF FilesInv

\* Before it publishes, a migration changes its own candidate only, so that what is
\* left to show of a step is what the candidate is.
LEMMA WorkKeepsFilesInv ==
  ASSUME FilesInv, UNCHANGED <<scanVars, files, lock, durable>>,
         stage' \in Working => lock["old"] = "migration",
         CandidateOfSource'
  PROVE  FilesInv' /\ FileStep
BY DEF FilesInv, FilesWellFormed, ScanHolds, MigrationHolds, FileStep, scanVars, StatePath, args

\* A migration that ends, well or not, releases its locks.
LEMMA EndKeepsFilesInv ==
  ASSUME FilesInv, UNCHANGED <<scanVars, files>>, durable' \in {durable, TRUE},
         lock' = Unlocked("migration"), stage' \in Ended
  PROVE  FilesInv' /\ FileStep
<1>1. FilesWellFormed'
  BY DEF FilesInv, FilesWellFormed, scanVars, Unlocked
<1>2. ScanHolds'
  <2>1. pc = "store" => StatePath \in Paths
    BY PipelineAssumption DEF FilesInv, FilesWellFormed, StatePath, args, Paths
  <2> QED BY <2>1 DEF FilesInv, ScanHolds, scanVars, StatePath, args, Unlocked
<1>3. MigrationHolds' /\ CandidateOfSource'
  BY DEF MigrationHolds, CandidateOfSource, Working, Ended
<1> QED BY <1>1, <1>2, <1>3 DEF FilesInv, FileStep

\* A step that fails keeps it.
LEMMA FailKeepsFilesInv ==
  ASSUME FilesInv, UNCHANGED scanVars, Fail
  PROVE  FilesInv' /\ FileStep
BY EndKeepsFilesInv DEF Fail, Ended

\* Taking the migration lock keeps it.
LEMMA LockKeepsFilesInv ==
  ASSUME FilesInv, UNCHANGED scanVars, LockSource
  PROVE  FilesInv' /\ FileStep
<1>1. /\ lock["old"] = "free" /\ lock' = [lock EXCEPT !["old"] = "migration"]
      /\ stage' = "locked" /\ UNCHANGED <<files, durable>>
  BY DEF LockSource
<1>2. FilesWellFormed' /\ lock'["old"] = "migration"
  BY <1>1 DEF FilesInv, FilesWellFormed, scanVars, Paths
<1>3. ScanHolds'
  <2>1. pc = "store" => StatePath # "old"
    BY <1>1 DEF FilesInv, ScanHolds
  <2> QED BY <1>1, <2>1 DEF FilesInv, ScanHolds, scanVars, StatePath, args
<1>4. MigrationHolds' /\ CandidateOfSource'
  BY <1>1, <1>2 DEF MigrationHolds, CandidateOfSource
<1> QED BY <1>1, <1>2, <1>3, <1>4 DEF FilesInv, FileStep

\* Copying what is left of the old file keeps it.
LEMMA CopyRestKeepsFilesInv ==
  ASSUME FilesInv, UNCHANGED scanVars, CopyRest
  PROVE  FilesInv' /\ FileStep
<1> DEFINE file == files["old"]
<1>1. stage = "half" /\ stage' = "copied" /\ candidate = HalfOf(file) /\ lock["old"] = "migration"
      /\ UNCHANGED <<files, lock, durable>>
  BY DEF CopyRest, FilesInv, CandidateOfSource, MigrationHolds, Working
<1>2. candidate' = file
  <2>1. CASE ~ IsDatabase(file)
    BY <1>1, <2>1 DEF CopyRest, HalfOf
  <2>2. CASE IsDatabase(file)
    <3> DEFINE e == file.engine
               v == file.db.version
               b == file.db.events_parse
               t == file.db.rows
               h == file.db.health
               c == file.db.changes
    <3>1. file = Database(e, file.db) /\ IsDb(file.db)
      BY <2>2 DEF FilesInv, FilesWellFormed, WellFormed, IsDatabase, Paths,
                  Absent, Link, Directory, Garbage
    <3>2. file.db = [version |-> v, events_parse |-> b, rows |-> t, health |-> h, changes |-> c]
      BY <3>1 DEF IsDb
    <3>3. /\ candidate = [file EXCEPT !.db.changes = {}]
          /\ IsDatabase(candidate) => candidate' = [candidate EXCEPT !.db.changes = c]
      BY <1>1, <2>2 DEF CopyRest, HalfOf
    <3> HIDE DEF file, e, v, b, t, h, c
    <3>4. file = [kind |-> "database", engine |-> e, db |->
                   [version |-> v, events_parse |-> b, rows |-> t, health |-> h, changes |-> c]]
      BY <3>1, <3>2 DEF Database
    <3>5. candidate = [kind |-> "database", engine |-> e, db |->
                        [version |-> v, events_parse |-> b, rows |-> t, health |-> h, changes |-> {}]]
      BY <3>3, <3>4
    <3>6. IsDatabase(candidate)
      BY <3>5 DEF IsDatabase
    <3>7. candidate' = [kind |-> "database", engine |-> e, db |->
                         [version |-> v, events_parse |-> b, rows |-> t, health |-> h, changes |-> c]]
      <4> DEFINE half == [version |-> v, events_parse |-> b, rows |-> t, health |-> h, changes |-> {}]
                 whole == [half EXCEPT !.changes = c]
      <4>1. whole = [version |-> v, events_parse |-> b, rows |-> t, health |-> h, changes |-> c]
        OBVIOUS
      <4>2. candidate = [kind |-> "database", engine |-> e, db |-> half]
        BY <3>5
      <4> HIDE DEF half
      <4>3. candidate' = [candidate EXCEPT !.db = whole]
        <5>1. candidate.db = half
          BY <4>2
        <5>2. candidate' = [candidate EXCEPT !.db = [candidate.db EXCEPT !.changes = c]]
          BY <3>3, <3>6
        <5> QED BY <5>1, <5>2
      <4> HIDE DEF whole
      <4>4. candidate' = [kind |-> "database", engine |-> e, db |-> whole]
        BY <4>2, <4>3
      <4> QED BY <4>1, <4>4
    <3> QED BY <3>4, <3>7
  <2> QED BY <2>1, <2>2
<1>3. CandidateOfSource'
  BY <1>1, <1>2 DEF CandidateOfSource
<1> QED BY <1>1, <1>3, WorkKeepsFilesInv

\* Publishing the copy under the new name keeps it.
LEMMA PublishKeepsFilesInv ==
  ASSUME FilesInv, UNCHANGED scanVars, PublishCandidate
  PROVE  FilesInv' /\ FileStep /\ Publishes
<1>1. /\ stage = "ready" /\ files["new"] = Absent /\ stage' = "published" /\ durable' = FALSE
      /\ files' = [files EXCEPT !["new"] = candidate] /\ UNCHANGED lock
  BY DEF PublishCandidate
<1>2. WellFormed(files["old"]) /\ CandidateAccepted(files["old"], StampTime)
      /\ candidate = Candidate(files["old"], StampTime)
  BY <1>1 DEF FilesInv, FilesWellFormed, CandidateOfSource, Paths
<1>3. WellFormed(candidate) /\ InUse(candidate) /\ IsDatabase(files["old"])
      /\ candidate = Copy!Migrated(files["old"])
  BY <1>2, CandidateIsMigrated, PipelineAssumption
<1>4. files'["new"] = candidate /\ files'["old"] = files["old"]
  BY <1>1 DEF FilesInv, FilesWellFormed, Paths
<1>5. FilesWellFormed'
  BY <1>1, <1>3, <1>4 DEF FilesInv, FilesWellFormed, scanVars, Paths
<1>6. ScanHolds'
  <2>1. pc = "store" => StatePath \in {"old", "new"}
    BY PipelineAssumption DEF FilesInv, FilesWellFormed, ScanHolds, StatePath, args, Paths
  <2>2. ~ IsDatabase(files["new"])
    BY <1>1 DEF IsDatabase, Absent
  <2>3. pc = "store" => StatePath = "old"
    BY <2>1, <2>2 DEF FilesInv, ScanHolds, InUse
  <2> QED BY <1>1, <1>4, <2>3 DEF FilesInv, ScanHolds, scanVars, StatePath, args
<1>7. MigrationHolds' /\ CandidateOfSource'
  BY <1>1 DEF MigrationHolds, CandidateOfSource, Working
<1>8. Publishes
  BY <1>1, <1>3, <1>4 DEF Publishes, InUse
<1> QED BY <1>5, <1>6, <1>7, <1>8 DEF FilesInv, FileStep

\* Every step of the migration keeps it.
LEMMA MigrationKeepsFilesInv ==
  ASSUME FilesInv, UNCHANGED scanVars, MigrationNext
  PROVE  FilesInv' /\ FileStep
<1>1. CASE LockSource
  BY <1>1, LockKeepsFilesInv
<1>2. CASE RefuseSource \/ RefuseDestination \/ RefuseCandidate \/ RefusePublication \/ MigrationIoError
  BY <1>2, FailKeepsFilesInv
  DEF RefuseSource, RefuseDestination, RefuseCandidate, RefusePublication, MigrationIoError
<1>3. CASE CheckDestination
  BY <1>3, WorkKeepsFilesInv
  DEF CheckDestination, FilesInv, MigrationHolds, Working, CandidateOfSource
<1>4. CASE CopyHalf
  BY <1>4, WorkKeepsFilesInv
  DEF CopyHalf, FilesInv, MigrationHolds, Working, CandidateOfSource, HalfOf
<1>5. CASE CopyRest
  BY <1>5, CopyRestKeepsFilesInv
<1>6. CASE PrepareCandidate
  BY <1>6, WorkKeepsFilesInv
  DEF PrepareCandidate, FilesInv, MigrationHolds, Working, CandidateOfSource,
      CandidateAccepted, Candidate
<1>7. CASE PublishCandidate
  BY <1>7, PublishKeepsFilesInv
<1>8. CASE SyncDirectory \/ SyncFails \/ KillMigration
  BY <1>8, EndKeepsFilesInv DEF SyncDirectory, SyncFails, KillMigration, Ended
<1>9. CASE RunAgain
  BY <1>9, WorkKeepsFilesInv DEF RunAgain, Working, CandidateOfSource
<1> QED BY <1>1, <1>2, <1>3, <1>4, <1>5, <1>6, <1>7, <1>8, <1>9 DEF MigrationNext

\* Every step of the pipeline keeps it.
LEMMA NextKeepsFilesInv ==
  ASSUME FilesInv, [Next]_vars
  PROVE  FilesInv' /\ FileStep
<1>0. scans \in Nat /\ scans + 1 \in Nat
  BY DEF FilesInv, FilesWellFormed
<1>1. CASE Load \/ ClientFails \/ FetchAll \/ NothingFetched \/ Cap \/ Enrich \/ Merge
  BY <1>0, <1>1, PhaseKeepsFilesInv
  DEF Load, ClientFails, FetchAll, NothingFetched, Cap, Enrich, Merge, Exit
<1>2. CASE SkipState \/ OpenFails \/ Present \/ Render \/ RenderFails \/ ScanAgain
  BY <1>0, <1>2, PhaseKeepsFilesInv
  DEF SkipState, OpenFails, Present, Render, RenderFails, ScanAgain, Exit
<1>3. CASE OpenState
  BY <1>3, OpenKeepsFilesInv
<1>4. CASE StoreBundle
  BY <1>4, StoreKeepsFilesInv
<1>5. CASE StoreFails \/ Kill
  BY <1>5, CloseKeepsFilesInv DEF StoreFails, Kill, Exit
<1>6. CASE PowerLoss
  BY <1>6, PowerLossKeepsFilesInv
<1>7. CASE MigrationNext /\ UNCHANGED scanVars
  BY <1>7, MigrationKeepsFilesInv
<1>8. CASE UNCHANGED vars
  BY <1>8, WorkKeepsFilesInv
  DEF vars, scanVars, fileVars, FilesInv, MigrationHolds, CandidateOfSource
<1>9. CASE OpenFailsHalfway
  BY <1>9, HalfOpenKeepsFilesInv
<1> QED BY <1>1, <1>2, <1>3, <1>4, <1>5, <1>6, <1>7, <1>8, <1>9 DEF Next, ScanNext

\* The files' invariant holds in every reachable state.
THEOREM FilesInvHolds == Spec => []FilesInv
BY FilesInvInit, NextKeepsFilesInv, PTL DEF Spec

-----------------------------------------------------------------------------
(* The rows of the files.                                                  *)

\* The table of a file stays, moves with its file, goes, or is left by a transaction.
RowsFrom(p) ==
  \/ \E q \in Paths : RowsOf(files'[p]) = RowsOf(files[q])
  \/ RowsOf(files'[p]) = {}
  \/ StoreBundle /\ RowsOf(files'[p]) = TableAfter(Rows, events', aliases, health)

LEMMA RowsStep ==
  ASSUME FilesInv, [Next]_vars, NEW p \in Paths
  PROVE  RowsFrom(p)
<1>1. ASSUME OpenState
      PROVE  RowsFrom(p)
  <2>1. StatePath \in Paths
    BY PipelineAssumption DEF FilesInv, FilesWellFormed, StatePath, args, Paths
  <2>2. /\ OpenAccepted(files[StatePath], StampTime) /\ WellFormed(files[StatePath])
        /\ files' = [files EXCEPT ![StatePath] = Opened(files[StatePath], StampTime)]
    BY <1>1, <2>1 DEF OpenState, OpenFile, FilesInv, FilesWellFormed
  <2>3. RowsOf(Opened(files[StatePath], StampTime)) = RowsOf(files[StatePath])
    BY <2>2, OpeningKeeps, PipelineAssumption
  <2>4. files'[p] = files[p] \/ (p = StatePath /\ files'[p] = Opened(files[p], StampTime))
    BY <2>1, <2>2 DEF FilesInv, FilesWellFormed
  <2> QED BY <2>3, <2>4 DEF RowsFrom
<1>2. ASSUME StoreBundle
      PROVE  RowsFrom(p)
  <2> DEFINE file == files[StatePath]
             table == TableAfter(Rows, events', aliases, health)
             health_rows == HealthRows(ScanTime + scans)
             change_rows == ChangeRows(ScanTime + scans)
  <2>1. StatePath \in Paths
    BY PipelineAssumption DEF FilesInv, FilesWellFormed, StatePath, args, Paths
  <2>2. files' = [files EXCEPT ![StatePath] = WithRows(file, table, health_rows, change_rows)]
    BY <1>2 DEF StoreBundle, CommitAndClose
  <2> HIDE DEF file, table, health_rows, change_rows
  <2>4. RowsOf(WithRows(file, table, health_rows, change_rows)) = table
    <3> DEFINE new == [file.db EXCEPT !.rows = table, !.health = @ \cup health_rows,
                                      !.changes = @ \cup change_rows]
    <3>1. IsDb(file.db)
      BY <1>2, <2>1 DEF StoreBundle, FilesInv, FilesWellFormed, ScanHolds, InUse, WellFormed,
                        IsDatabase, Absent, Link, Directory, Garbage, file
    <3>2. new.rows = table
      BY <3>1 DEF IsDb
    <3> QED BY <3>2 DEF WithRows, RowsOf, IsDatabase, Database
  <2>5. \/ files'[p] = files[p]
        \/ p = StatePath /\ files'[p] = WithRows(file, table, health_rows, change_rows)
    BY <2>1, <2>2 DEF FilesInv, FilesWellFormed
  <2> QED BY <1>2, <2>1, <2>4, <2>5 DEF RowsFrom, file, table
<1>3. ASSUME ~ OpenState, ~ StoreBundle
      PROVE  \/ UNCHANGED files
             \/ \E q \in Paths : Creates(q)
             \/ Publishes
             \/ Loses
  <2>1. ASSUME UNCHANGED fileVars PROVE UNCHANGED files
    BY <2>1 DEF fileVars
  <2>2. CASE Load \/ ClientFails \/ FetchAll \/ NothingFetched \/ Cap \/ Enrich \/ Merge
    BY <2>1, <2>2 DEF Load, ClientFails, FetchAll, NothingFetched, Cap, Enrich, Merge
  <2>3. CASE SkipState \/ OpenFails \/ Present \/ Render \/ RenderFails \/ ScanAgain
    BY <2>1, <2>3 DEF SkipState, OpenFails, Present, Render, RenderFails, ScanAgain
  <2>4. CASE StoreFails \/ Kill
    BY <2>4 DEF StoreFails, Kill, CloseFile
  <2>5. CASE OpenFailsHalfway
    <3>1. StatePath \in Paths
      BY PipelineAssumption DEF FilesInv, FilesWellFormed, StatePath, args, Paths
    <3> QED BY <2>5, <3>1
            DEF OpenFailsHalfway, OpenFileHalfway, Creates, FilesInv, FilesWellFormed
  <2>6. CASE PowerLoss
    BY <2>6 DEF PowerLoss, FilesAfterPowerLoss, Loses, FilesInv, FilesWellFormed, Paths
  <2>7. CASE MigrationNext /\ UNCHANGED scanVars
    <3>1. CASE PublishCandidate
      BY <2>7, <3>1, PublishKeepsFilesInv
    <3>2. CASE ~ PublishCandidate
      BY <2>7, <3>2
      DEF MigrationNext, LockSource, RefuseSource, CheckDestination, RefuseDestination, CopyHalf,
          CopyRest, PrepareCandidate, RefuseCandidate, RefusePublication, SyncDirectory,
          SyncFails, MigrationIoError, KillMigration, RunAgain, Fail
    <3> QED BY <3>1, <3>2
  <2>8. CASE UNCHANGED vars
    BY <2>1, <2>8 DEF vars
  <2> QED BY <1>3, <2>2, <2>3, <2>4, <2>5, <2>6, <2>7, <2>8 DEF Next, ScanNext
<1>4. ASSUME Publishes
      PROVE  RowsFrom(p)
  <2>1. RowsOf(Copy!Migrated(files["old"])) = RowsOf(files["old"])
    BY <1>4 DEF Publishes, RowsOf, IsDatabase, Copy!Migrated, Copy!Database
  <2> QED BY <1>4, <2>1 DEF Publishes, RowsFrom, Paths
<1>5. ASSUME Loses \/ \E q \in Paths : Creates(q)
      PROVE  RowsFrom(p)
  <2>1. RowsOf(Absent) = {} /\ RowsOf(Database("current", FreshDb)) = {}
    BY DEF RowsOf, IsDatabase, Absent, Database, FreshDb
  <2> QED BY <1>5, <2>1 DEF Loses, Creates, RowsFrom, Paths
<1>6. ASSUME UNCHANGED files
      PROVE  RowsFrom(p)
  BY <1>6 DEF RowsFrom
<1> QED BY <1>1, <1>2, <1>3, <1>4, <1>5, <1>6

-----------------------------------------------------------------------------
(* The theorems.                                                           *)

\* Whatever the files, and whatever scans, kills, errors and losses of power there
\* are: no record of a state file is lost, and none is left under a key that does
\* not sort.
THEOREM HistoryIsKept == Spec => HistoryKept
<1>1. ASSUME FilesInv, [Next]_vars
      PROVE  [\A p \in Paths : files'[p] # files[p] =>
                /\ Keeps(files[p], files'[p]) \/ (files'[p] = Absent /\ ~ durable)
                /\ Ordered(files'[p])]_vars
  <2>1. SUFFICES ASSUME NEW p \in Paths, files'[p] # files[p]
                 PROVE  /\ Keeps(files[p], files'[p]) \/ (files'[p] = Absent /\ ~ durable)
                        /\ Ordered(files'[p])
    OBVIOUS
  <2>2. FileStep
    BY <1>1, NextKeepsFilesInv
  <2>3. CASE ScanUses(p)
    BY <2>3 DEF ScanUses, InUse
  <2>4. CASE Publishes
    BY <2>1, <2>4 DEF Publishes, Keeps, IsDatabase, Absent, Paths
  <2>5. CASE Loses
    BY <2>1, <2>5 DEF Loses, Ordered, IsDatabase, Absent, Paths
  <2>6. CASE Creates(p)
    BY <2>1, <2>6 DEF Creates, Keeps, IsDatabase, Absent, Link, Ordered, Database, FreshDb,
                      StateSchemaVersion
  <2> QED BY <2>1, <2>2, <2>3, <2>4, <2>5, <2>6 DEF FileStep, ScanUses, Creates
<1> QED BY <1>1, FilesInvHolds, PTL DEF Spec, HistoryKept

\* The two copies of the operators of Migrations agree.
LEMMA SameOperators ==
  ASSUME NEW file, NEW next
  PROVE  /\ Copy!Keeps(file, next) = Keeps(file, next)
         /\ Copy!IsDatabase(file) = IsDatabase(file)
         /\ Copy!Absent = Absent /\ Copy!StateSchemaVersion = StateSchemaVersion
         /\ Copy!Database("current", Copy!FreshDb) = Database("current", FreshDb)
BY DEF Copy!Keeps, Keeps, Copy!KeepsRows, KeepsRows, Copy!IsDatabase, IsDatabase, Copy!NoTime, NoTime,
       Copy!Absent, Absent, Copy!Database, Database, Copy!FreshDb, FreshDb,
       Copy!StateSchemaVersion, StateSchemaVersion

\* `state migrate` is atomic, whatever else happens to the two files.
THEOREM CopyingIsAtomic == Spec => CopyIsAtomic
<1>1. Init => Copy!CopyInit
  BY DEF Init, FilesInit, Copy!CopyInit
<1>2. ASSUME FilesInv, [Next]_vars
      PROVE  [Copy!CopyNext]_(Copy!copyVars)
  <2>1. FileStep /\ durable \in BOOLEAN
    BY <1>2, NextKeepsFilesInv DEF FilesInv, FilesWellFormed
  <2>2. CASE UNCHANGED files /\ durable' \in {durable, TRUE}
    BY <2>1, <2>2 DEF Copy!CopyNext, Copy!Settle, Copy!copyVars
  <2>3. CASE ScanUses("old")
    BY <2>3, SameOperators
    DEF ScanUses, InUse, Paths, Copy!CopyNext, Copy!UseSource, Copy!Used
  <2>4. CASE ScanUses("new")
    BY <2>4, SameOperators
    DEF ScanUses, InUse, Paths, Copy!CopyNext, Copy!UseDestination, Copy!Used
  <2>5. CASE Publishes
    BY <2>5, SameOperators DEF Publishes, Copy!CopyNext, Copy!Publish
  <2>6. CASE Loses
    BY <2>6, SameOperators DEF Loses, Copy!CopyNext, Copy!Vanish
  <2>7. ASSUME NEW p \in Paths, Creates(p)
        PROVE  Copy!CopyNext
    <3>1. files[p].kind \in {"absent", "link", "database"} /\ ~ IsDatabase(files[p])
      BY <2>7 DEF Creates, Absent, Link, IsDatabase
    <3>2. Copy!Used(files[p], files'[p])
      BY <2>7, <3>1, SameOperators DEF Creates, Copy!Used
    <3> QED BY <2>7, <3>2 DEF Creates, Paths, Copy!CopyNext, Copy!UseSource, Copy!UseDestination
  <2> QED BY <2>1, <2>2, <2>3, <2>4, <2>5, <2>6, <2>7 DEF FileStep, Paths
<1> QED BY <1>1, <1>2, FilesInvHolds, PTL DEF Spec, CopyIsAtomic, Copy!CopySpec

-----------------------------------------------------------------------------
(* Exit codes.                                                             *)

SomeUsable == \E r \in DOMAIN results : Usable(results[r])

\* A state file was named, and not switched off.
StateNamed == args.state # NotGiven /\ ~ args.no_state

\* What each phase of a scan knows of the ones before.
PhasesInOrder ==
  /\ pc \in {"load", "fetch"} => ~ requested
  /\ pc \in {"load", "fetch", "cap", "enrich", "merge", "persist", "store"} => stored = NotStored
  /\ pc \in {"cap", "enrich", "merge", "persist", "store", "present", "render"} => SomeUsable
  /\ pc = "store" \/ stored # NotStored => ~ args.no_state
  /\ pc \in {"present", "render"} /\ StateNamed => stored # NotStored

ExitInv == PhasesInOrder /\ ExitTellsWhatHappened

\* The scenario is chosen once, what the sources give for each run.
LEMMA InputsKept == Next => scenario' = scenario /\ (results' = results \/ ScanAgain)
BY DEF Next, ScanNext, scanVars, Load, ClientFails, FetchAll, NothingFetched, Cap, Enrich, Merge,
       SkipState, OpenState, OpenFails, OpenFailsHalfway, StoreBundle, StoreFails, Present,
       Render, RenderFails, Kill, PowerLoss, ScanAgain

\* Every step keeps the exit code's invariant.
LEMMA NextKeepsExitInv ==
  ASSUME ExitInv, [Next]_vars
  PROVE  ExitInv'
<1>. USE DEF ExitInv, PhasesInOrder, ExitTellsWhatHappened, Exit
<1>1. /\ scenario' = scenario /\ args' = args /\ StateNamed' = StateNamed
      /\ results' = results \/ ScanAgain
      /\ results' = results => SomeUsable' = SomeUsable
  <2>1. scenario' = scenario /\ (results' = results \/ ScanAgain)
    BY InputsKept DEF vars, scanVars
  <2> QED BY <2>1 DEF SomeUsable, StateNamed, args
<1>2. SomeUsable <=> \E r \in DOMAIN results : Usable(results[r])
  BY DEF SomeUsable
<1>3. CASE Load
  <2>1. LoadExit(args) \in {0, 2, 3, 4}
    BY Zenon DEF LoadExit
  <2> QED BY <1>1, <1>3, <2>1 DEF Load
<1>4. CASE ClientFails
  BY <1>1, <1>4 DEF ClientFails
<1>5. CASE FetchAll
  BY <1>1, <1>2, <1>5 DEF FetchAll
<1>6. CASE NothingFetched
  BY <1>1, <1>6 DEF NothingFetched
<1>7. CASE Cap \/ Enrich \/ Merge
  BY <1>1, <1>7 DEF Cap, Enrich, Merge
<1>8. CASE SkipState
  BY <1>1, <1>8 DEF SkipState, StateNamed
<1>9. CASE OpenState
  BY <1>1, <1>9 DEF OpenState
<1>10. CASE OpenFails \/ OpenFailsHalfway
  BY <1>1, <1>10 DEF OpenFails, OpenFailsHalfway, StateNamed
<1>11. CASE StoreBundle
  <2>1. stored' # NotStored
    BY <1>11 DEF StoreBundle, NotStored
  <2> QED BY <1>1, <1>11, <2>1 DEF StoreBundle
<1>12. CASE StoreFails
  BY <1>1, <1>12 DEF StoreFails
<1>13. CASE Present
  BY <1>1, <1>13 DEF Present
<1>14. CASE Render \/ RenderFails
  BY <1>1, <1>2, <1>14 DEF Render, RenderFails, StateNamed
<1>15. CASE Kill \/ PowerLoss
  BY <1>1, <1>15 DEF Kill, PowerLoss, Running
<1>16. CASE ScanAgain
  BY <1>1, <1>16 DEF ScanAgain
<1>17. CASE UNCHANGED scanVars
  BY <1>1, <1>17 DEF scanVars
<1> QED BY <1>3, <1>4, <1>5, <1>6, <1>7, <1>8, <1>9, <1>10, <1>11, <1>12, <1>13, <1>14, <1>15,
           <1>16, <1>17 DEF Next, ScanNext, vars

\* Whatever a scan finds, and wherever it fails, its exit code tells whether a source
\* was usable, a request was sent and the state was written.
THEOREM ExitCodesTell == Spec => []ExitTellsWhatHappened
<1>1. Init => ExitInv
  BY DEF Init, ExitInv, PhasesInOrder, ExitTellsWhatHappened
<1> QED BY <1>1, NextKeepsExitInv, PTL DEF Spec, ExitInv

=============================================================================
