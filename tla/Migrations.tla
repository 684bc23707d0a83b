------------------------------ MODULE Migrations ------------------------------
(***************************************************************************)
(* State files as an older or newer version of the program left them, and  *)
(* what opening one does to its content: run_migrations.                   *)
(*                                                                         *)
(* A row is its record and the form of its key.  Keys are made from the    *)
(* record, so `source` and `at` are both: a health row's source and time,  *)
(* or a change's event, kind and detail, and its time.  A key is "bare"    *)
(* (the source alone, as up to version 2), "variable" (the time in RFC3339 *)
(* with as many digits as it needs, as in version 3) or "fixed" (nine      *)
(* digits, so that keys sort as times do).  A record may not parse.  The   *)
(* tables events and cancelled_events are never rewritten: `rows` are the  *)
(* events that parse, and `events_parse` says whether all of both do.      *)
(***************************************************************************)
EXTENDS Integers, FiniteSets

NoTime == 0         \* a record written before health rows had a time
StateSchemaVersion == 4

\* version 0 is a file without a version row, as redb makes it.
FreshDb ==
  [version |-> 0, events_parse |-> TRUE, rows |-> {}, health |-> {}, changes |-> {}]

Absent    == [kind |-> "absent"]
Link      == [kind |-> "link"]       \* a symbolic link to nothing
Directory == [kind |-> "directory"]
Garbage   == [kind |-> "garbage"]    \* a regular file that is no database
Database(engine, db) == [kind |-> "database", engine |-> engine, db |-> db]

IsDatabase(file) == file.kind = "database"

\* The events of a file.
RowsOf(file) == IF IsDatabase(file) THEN file.db.rows ELSE {}

-----------------------------------------------------------------------------
(* The files that the versions of the program leave.                       *)

IsRow(r) ==
  /\ r = [form |-> r.form, source |-> r.source, at |-> r.at, parses |-> r.parses]
  /\ r.form \in {"bare", "variable", "fixed"} /\ r.at \in Nat /\ r.parses \in BOOLEAN

\* Version 4 makes keys from times, with nine digits; bare keys it leaves to
\* run_migrations.
InVersionFour(r) == r.form = "fixed" /\ r.at # NoTime

IsDb(db) ==
  /\ db = [version |-> db.version, events_parse |-> db.events_parse, rows |-> db.rows,
           health |-> db.health, changes |-> db.changes]
  /\ db.version \in Nat /\ db.events_parse \in BOOLEAN
  /\ \A r \in db.health \cup db.changes : IsRow(r)
  /\ db.version = 0 => db.rows = {} /\ db.health = {} /\ db.changes = {}
  /\ db.version = StateSchemaVersion =>
       /\ \A r \in db.health : r.form = "bare" \/ InVersionFour(r)
       /\ \A r \in db.changes : InVersionFour(r)

WellFormed(file) ==
  \/ file \in {Absent, Link, Directory, Garbage}
  \/ /\ file = Database(file.engine, file.db)
     /\ file.engine \in {"legacy", "current"} /\ IsDb(file.db)

-----------------------------------------------------------------------------
(* run_migrations                                                          *)

Key(row) == <<row.source, row.at>>

Stamped(row, now) == [row EXCEPT !.form = "fixed", !.at = IF @ = NoTime THEN now ELSE @]

Bare(rows) == {r \in rows : r.form = "bare"}

\* A bare row must not take the place of a row that has its new key as it stands,
\* nor of another bare one.
BareRefused(rows, now) ==
  \E r \in Bare(rows) :
    \/ ~ r.parses
    \/ \E s \in rows \ {r} :
         /\ s.form \in {"bare", "fixed"}
         /\ Key(Stamped(s, now)) = Key(Stamped(r, now))

\* migrate_legacy_source_health: whatever the version.
RekeyBare(rows, now) == (rows \ Bare(rows)) \cup {Stamped(r, now) : r \in Bare(rows)}

RekeyRefused(rows) ==
  \E r \in rows : \/ ~ r.parses \/ r.at = NoTime
                  \/ \E s \in rows \ {r} : Key(s) = Key(r)

\* rekey_source_health_v4, rekey_change_log_v4
Rekeyed(rows) == {[r EXCEPT !.form = "fixed"] : r \in rows}

HasOldKeys(db) == db.version \in 1..3

MigrationRefused(db, now) ==
  \/ db.version > StateSchemaVersion
  \/ BareRefused(db.health, now)
  \/ /\ HasOldKeys(db)
     /\ RekeyRefused(RekeyBare(db.health, now)) \/ RekeyRefused(db.changes)

\* Fault: the keys of version 3 are left as they are.
RunMigrationsBeforeThree(db, now) ==
  LET health == RekeyBare(db.health, now)
  IN  IF MigrationRefused(db, now) THEN db
      ELSE [db EXCEPT !.version = StateSchemaVersion,
              !.health = IF db.version \in 1..2 THEN Rekeyed(health) ELSE health,
              !.changes = IF db.version \in 1..2 THEN Rekeyed(@) ELSE @]

\* All in one transaction: a refusal leaves everything as it was.
RunMigrations(db, now) ==
  LET health == RekeyBare(db.health, now)
  IN  IF MigrationRefused(db, now) THEN db
      ELSE [db EXCEPT !.version = StateSchemaVersion,
              !.health = IF HasOldKeys(db) THEN Rekeyed(health) ELSE health,
              !.changes = IF HasOldKeys(db) THEN Rekeyed(@) ELSE @]

-----------------------------------------------------------------------------
(* Repository::open                                                        *)

OpenAccepted(file, now) ==
  /\ file.kind \notin {"directory", "garbage"}
  /\ IsDatabase(file) => file.engine = "current" /\ ~ MigrationRefused(file.db, now)

\* Where nothing is, or a link to nothing, a database is made.
Opened(file, now) ==
  Database("current", RunMigrations(IF IsDatabase(file) THEN file.db ELSE FreshDb, now))

-----------------------------------------------------------------------------
(* The candidate of migrate_copy: upgraded, opened, validated.             *)

\* upgrade_engine, supported_version
Upgradable(file) == IsDatabase(file) /\ file.db.version \in 1..StateSchemaVersion

\* validate
Valid(db) ==
  /\ db.version = StateSchemaVersion
  /\ db.events_parse
  /\ \A r \in db.health \cup db.changes : r.parses

CandidateAccepted(file, now) ==
  /\ Upgradable(file)
  /\ ~ MigrationRefused(file.db, now)
  /\ Valid(RunMigrations(file.db, now))

Candidate(file, now) == Database("current", RunMigrations(file.db, now))

-----------------------------------------------------------------------------
(* What a migration must keep.                                             *)

\* Every record of the older rows is among the newer ones, one without a time
\* with some time.
KeepsRows(older, newer) ==
  \A r \in older : \E n \in newer :
    n.source = r.source /\ (r.at # NoTime => n.at = r.at) /\ n.parses = r.parses

Keeps(older, newer) ==
  IsDatabase(older) =>
    /\ IsDatabase(newer)
    /\ KeepsRows(older.db.health, newer.db.health)
    /\ KeepsRows(older.db.changes, newer.db.changes)
    /\ older.db.events_parse = newer.db.events_parse

\* The keys of a file of the current version sort as times do.
Ordered(file) ==
  IsDatabase(file) /\ file.db.version = StateSchemaVersion =>
    \A r \in file.db.health \cup file.db.changes : r.form = "fixed"

=============================================================================
