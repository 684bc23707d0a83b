------------------------------ MODULE AtomicCopy ------------------------------
(***************************************************************************)
(* What `state migrate` promises about the two files it is given, whatever *)
(* scans run and whatever fails in between: the destination comes into     *)
(* being whole, in one step, only where nothing is, as the migrated form   *)
(* of what the source is at that moment; the source is never changed by it.*)
(* Only a loss of power soon after may take the destination back.          *)
(***************************************************************************)
EXTENDS Migrations

CONSTANT StampTime  \* the time that a migration gives to records without one

VARIABLES
  source,       \* the file given as --from
  destination,  \* the file given as --to
  durable       \* FALSE: the directory entry of the destination may be lost

copyVars == <<source, destination, durable>>

\* The same records, under keys of the current form, in a file of the current engine.
MigratedRows(rows) ==
  {[r EXCEPT !.form = "fixed", !.at = IF @ = NoTime THEN StampTime ELSE @] : r \in rows}

Migrated(file) ==
  Database("current", [version |-> StateSchemaVersion, events_parse |-> TRUE,
                       rows |-> file.db.rows, health |-> MigratedRows(file.db.health),
                       changes |-> MigratedRows(file.db.changes)])

\* A scan opens a file and writes to it: it keeps what is there.  Where nothing is, it
\* may fail as soon as it has made an empty database.
Used(file, next) ==
  /\ file.kind \in {"absent", "link", "database"}
  /\ IsDatabase(file) => file.engine = "current"
  /\ \/ /\ IsDatabase(next) /\ next.engine = "current"
        /\ next.db.version = StateSchemaVersion
        /\ Keeps(file, next)
     \/ ~ IsDatabase(file) /\ next = Database("current", FreshDb)

UseSource      == Used(source, source') /\ UNCHANGED <<destination, durable>>
UseDestination == Used(destination, destination') /\ UNCHANGED <<source, durable>>

Publish ==
  /\ IsDatabase(source) /\ destination = Absent
  /\ destination' = Migrated(source)
  /\ durable' = FALSE
  /\ UNCHANGED source

Settle ==
  /\ ~ durable /\ durable' = TRUE
  /\ UNCHANGED <<source, destination>>

Vanish ==
  /\ ~ durable /\ durable' = TRUE
  /\ destination' = Absent
  /\ UNCHANGED source

CopyInit == durable = TRUE
CopyNext == UseSource \/ UseDestination \/ Publish \/ Settle \/ Vanish
CopySpec == CopyInit /\ [][CopyNext]_copyVars

=============================================================================
