------------------------------ MODULE Migrations ------------------------------
(***************************************************************************)
(* packages/olap-types: the runner that brings the ClickHouse schema up to  *)
(* date.  It reads which versions are recorded, executes the statements of  *)
(* the others in order and records each version when it is through, or when *)
(* it has failed.  Every statement and every record is a request of its own *)
(* and nothing locks: several runners may be at work (every developer's and *)
(* every deployment's start runs one), each may die between two requests,   *)
(* and start.sh executes the same files without a look at the records.      *)
(***************************************************************************)
EXTENDS Integers, Sequences, FiniteSets

CONSTANTS
    Runner,        \* processes that run migrations
    Last,          \* versions are 0..Last
    Object,        \* tables and views
    Creates,       \* Creates[v]: what the statements of version v create, in order
    Needs,         \* Needs[o]: what must exist for o to be created
    Tracking,      \* schema_migrations
    NameOrder,     \* NameOrder[o]: place of o in the answer of SHOW TABLES
    MaxFaults      \* bound: crashes, failed statements, edited files, resets

Version == 0..Last

ASSUME MigrationsAssumption ==
    /\ Last \in Nat
    /\ Creates \in [Version -> Seq(Object)]
    /\ \A v \in Version : Creates[v] # <<>>
    /\ Needs \in [Object -> SUBSET Object]
    /\ Tracking \in Object
    /\ NameOrder \in [Object -> Nat]
    /\ MaxFaults \in Nat

VARIABLES
    objects,     \* tables and views that exist
    records,     \* rows of schema_migrations, as they were inserted
    file,        \* file[v]: revision of the migration file, its checksum
    runner,      \* runner[r]: what process r is doing
    faults,      \* how many faults there have been
    \* history, for the properties
    dropped,     \* dropped by a reset and not created again
    unaware,     \* may a migration not have seen what was recorded?  It was started while
                \* another was under way, or did not get to read the records
    hurt,        \* has a statement failed, or a file been edited?
    hasReset     \* has a reset been started?

vars == <<objects, records, file, runner, faults, dropped, unaware, hurt, hasReset>>

-----------------------------------------------------------------------------
Objects(v) == {Creates[v][i] : i \in DOMAIN Creates[v]}

Rows(v) == {i \in DOMAIN records : records[i].version = v}

Recorded(v) == Rows(v) # {}

Succeeded(v) == \E i \in Rows(v) : records[i].status = "success"

Idle == [pc |-> "idle", script |-> FALSE, target |-> 0, loaded |-> [v \in Version |-> 0],
         todo |-> {}, stmt |-> 1, ok |-> TRUE, drops |-> {}]

\* The version a runner is at: the first of what it has to apply.
Current(r) == CHOOSE v \in runner[r].todo : \A u \in runner[r].todo : v <= u

Statement(r) == Creates[Current(r)][runner[r].stmt]

Fault == faults < MaxFaults /\ faults' = faults + 1

Finish(r) == runner' = [runner EXCEPT ![r] = Idle]

Init ==
    /\ objects = {} /\ records = <<>>
    /\ file = [v \in Version |-> 0]
    /\ runner = [r \in Runner |-> Idle]
    /\ faults = 0
    /\ dropped = {} /\ unaware = FALSE /\ hurt = FALSE /\ hasReset = FALSE

-----------------------------------------------------------------------------
(* migrateTo; migrateUp is migrateTo with the last version.                *)

\* loadMigrations: the files are read before the records are asked for.
Start(r, target) ==
    /\ runner[r].pc = "idle"
    /\ runner' = [runner EXCEPT ![r] = [Idle EXCEPT !.pc = "status", !.target = target,
                                                    !.loaded = file]]
    /\ unaware' = (unaware \/ \E q \in Runner :
                          runner[q].pc \in {"status", "execute", "record"} /\ ~runner[q].script)
    /\ UNCHANGED <<objects, records, file, faults, dropped, hurt, hasReset>>

\* verifyMigrations: a recorded version whose file is another one now stops the run.
Verified(r) ==
    \A i \in DOMAIN records : records[i].checksum = runner[r].loaded[records[i].version]

\* Mutant: a failed version is pending again.
PendingOrFailed == {v \in Version : ~Succeeded(v)}

\* getPendingMigrations: whatever is recorded, as a success or as a failure, is not
\* pending.
Pending == {v \in Version : ~Recorded(v)}

ToApplyTarget(r) == Pending \cap {runner[r].target}    \* mutant: only the target

ToApply(r) == {v \in Pending : v <= runner[r].target}

\* getStatus.  If schema_migrations does not exist nothing has been applied: it is
\* dropped with its rows.
GetStatus(r) ==
    /\ runner[r].pc = "status"
    /\ IF Verified(r) /\ ToApply(r) # {}
       THEN runner' = [runner EXCEPT ![r].pc = "execute", ![r].todo = ToApply(r)]
       ELSE Finish(r)
    /\ UNCHANGED <<objects, records, file, faults, dropped, unaware, hurt, hasReset>>

\* getAppliedMigrations takes any error that names schema_migrations for its absence:
\* everything is pending then, and nothing is verified.
MissRecords(r) ==
    /\ runner[r].pc = "status"
    /\ Fault
    /\ runner' = [runner EXCEPT ![r].pc = "execute",
                                ![r].todo = {v \in Version : v <= runner[r].target}]
    /\ unaware' = TRUE
    /\ UNCHANGED <<objects, records, file, dropped, hurt, hasReset>>

\* Mutant: the next file is entered where the last one was left.
NextFileMidway(r) ==
    IF runner[r].todo = {Current(r)} THEN Finish(r)
    ELSE runner' = [runner EXCEPT ![r].pc = "execute", ![r].todo = @ \ {Current(r)}]

\* On to the next version, if there is one.
NextFile(r) ==
    IF runner[r].todo = {Current(r)} THEN Finish(r)
    ELSE runner' = [runner EXCEPT ![r].pc = "execute", ![r].stmt = 1,
                                  ![r].todo = @ \ {Current(r)}]

\* A statement went through.  start.sh does not record anything.
StatementDone(r) ==
    IF runner[r].stmt < Len(Creates[Current(r)])
    THEN runner' = [runner EXCEPT ![r].stmt = @ + 1]
    ELSE IF runner[r].script THEN NextFile(r)
    ELSE runner' = [runner EXCEPT ![r].pc = "record", ![r].ok = TRUE]

StatementFailedGoesOn(r) == StatementDone(r)    \* mutant: on to the next statement

\* A statement failed: the rest of the file is left.  start.sh goes on to the next
\* file, migrateTo records the failure.
StatementFailed(r) ==
    IF runner[r].script THEN NextFile(r)
    ELSE runner' = [runner EXCEPT ![r].pc = "record", ![r].ok = FALSE]

CanCreateOnce(o) == Needs[o] \subseteq objects /\ o \notin objects  \* mutant: no IF NOT EXISTS

\* CREATE ... IF NOT EXISTS
CanCreate(o) == Needs[o] \subseteq objects

Create(o) == objects' = objects \cup {o} /\ dropped' = dropped \ {o}

\* executeMigration: one statement.
Execute(r) ==
    /\ runner[r].pc = "execute"
    /\ IF CanCreate(Statement(r))
       THEN Create(Statement(r)) /\ StatementDone(r)
       ELSE StatementFailed(r) /\ UNCHANGED <<objects, dropped>>
    /\ UNCHANGED <<records, file, faults, unaware, hurt, hasReset>>

\* The request for it fails, which may be after the statement has been executed.
ExecuteFails(r, applied) ==
    /\ runner[r].pc = "execute"
    /\ Fault
    /\ IF applied THEN CanCreate(Statement(r)) /\ Create(Statement(r))
                  ELSE UNCHANGED <<objects, dropped>>
    /\ StatementFailed(r)
    /\ hurt' = TRUE
    /\ UNCHANGED <<records, file, unaware, hasReset>>

\* recordMigration, which throws if a reset has dropped the table.  A failed version
\* ends the run.
Record(r) ==
    /\ runner[r].pc = "record"
    /\ IF Tracking \in objects
       THEN records' = Append(records,
                [version |-> Current(r), checksum |-> runner[r].loaded[Current(r)],
                 status |-> IF runner[r].ok THEN "success" ELSE "failed"])
       ELSE UNCHANGED records
    /\ IF Tracking \in objects /\ runner[r].ok THEN NextFile(r) ELSE Finish(r)
    /\ UNCHANGED <<objects, file, faults, dropped, unaware, hurt, hasReset>>

-----------------------------------------------------------------------------
(* What else changes the schema.                                           *)

\* run_migrations of start.sh: every file, in order, without records.
StartScript(r) ==
    /\ runner[r].pc = "idle"
    /\ runner' = [runner EXCEPT ![r] = [Idle EXCEPT !.pc = "execute", !.script = TRUE,
                                                    !.todo = Version]]
    /\ UNCHANGED <<objects, records, file, faults, dropped, unaware, hurt, hasReset>>

\* reset, which dev-with-migrations.sh runs when a recorded file has been edited:
\* SHOW TABLES, then
StartReset(r) ==
    /\ runner[r].pc = "idle"
    /\ objects # {}
    /\ Fault
    /\ runner' = [runner EXCEPT ![r] = [Idle EXCEPT !.pc = "drop", !.drops = objects]]
    /\ hasReset' = TRUE
    /\ UNCHANGED <<objects, records, file, dropped, unaware, hurt>>

\* DROP TABLE IF EXISTS for one name after the other.
DropTable(r) ==
    /\ runner[r].pc = "drop"
    /\ \E o \in runner[r].drops :
        /\ \A p \in runner[r].drops : NameOrder[o] <= NameOrder[p]
        /\ objects' = objects \ {o}
        /\ dropped' = dropped \cup ({o} \cap objects)
        /\ records' = IF o = Tracking THEN <<>> ELSE records
        /\ IF runner[r].drops = {o} THEN Finish(r)
           ELSE runner' = [runner EXCEPT ![r].drops = @ \ {o}]
    /\ UNCHANGED <<file, faults, unaware, hurt, hasReset>>

\* The process dies; a request that throws outside executeMigration ends it, too.
Crash(r) ==
    /\ runner[r].pc # "idle"
    /\ Fault
    /\ Finish(r)
    /\ UNCHANGED <<objects, records, file, dropped, unaware, hurt, hasReset>>

\* Somebody corrects a migration.
EditFile(v) ==
    /\ Fault
    /\ file' = [file EXCEPT ![v] = @ + 1]
    /\ hurt' = TRUE
    /\ UNCHANGED <<objects, records, runner, dropped, unaware, hasReset>>

-----------------------------------------------------------------------------
Step(r) == GetStatus(r) \/ Execute(r) \/ Record(r) \/ DropTable(r)

Next ==
    \/ \E r \in Runner :
        \/ Step(r) \/ MissRecords(r) \/ StartScript(r) \/ StartReset(r) \/ Crash(r)
        \/ \E target \in Version : Start(r, target)
        \/ \E applied \in BOOLEAN : ExecuteFails(r, applied)
    \/ \E v \in Version : EditFile(v)

Spec == Init /\ [][Next]_vars

\* A runner that lives goes on, and somebody runs "migrate up" again and again
\* (scripts/dev-with-migrations.sh does on every start).
FairSpec ==
    /\ Spec
    /\ \A r \in Runner : WF_vars(Step(r))
    /\ SF_vars(\E r \in Runner : Start(r, Last))

-----------------------------------------------------------------------------
(* Properties.                                                             *)

TypeOK ==
    /\ objects \subseteq Object /\ dropped \subseteq Object
    /\ \A i \in DOMAIN records :
        records[i] \in [version : Version, checksum : Nat, status : {"success", "failed"}]
    /\ file \in [Version -> Nat]
    /\ \A r \in Runner :
        /\ runner[r].pc \in {"idle", "status", "execute", "record", "drop"}
        /\ runner[r].todo \subseteq Version /\ runner[r].drops \subseteq Object
        /\ runner[r].pc \in {"execute", "record"} <=> runner[r].todo # {}
        /\ runner[r].todo # {} => runner[r].stmt \in DOMAIN Creates[Current(r)]
    /\ faults \in 0..MaxFaults

\* A version recorded as a success has been executed to the end: everything it
\* creates exists, unless a reset has dropped it.
SuccessMeansExecuted ==
    \A v \in Version : Succeeded(v) => Objects(v) \subseteq objects \cup dropped

\* Versions are recorded in order, by however many runners and runs, whichever of
\* them died: without a reset no version is recorded before a lower one.
AppliedIsPrefix ==
    ~hasReset => \A v \in Version : Recorded(v) => \A u \in 0..v : Recorded(u)

\* Only migrations that overlap or do not get to read the records, or a reset, record
\* a version twice: a crash between executing and recording, and a second run after a
\* failure, do not.
RecordedOnce ==
    unaware \/ hasReset \/ \A v \in Version : Cardinality(Rows(v)) <= 1

Complete == objects = UNION {Objects(v) : v \in Version} /\ \A v \in Version : Succeeded(v)

\* Crashes, overlapping runners and start.sh do no harm: without a failed statement,
\* an edited file or a reset, the schema is complete in the end, and recorded so.
Converges == [](~hurt /\ ~hasReset) => <>Complete
=============================================================================
