------------------------------- MODULE Startup -------------------------------
(***************************************************************************)
(* The life of the container's process: docker/entrypoint.sh migrates the  *)
(* database, replays the demo captures into an empty one, and serves.      *)
(* Every process that imports app_groq migrates again. Any of them may be  *)
(* killed between two statements.                                          *)
(*                                                                         *)
(* SQLite is modelled by how Python's sqlite3 drives it: a CREATE, ALTER   *)
(* or DROP outside a transaction is committed at once; the first INSERT    *)
(* opens a transaction, what follows belongs to it, and it is committed by *)
(* commit() or rolled back when the connection goes away.                  *)
(***************************************************************************)
EXTENDS Schema

CONSTANTS
    Captures,       \* the demo captures: for each, the tables its rows go to, in order
    MaxCrashes      \* bound: processes killed or failed

ASSUME StartupAssumption ==
    /\ Captures \in Seq(Seq({"telemetry", "detections"}))
    /\ MaxCrashes \in Nat

VARIABLES
    disk,           \* the committed database
    view,           \* the database as the migrating connection sees it
    open,           \* that connection is in a transaction
    at,             \* where migrate() is: a phase, or "idle"
    stage,          \* boot, check, replay, import (by gunicorn's worker) or serving
    capture,        \* the capture being replayed
    done,           \* its rows the writer has finished with
    demo,           \* capture, row -> committed copies of it
    had,            \* the rows of the old table this database ever had
    crashes

dbVars == <<disk, view, open>>
stageVars == <<stage, capture, done, demo>>
startupVars == <<dbVars, at, stageVars, had, crashes>>

Phases == {"schema", "split", "packets", "archive", "marksplit", "alter", "idle"}
Stages == {"boot", "check", "replay", "import", "serving"}

\* A database that migration 0001 has not seen: fresh, made by db_create.py, or
\* by the program before the split, where the archive's name may be taken.
Unsplit(objects, typed) ==
    [objects |-> objects, added |-> {}, ledger |-> {}, typed |-> typed,
     source |-> IF Legacy \in objects THEN Rows ELSE {}, archive |-> {},
     detections |-> NoCopies, telemetry |-> NoCopies]

\* A database an earlier version of the program left: split and archived, with the
\* first k of the later migrations.
Upgraded(k) ==
    LET later == {Later[i] : i \in 1..k}
    IN [objects |-> Range(Base) \cup {Archive},
        added |-> UNION {Range(Additions[m]) : m \in later},
        ledger |-> {Split} \cup later, typed |-> TRUE, source |-> {}, archive |-> Rows,
        detections |-> OneMore(NoCopies, FlowRows),
        telemetry |-> OneMore(NoCopies, PacketRows \cup UntypedRows)]

Earlier ==
    {Unsplit({}, TRUE), Unsplit({"metrics", "logs", "users"}, TRUE)}
    \cup {Unsplit({Legacy, "metrics", "logs"}, typed) : typed \in BOOLEAN}
    \cup {Unsplit({Legacy, Archive, "metrics", "logs"}, typed) : typed \in BOOLEAN}
    \cup {Upgraded(k) : k \in 0..Len(Later)}

StartupInit ==
    /\ disk \in Earlier /\ view = disk /\ open = FALSE
    /\ had = disk.source \cup disk.archive
    /\ stage = "boot" /\ at = "schema" /\ capture = 0 /\ done = 0
    /\ demo = [c \in DOMAIN Captures |-> [i \in DOMAIN Captures[c] |-> 0]]
    /\ crashes = 0

-----------------------------------------------------------------------------
(* Statements *)

Define(d) == view' = d /\ disk' = (IF open THEN disk ELSE d) /\ open' = open

\* Seeded bug: every INSERT commits at once.
WriteAutocommits(d) == view' = d /\ disk' = d /\ open' = FALSE

Write(d) == view' = d /\ open' = TRUE /\ disk' = disk
Commit == disk' = view /\ open' = FALSE /\ view' = view

Rollback == view' = disk /\ open' = FALSE /\ disk' = disk
Goto(phase) == at' = phase /\ UNCHANGED <<stageVars, had, crashes>>

-----------------------------------------------------------------------------
(* migrate() *)

CreateNext ==
    /\ at = "schema"
    /\ \E i \in DOMAIN Base :
        /\ IsFirstMissing(Base, i, view.objects)
        /\ Define(Create(view, Base[i]))
    /\ Goto("schema")

\* _split_network_requests returns at once when there is no old table.
BeginSplit ==
    /\ at = "schema" /\ Range(Base) \subseteq view.objects
    /\ Goto(IF Applied(view, Split) THEN "alter"
            ELSE IF Legacy \in view.objects THEN "split" ELSE "marksplit")
    /\ UNCHANGED dbVars

\* Without a `type` column there is no INSERT at all.
SplitVerdicts ==
    /\ at = "split" /\ Goto("packets")
    /\ IF view.typed THEN Write(CopyVerdicts(view)) ELSE UNCHANGED dbVars

SplitPackets == at = "packets" /\ Goto("archive") /\ Write(CopyPackets(view))

ArchiveSource ==
    /\ at = "archive" /\ Goto("marksplit")
    /\ IF Archive \in view.objects THEN UNCHANGED dbVars ELSE Define(Rename(view))

MarkSplit == at = "marksplit" /\ Goto("alter") /\ Write(Mark(view, Split))

\* The migration that is next: the first one the ledger does not have.
Current(m) == \E i \in DOMAIN Later : m = Later[i] /\ IsFirstMissing(Later, i, view.ledger)

\* Seeded bug: the columns are read through another connection.
MissingOnDisk(c) == c \notin disk.added

\* `name not in existing`; the column set is read before the first ALTER and
\* nobody else alters the tables.
Missing(c) == c \notin view.added

\* SQLite refuses a column that is already there.
AddNext ==
    /\ at = "alter"
    /\ \E m \in Range(Later) : \E i \in DOMAIN Additions[m] :
        /\ Current(m)
        /\ Missing(Additions[m][i])
        /\ \A j \in 1..(i - 1) : ~Missing(Additions[m][j])
        /\ Additions[m][i] \notin view.added
        /\ Define(Add(view, Additions[m][i]))
    /\ Goto("alter")

\* Seeded bug: a migration is recorded before its columns are added.
MarkFirst ==
    /\ at = "alter"
    /\ \E m \in Range(Later) : Current(m) /\ Write(Mark(view, m))
    /\ Goto("alter")

MarkNext ==
    /\ at = "alter"
    /\ \E m \in Range(Later) :
        /\ Current(m)
        /\ \A i \in DOMAIN Additions[m] : ~Missing(Additions[m][i])
        /\ Write(Mark(view, m))
    /\ Goto("alter")

CommitMigration ==
    /\ at = "alter" /\ Range(Later) \subseteq view.ledger
    /\ Commit /\ Goto("idle")

Migrate ==
    \/ CreateNext \/ BeginSplit \/ SplitVerdicts \/ SplitPackets \/ ArchiveSource
    \/ MarkSplit \/ AddNext \/ MarkNext \/ CommitMigration

-----------------------------------------------------------------------------
(* entrypoint.sh *)

Enter(next) == stage' = next /\ at' = "schema" /\ done' = 0

\* Seeded bug: only the last capture's rows are looked for.
NoDetectionsOfLast ==
    \A i \in DOMAIN Captures[Len(Captures)] : demo[Len(Captures)][i] = 0

NoDetections ==
    /\ \A r \in Rows : disk.detections[r] = 0
    /\ \A c \in DOMAIN Captures : \A i \in DOMAIN Captures[c] :
        Captures[c][i] = "detections" => demo[c][i] = 0

Migrated ==
    /\ stage = "boot" /\ at = "idle" /\ stage' = "check"
    /\ UNCHANGED <<dbVars, at, capture, done, demo, had, crashes>>

\* A check that raises counts as "not empty".
Seed ==
    /\ stage = "check" /\ NoDetections /\ Captures # <<>>
    /\ Enter("replay") /\ capture' = 1
    /\ UNCHANGED <<dbVars, demo, had, crashes>>

\* SECOPS_SEED_DEMO is not set, the table has rows, or the check failed.
SkipSeed ==
    /\ stage = "check" /\ Enter("import")
    /\ UNCHANGED <<dbVars, capture, demo, had, crashes>>

\* One batch of the replay's own BatchedDBWriter.
SeedBatch ==
    /\ stage = "replay" /\ at = "idle"
    /\ \E last \in (done + 1)..Len(Captures[capture]) :
        /\ done' = last
        /\ demo' = [demo EXCEPT ![capture] =
                       [i \in DOMAIN @ |-> @[i] + (IF i \in (done + 1)..last THEN 1 ELSE 0)]]
    /\ UNCHANGED <<dbVars, at, stage, capture, had, crashes>>

NextCapture ==
    IF capture < Len(Captures)
    THEN Enter("replay") /\ capture' = capture + 1
    ELSE Enter("import") /\ UNCHANGED capture

\* The replay ends; rows its writer did not commit in time are gone with it.
SeedEnds ==
    /\ stage = "replay" /\ at = "idle"
    /\ NextCapture
    /\ UNCHANGED <<dbVars, demo, had, crashes>>

\* gunicorn's worker has imported app_groq.
Serve ==
    /\ stage = "import" /\ at = "idle" /\ stage' = "serving"
    /\ UNCHANGED <<dbVars, at, capture, done, demo, had, crashes>>

Proceed ==
    \/ Migrate \/ Migrated \/ Seed \/ SkipSeed \/ SeedEnds \/ Serve
    \/ SeedBatch

-----------------------------------------------------------------------------
(* Failures *)

Dies == crashes < MaxCrashes /\ crashes' = crashes + 1 /\ Rollback

\* The replay process raises or is killed: a warning, and the loop goes on.
SeedDies ==
    /\ stage = "replay" /\ Dies /\ NextCapture
    /\ UNCHANGED <<demo, had>>

\* gunicorn replaces a worker that is killed, without the entrypoint.
WorkerDies ==
    /\ stage \in {"import", "serving"} /\ Dies /\ Enter("import")
    /\ UNCHANGED <<capture, demo, had>>

\* The container stops -- also when the first migration raises, or gunicorn's worker
\* while it imports -- and is started again.
ContainerDies ==
    /\ Dies /\ Enter("boot")
    /\ UNCHANGED <<capture, demo, had>>

-----------------------------------------------------------------------------
(* Correctness *)

\* Type correctness, and a connection outside a transaction sees what is committed.
StartupTypeOK ==
    /\ disk \in Database /\ view \in Database /\ open \in BOOLEAN
    /\ open = FALSE => view = disk
    /\ at \in Phases /\ stage \in Stages
    /\ had \in SUBSET Rows
    /\ capture \in 0..Len(Captures) /\ crashes \in 0..MaxCrashes

\* Where migration 0001 puts a row of the old table.
Copies(d, r) ==
    IF d.typed /\ r \in FlowRows THEN <<d.detections[r], d.telemetry[r]>>
    ELSE <<d.telemetry[r], d.detections[r]>>

\* Whatever is interrupted, and however often migrate() runs: once the ledger says that
\* the old table was split, every row of it is in its new table exactly once and in no
\* other; before, none is; and the old table or its archive still has it
\* (migrations.py, "nothing here destroys data").
RowsMovedOnce ==
    \A r \in had :
        /\ Copies(disk, r) = IF Applied(disk, Split) THEN <<1, 0>> ELSE <<0, 0>>
        /\ r \in disk.source \cup disk.archive

\* The committed ledger never names a migration whose columns and index are not all
\* there, and the console never serves on an incomplete schema.
SchemaComplete ==
    /\ \A m \in Range(Later) : Applied(disk, m) => Range(Additions[m]) \subseteq disk.added
    /\ stage = "serving" => Complete(disk)

\* No demo detection is in the volume twice, however often the container is killed
\* while it seeds and started again (entrypoint.sh, "re-seeding every boot would
\* duplicate rows").
SeededOnce ==
    \A c \in DOMAIN Captures : \A i \in DOMAIN Captures[c] :
        Captures[c][i] = "detections" => demo[c][i] <= 1

\* Once the crashes have ended the console serves, and goes on serving: no migration
\* that was cut short makes a later one fail.
BootCompletes == <>[](stage = "serving")
=============================================================================
