--------------------------- MODULE Service_proofs ---------------------------
(***************************************************************************)
(* Proofs about the life of the container, for any rows of the old table,  *)
(* any captures, any number of crashes and any threads, addresses and      *)
(* names. The first part is about the database: what is committed is       *)
(* before or after the split and never in between, because everything      *)
(* between the first copy and the ledger is one transaction. The second is *)
(* about the demo rows, the third about the accounts, the fourth about the *)
(* login throttle.                                                         *)
(***************************************************************************)
EXTENDS Service, FiniteSetTheorems, SequenceTheorems, TLAPS

-----------------------------------------------------------------------------
(* The schema's names *)

\* The two names of the old table are not among those that migrate() creates.
LEMMA Names ==
    /\ Range(Base) \subseteq Objects
    /\ Legacy \notin Range(Base) /\ Archive \notin Range(Base) /\ Legacy # Archive
    /\ Legacy \in Objects /\ Archive \in Objects
    BY DEF Range, Base, Objects, Legacy, Archive

\* The later migrations are migrations, and none of them is the split.
LEMMA LaterNames ==
    /\ Split \in Migrations /\ Range(Later) \subseteq Migrations
    /\ Split \notin Range(Later)
    /\ DOMAIN Later = 1..4 /\ Len(Later) = 4
    BY DEF Migrations, Split, Later, Range

\* What a migration adds is among what is added altogether.
LEMMA AddedNames ==
    ASSUME NEW m \in Range(Later)
    PROVE  Range(Additions[m]) \subseteq Added
    BY DEF Added

-----------------------------------------------------------------------------
(* The rows of the old table, in a database d that migration 0001 has ... *)

\* ... not touched.
Unmoved(d) ==
    /\ d.source = had /\ d.archive = {}
    /\ \A r \in had : d.detections[r] = 0 /\ d.telemetry[r] = 0

\* ... copied the flow verdicts of.
Half(d) ==
    /\ d.source = had /\ d.archive = {}
    /\ \A r \in had : /\ d.detections[r] = (IF d.typed /\ r \in FlowRows THEN 1 ELSE 0)
                      /\ d.telemetry[r] = 0

\* ... copied altogether.
Moved(d) ==
    /\ had \subseteq d.source \cup d.archive
    /\ \A r \in had :
        /\ d.detections[r] = (IF d.typed /\ r \in FlowRows THEN 1 ELSE 0)
        /\ d.telemetry[r] = (IF d.typed /\ r \in FlowRows THEN 0 ELSE 1)

Recorded(d) == \A m \in Range(Later) : Applied(d, m) => Range(Additions[m]) \subseteq d.added

\* The committed database.
DiskInv ==
    /\ IF Applied(disk, Split) THEN Moved(disk)
       ELSE Unmoved(disk) /\ (had # {} => Legacy \in disk.objects)
    /\ Recorded(disk)

\* What the migrating connection sees, at each place of migrate().
ViewInv ==
    /\ Recorded(view)
    /\ open = FALSE => view = disk
    /\ at \in {"schema", "split"} => open = FALSE
    /\ at = "split" => ~Applied(view, Split)
    /\ at = "packets" => Half(view)
    /\ at = "archive" => Moved(view) /\ view.source = had /\ open = TRUE
    /\ at \in {"marksplit", "alter"} => Moved(view)
    /\ at = "alter" => Applied(view, Split)
    /\ at \in {"split", "packets", "archive", "marksplit", "alter"} => Range(Base) \subseteq view.objects
    /\ at = "idle" => open = FALSE /\ Complete(disk)

Types ==
    /\ disk \in Database /\ view \in Database /\ open \in BOOLEAN
    /\ at \in Phases /\ stage \in Stages
    /\ had \in SUBSET Rows
    /\ capture \in 0..Len(Captures) /\ crashes \in 0..MaxCrashes

StageInv == stage \in {"check", "serving"} => at = "idle"

StartupInv == Types /\ DiskInv /\ ViewInv /\ StageInv

-----------------------------------------------------------------------------
(* What a statement does to a database *)

LEMMA CreateResult ==
    ASSUME NEW d \in Database, NEW o \in Objects
    PROVE  /\ Create(d, o) \in Database
           /\ Create(d, o) = [d EXCEPT !.objects = d.objects \cup {o}]
    BY DEF Create, Database

LEMMA OneMoreResult ==
    ASSUME NEW copies \in [Rows -> Nat], NEW rows
    PROVE  /\ OneMore(copies, rows) \in [Rows -> Nat]
           /\ \A r \in Rows : OneMore(copies, rows)[r] = copies[r] + (IF r \in rows THEN 1 ELSE 0)
    BY DEF OneMore

\* The first INSERT of the split, or none without a `type` column.
LEMMA VerdictsResult ==
    ASSUME NEW d \in Database, had \in SUBSET Rows, Unmoved(d), d.typed = TRUE
    PROVE  /\ CopyVerdicts(d) \in Database /\ Half(CopyVerdicts(d))
           /\ CopyVerdicts(d).ledger = d.ledger /\ CopyVerdicts(d).added = d.added
           /\ CopyVerdicts(d).objects = d.objects
  <1> DEFINE new == OneMore(d.detections, Verdicts(d))
  <1>1. d.detections \in [Rows -> Nat]
    BY DEF Database
  <1>2. new \in [Rows -> Nat] /\ \A r \in Rows : new[r] = d.detections[r] + (IF r \in Verdicts(d) THEN 1 ELSE 0)
    BY <1>1, OneMoreResult
  <1>3. CopyVerdicts(d) = [d EXCEPT !.detections = new]
    BY DEF CopyVerdicts
  <1>4. Verdicts(d) = had \cap FlowRows
    BY DEF Verdicts, Unmoved
  <1> HIDE DEF new
  <1>5. CopyVerdicts(d) \in Database
    BY <1>2, <1>3 DEF Database
  <1>6. /\ CopyVerdicts(d).detections = new /\ CopyVerdicts(d).telemetry = d.telemetry
        /\ CopyVerdicts(d).source = d.source /\ CopyVerdicts(d).archive = d.archive
        /\ CopyVerdicts(d).typed = d.typed /\ CopyVerdicts(d).objects = d.objects
        /\ CopyVerdicts(d).ledger = d.ledger /\ CopyVerdicts(d).added = d.added
    BY <1>3 DEF Database
  <1>7. \A r \in had : new[r] = IF r \in FlowRows THEN 1 ELSE 0
    BY <1>2, <1>4 DEF Unmoved
  <1> QED
    BY <1>5, <1>6, <1>7 DEF Half, Unmoved

\* The second INSERT.
LEMMA PacketsResult ==
    ASSUME NEW d \in Database, had \in SUBSET Rows, Half(d)
    PROVE  /\ CopyPackets(d) \in Database /\ Moved(CopyPackets(d))
           /\ CopyPackets(d).source = had
           /\ CopyPackets(d).ledger = d.ledger /\ CopyPackets(d).added = d.added
           /\ CopyPackets(d).objects = d.objects
  <1> DEFINE new == OneMore(d.telemetry, Packets(d))
  <1>1. d.telemetry \in [Rows -> Nat] /\ d.typed \in BOOLEAN
    BY DEF Database
  <1>2. new \in [Rows -> Nat] /\ \A r \in Rows : new[r] = d.telemetry[r] + (IF r \in Packets(d) THEN 1 ELSE 0)
    BY <1>1, OneMoreResult
  <1>3. CopyPackets(d) = [d EXCEPT !.telemetry = new]
    BY DEF CopyPackets
  <1>4. \A r \in had : r \in Packets(d) <=> ~(d.typed /\ r \in FlowRows)
    BY <1>1, RowsAssumption DEF Packets, Half, Rows
  <1> HIDE DEF new
  <1>5. CopyPackets(d) \in Database
    BY <1>2, <1>3 DEF Database
  <1>6. /\ CopyPackets(d).telemetry = new /\ CopyPackets(d).detections = d.detections
        /\ CopyPackets(d).source = d.source /\ CopyPackets(d).archive = d.archive
        /\ CopyPackets(d).typed = d.typed /\ CopyPackets(d).objects = d.objects
        /\ CopyPackets(d).ledger = d.ledger /\ CopyPackets(d).added = d.added
    BY <1>3 DEF Database
  <1>7. \A r \in had : new[r] = IF d.typed /\ r \in FlowRows THEN 0 ELSE 1
    BY <1>1, <1>2, <1>4 DEF Half
  <1> QED
    BY <1>5, <1>6, <1>7 DEF Half, Moved

\* The rename keeps every row.
LEMMA RenameResult ==
    ASSUME NEW d \in Database, Moved(d), d.source = had
    PROVE  /\ Rename(d) \in Database /\ Moved(Rename(d))
           /\ Rename(d).ledger = d.ledger /\ Rename(d).added = d.added
           /\ Range(Base) \subseteq d.objects => Range(Base) \subseteq Rename(d).objects
  <1>1. Rename(d) = [d EXCEPT !.objects = (d.objects \ {Legacy}) \cup {Archive}, !.archive = d.source, !.source = {}]
    BY DEF Rename, Database
  <1>2. Rename(d) \in Database
    <2>1. (d.objects \ {Legacy}) \cup {Archive} \in SUBSET Objects
      BY Names DEF Database
    <2>2. d.source \in SUBSET Rows
      BY DEF Database
    <2> QED
      BY <1>1, <2>1, <2>2 DEF Database
  <1>3. /\ Rename(d).objects = (d.objects \ {Legacy}) \cup {Archive}
        /\ Rename(d).archive = d.source /\ Rename(d).source = {}
        /\ Rename(d).ledger = d.ledger /\ Rename(d).added = d.added /\ Rename(d).typed = d.typed
        /\ Rename(d).detections = d.detections /\ Rename(d).telemetry = d.telemetry
    BY <1>1 DEF Database
  <1> QED
    BY <1>2, <1>3, Names DEF Moved

LEMMA MarkResult ==
    ASSUME NEW d \in Database, NEW m \in Migrations
    PROVE  /\ Mark(d, m) \in Database
           /\ Mark(d, m) = [d EXCEPT !.ledger = d.ledger \cup {m}]
    BY DEF Mark, Database

LEMMA AddResult ==
    ASSUME NEW d \in Database, NEW c \in Added
    PROVE  /\ Add(d, c) \in Database
           /\ Add(d, c) = [d EXCEPT !.added = d.added \cup {c}]
    BY DEF Add, Database

-----------------------------------------------------------------------------
(* Every step keeps the invariant of the database *)

LEMMA InitStartup == Init => StartupInv
  <1> SUFFICES ASSUME StartupInit PROVE StartupInv
    BY DEF Init
  <1> USE DEF StartupInit
  <1>1. /\ NoCopies \in [Rows -> Nat]
        /\ \A r \in Rows : NoCopies[r] = 0
    BY DEF NoCopies
  <1>2. crashes \in 0..MaxCrashes /\ capture \in 0..Len(Captures)
    BY StartupAssumption
  <1>3. ASSUME NEW objects \in SUBSET Objects, NEW typed \in BOOLEAN, disk = Unsplit(objects, typed)
        PROVE  /\ disk \in Database /\ Unmoved(disk) /\ Recorded(disk)
               /\ disk.ledger = {} /\ disk.objects = objects
               /\ had \subseteq Rows /\ (had # {} => Legacy \in disk.objects)
    <2>1. /\ disk.objects = objects /\ disk.added = {} /\ disk.ledger = {} /\ disk.typed = typed
          /\ disk.source = (IF Legacy \in objects THEN Rows ELSE {}) /\ disk.archive = {}
          /\ disk.detections = NoCopies /\ disk.telemetry = NoCopies
      BY <1>3 DEF Unsplit
    <2>2. disk \in Database
      BY <1>1, <1>3 DEF Unsplit, Database
    <2> QED
      BY <1>1, <2>1, <2>2 DEF Unmoved, Recorded, Applied
  <1>4. ASSUME NEW k \in 0..Len(Later), disk = Upgraded(k)
        PROVE  /\ disk \in Database /\ Moved(disk) /\ Recorded(disk) /\ Applied(disk, Split)
               /\ had \subseteq Rows
    <2> DEFINE later == {Later[i] : i \in 1..k}
    <2>1. later \subseteq Range(Later)
      BY LaterNames DEF Range
    <2>2. /\ disk.objects = Range(Base) \cup {Archive} /\ disk.ledger = {Split} \cup later
          /\ disk.added = UNION {Range(Additions[m]) : m \in later} /\ disk.typed = TRUE
          /\ disk.source = {} /\ disk.archive = Rows
          /\ disk.detections = OneMore(NoCopies, FlowRows)
          /\ disk.telemetry = OneMore(NoCopies, PacketRows \cup UntypedRows)
      BY <1>4 DEF Upgraded
    <2>3. /\ disk.detections \in [Rows -> Nat] /\ disk.telemetry \in [Rows -> Nat]
          /\ \A r \in Rows : disk.detections[r] = IF r \in FlowRows THEN 1 ELSE 0
          /\ \A r \in Rows : disk.telemetry[r] = IF r \in PacketRows \cup UntypedRows THEN 1 ELSE 0
      BY <1>1, <2>2, OneMoreResult
    <2>4. UNION {Range(Additions[m]) : m \in later} \subseteq Added
      BY <2>1 DEF Added
    <2>5. disk = [objects |-> disk.objects, added |-> disk.added, ledger |-> disk.ledger,
                  typed |-> disk.typed, source |-> disk.source, archive |-> disk.archive,
                  detections |-> disk.detections, telemetry |-> disk.telemetry]
      BY <1>4 DEF Upgraded
    <2>6. disk \in Database
      <3>1. disk.objects \in SUBSET Objects /\ disk.ledger \in SUBSET Migrations
        BY <2>1, <2>2, Names, LaterNames
      <3>2. disk.added \in SUBSET Added
        BY <2>2, <2>4
      <3>3. disk.typed \in BOOLEAN /\ disk.source \in SUBSET Rows /\ disk.archive \in SUBSET Rows
        BY <2>2
      <3> HIDE DEF later
      <3> QED
        BY <2>3, <2>5, <3>1, <3>2, <3>3 DEF Database
    <2>7. Moved(disk)
      BY <2>2, <2>3, RowsAssumption DEF Moved, Rows
    <2>8. Recorded(disk)
      BY <2>2, LaterNames DEF Recorded, Applied
    <2> QED
      BY <2>2, <2>6, <2>7, <2>8 DEF Applied
  <1>5. CASE disk \in {Upgraded(k) : k \in 0..Len(Later)}
    <2>1. PICK k \in 0..Len(Later) : disk = Upgraded(k)
      BY <1>5
    <2> QED
      BY <1>2, <1>4, <2>1 DEF StartupInv, Types, DiskInv, ViewInv, StageInv, Phases, Stages
  <1>6. CASE \E objects \in SUBSET Objects, typed \in BOOLEAN : disk = Unsplit(objects, typed)
    <2>1. PICK objects \in SUBSET Objects, typed \in BOOLEAN : disk = Unsplit(objects, typed)
      BY <1>6
    <2>2. /\ disk \in Database /\ Unmoved(disk) /\ Recorded(disk) /\ ~Applied(disk, Split)
          /\ had \subseteq Rows /\ (had # {} => Legacy \in disk.objects)
      BY <1>3, <2>1 DEF Applied
    <2> QED
      BY <1>2, <2>2 DEF StartupInv, Types, DiskInv, ViewInv, StageInv, Phases, Stages
  <1>7. {} \in SUBSET Objects /\ {"metrics", "logs", "users"} \in SUBSET Objects
    BY DEF Objects, Base, Range
  <1>8. /\ {Legacy, "metrics", "logs"} \in SUBSET Objects
        /\ {Legacy, Archive, "metrics", "logs"} \in SUBSET Objects
    BY DEF Objects, Base, Range
  <1> QED
    BY <1>5, <1>6, <1>7, <1>8 DEF Earlier

\* Applied and Recorded read the ledger and the columns only.
LEMMA SameRecords ==
    ASSUME NEW d, NEW e, e.ledger = d.ledger, e.added = d.added
    PROVE  (Applied(e, Split) <=> Applied(d, Split)) /\ (Recorded(d) => Recorded(e))
    BY DEF Applied, Recorded

LEMMA CreateStep == StartupInv /\ CreateNext => StartupInv'
  <1> SUFFICES ASSUME StartupInv, CreateNext PROVE StartupInv'
    OBVIOUS
  <1> USE DEF StartupInv, CreateNext, Goto, stageVars
  <1>1. /\ view = disk /\ open = FALSE /\ view \in Database
        /\ had' = had /\ at' = "schema" /\ at = "schema" /\ stage' = stage
    BY DEF ViewInv, Types
  <1>2. PICK i \in DOMAIN Base : Define(Create(view, Base[i]))
    OBVIOUS
  <1> DEFINE new == Create(view, Base[i])
  <1>3. new \in Database /\ new = [disk EXCEPT !.objects = disk.objects \cup {Base[i]}]
    BY <1>1, CreateResult, Names DEF Range
  <1>4. disk' = new /\ view' = new /\ open' = FALSE
    BY <1>1, <1>2 DEF Define
  <1> HIDE DEF new
  <1>5. /\ new.source = disk.source /\ new.archive = disk.archive /\ new.typed = disk.typed
        /\ new.detections = disk.detections /\ new.telemetry = disk.telemetry
        /\ new.ledger = disk.ledger /\ new.added = disk.added /\ disk.objects \subseteq new.objects
    BY <1>1, <1>3 DEF Database
  <1>6. Types'
    BY <1>1, <1>3, <1>4 DEF Types, Phases
  <1>7. DiskInv'
    BY <1>1, <1>4, <1>5 DEF DiskInv, Applied, Recorded, Moved, Unmoved
  <1>8. ViewInv'
    BY <1>1, <1>4, <1>5 DEF ViewInv, Applied, Recorded
  <1>9. StageInv'
    BY <1>1 DEF StageInv
  <1> QED
    BY <1>6, <1>7, <1>8, <1>9

LEMMA BeginSplitStep == StartupInv /\ BeginSplit => StartupInv'
  <1> SUFFICES ASSUME StartupInv, BeginSplit PROVE StartupInv'
    OBVIOUS
  <1> USE DEF StartupInv, BeginSplit, Goto, stageVars, dbVars
  <1>1. view = disk /\ open = FALSE
    BY DEF ViewInv
  <1>2. Types' /\ StageInv'
    BY DEF Types, StageInv, Phases
  <1>3. DiskInv'
    BY DEF DiskInv, Applied, Recorded, Moved, Unmoved
  <1>4. ViewInv'
    BY <1>1 DEF DiskInv, ViewInv, Applied, Recorded, Moved, Unmoved
  <1> QED
    BY <1>2, <1>3, <1>4

LEMMA SplitVerdictsStep == StartupInv /\ SplitVerdicts => StartupInv'
  <1> SUFFICES ASSUME StartupInv, SplitVerdicts PROVE StartupInv'
    OBVIOUS
  <1> USE DEF StartupInv, SplitVerdicts, Goto, stageVars
  <1>1. /\ view = disk /\ view \in Database /\ had \in SUBSET Rows /\ Unmoved(view) /\ Recorded(view)
        /\ had' = had /\ Range(Base) \subseteq view.objects /\ at' = "packets" /\ disk' = disk
    BY DEF ViewInv, DiskInv, Types, Write, dbVars
  <1>2. /\ view' \in Database /\ Half(view') /\ view'.added = view.added /\ view'.ledger = view.ledger
        /\ view'.objects = view.objects /\ (open' = FALSE => view' = disk') /\ open' \in BOOLEAN
    <2>1. CASE view.typed = TRUE
      BY <1>1, <2>1, VerdictsResult DEF Write
    <2>2. CASE view.typed = FALSE
      BY <1>1, <2>2 DEF Unmoved, Half, Types, ViewInv, dbVars
    <2> QED
      BY <1>1, <2>1, <2>2 DEF Database
  <1>3. Types' /\ StageInv'
    BY <1>1, <1>2 DEF Types, StageInv, Phases
  <1>4. DiskInv'
    BY <1>1 DEF DiskInv, Applied, Recorded, Moved, Unmoved
  <1>5. ViewInv'
    BY <1>1, <1>2 DEF ViewInv, Applied, Recorded, Half
  <1> QED
    BY <1>3, <1>4, <1>5

LEMMA SplitPacketsStep == StartupInv /\ SplitPackets => StartupInv'
  <1> SUFFICES ASSUME StartupInv, SplitPackets PROVE StartupInv'
    OBVIOUS
  <1> USE DEF StartupInv, SplitPackets, Goto, stageVars, Write
  <1>1. /\ view \in Database /\ had \in SUBSET Rows /\ Half(view) /\ Recorded(view)
        /\ had' = had /\ Range(Base) \subseteq view.objects /\ at' = "archive" /\ disk' = disk
        /\ view' = CopyPackets(view) /\ open' = TRUE
    BY DEF ViewInv, Types
  <1>2. /\ view' \in Database /\ Moved(view') /\ view'.source = had /\ view'.added = view.added
        /\ view'.ledger = view.ledger /\ view'.objects = view.objects
    BY <1>1, PacketsResult
  <1>3. Types' /\ StageInv'
    BY <1>1, <1>2 DEF Types, StageInv, Phases
  <1>4. DiskInv'
    BY <1>1 DEF DiskInv, Applied, Recorded, Moved, Unmoved
  <1>5. ViewInv'
    BY <1>1, <1>2 DEF ViewInv, Applied, Recorded, Moved
  <1> QED
    BY <1>3, <1>4, <1>5

LEMMA ArchiveStep == StartupInv /\ ArchiveSource => StartupInv'
  <1> SUFFICES ASSUME StartupInv, ArchiveSource PROVE StartupInv'
    OBVIOUS
  <1> USE DEF StartupInv, ArchiveSource, Goto, stageVars
  <1>1. /\ view \in Database /\ Moved(view) /\ view.source = had /\ Recorded(view)
        /\ had' = had /\ Range(Base) \subseteq view.objects /\ at' = "marksplit" /\ open = TRUE
    BY DEF ViewInv, Types
  <1>2. /\ view' \in Database /\ Moved(view') /\ view'.added = view.added /\ open' = TRUE /\ disk' = disk
        /\ view'.ledger = view.ledger /\ Range(Base) \subseteq view'.objects
    BY <1>1, RenameResult DEF Define, dbVars
  <1>3. Types' /\ StageInv'
    BY <1>1, <1>2 DEF Types, StageInv, Phases
  <1>4. DiskInv'
    BY <1>1, <1>2 DEF DiskInv, Applied, Recorded, Moved, Unmoved
  <1>5. ViewInv'
    BY <1>1, <1>2 DEF ViewInv, Applied, Recorded, Moved
  <1> QED
    BY <1>3, <1>4, <1>5

LEMMA MarkSplitStep == StartupInv /\ MarkSplit => StartupInv'
  <1> SUFFICES ASSUME StartupInv, MarkSplit PROVE StartupInv'
    OBVIOUS
  <1> USE DEF StartupInv, MarkSplit, Goto, stageVars, Write
  <1>1. /\ view \in Database /\ Moved(view) /\ Recorded(view)
        /\ had' = had /\ Range(Base) \subseteq view.objects /\ at' = "alter" /\ disk' = disk
        /\ view' = Mark(view, Split) /\ open' = TRUE
    BY DEF ViewInv, Types
  <1>2. view' \in Database /\ view' = [view EXCEPT !.ledger = view.ledger \cup {Split}]
    BY <1>1, MarkResult, LaterNames
  <1>3. /\ view'.ledger = view.ledger \cup {Split} /\ view'.added = view.added
        /\ view'.source = view.source /\ view'.archive = view.archive /\ view'.typed = view.typed
        /\ view'.detections = view.detections /\ view'.telemetry = view.telemetry
        /\ view'.objects = view.objects
    BY <1>1, <1>2 DEF Database
  <1>4. Types' /\ StageInv'
    BY <1>1, <1>2 DEF Types, StageInv, Phases
  <1>5. DiskInv'
    BY <1>1 DEF DiskInv, Applied, Recorded, Moved, Unmoved
  <1>6. Recorded(view')
    BY <1>1, <1>3, LaterNames DEF Recorded, Applied
  <1>7. ViewInv'
    BY <1>1, <1>3, <1>6 DEF ViewInv, Applied, Moved, Recorded
  <1> QED
    BY <1>4, <1>5, <1>7

LEMMA AddStep == StartupInv /\ AddNext => StartupInv'
  <1> SUFFICES ASSUME StartupInv, AddNext PROVE StartupInv'
    OBVIOUS
  <1> USE DEF StartupInv, AddNext, Goto, stageVars
  <1>1. /\ view \in Database /\ Moved(view) /\ Recorded(view) /\ Applied(view, Split)
        /\ had' = had /\ Range(Base) \subseteq view.objects /\ at = "alter" /\ at' = "alter"
        /\ open = FALSE => view = disk
    BY DEF ViewInv, Types
  <1>2. PICK m \in Range(Later) : \E i \in DOMAIN Additions[m] : Define(Add(view, Additions[m][i]))
    OBVIOUS
  <1>3. PICK i \in DOMAIN Additions[m] : Define(Add(view, Additions[m][i]))
    BY <1>2
  <1> DEFINE new == Add(view, Additions[m][i])
  <1>4. Additions[m][i] \in Added
    BY AddedNames DEF Range
  <1>5. new \in Database /\ new = [view EXCEPT !.added = view.added \cup {Additions[m][i]}]
    BY <1>1, <1>4, AddResult
  <1>6. view' = new /\ open' = open /\ disk' = (IF open THEN disk ELSE new)
    BY <1>3 DEF Define
  <1> HIDE DEF new
  <1>7. /\ new.source = view.source /\ new.archive = view.archive /\ new.typed = view.typed
        /\ new.detections = view.detections /\ new.telemetry = view.telemetry
        /\ new.ledger = view.ledger /\ view.added \subseteq new.added /\ new.objects = view.objects
    BY <1>1, <1>5 DEF Database
  <1>8. open \in BOOLEAN
    BY DEF Types
  <1>9. Types' /\ StageInv'
    BY <1>1, <1>5, <1>6, <1>8 DEF Types, StageInv, Phases
  <1>10. Moved(new) /\ Recorded(new) /\ Applied(new, Split)
    BY <1>1, <1>7 DEF Moved, Recorded, Applied
  <1>11. DiskInv'
    <2>1. CASE open = TRUE
      BY <1>1, <1>6, <2>1 DEF DiskInv, Applied, Recorded, Moved, Unmoved
    <2>2. CASE open = FALSE
      BY <1>1, <1>6, <1>10, <2>2 DEF DiskInv, Applied, Recorded, Moved
    <2> QED
      BY <1>8, <2>1, <2>2
  <1>12. ViewInv'
    BY <1>1, <1>6, <1>7, <1>8, <1>10 DEF ViewInv, Applied, Recorded, Moved
  <1> QED
    BY <1>9, <1>11, <1>12

LEMMA MarkStep == StartupInv /\ MarkNext => StartupInv'
  <1> SUFFICES ASSUME StartupInv, MarkNext PROVE StartupInv'
    OBVIOUS
  <1> USE DEF StartupInv, MarkNext, Goto, stageVars
  <1>1. /\ view \in Database /\ Moved(view) /\ Recorded(view) /\ Applied(view, Split)
        /\ had' = had /\ Range(Base) \subseteq view.objects /\ at = "alter" /\ at' = "alter"
    BY DEF ViewInv, Types
  <1>2. PICK m \in Range(Later) :
            /\ \A i \in DOMAIN Additions[m] : ~Missing(Additions[m][i])
            /\ Write(Mark(view, m))
    OBVIOUS
  <1>3. m \in Migrations
    BY LaterNames
  <1>4. Mark(view, m) \in Database /\ Mark(view, m) = [view EXCEPT !.ledger = view.ledger \cup {m}]
    BY <1>1, <1>3, MarkResult
  <1>5. view' = Mark(view, m) /\ open' = TRUE /\ disk' = disk
    BY <1>2 DEF Write
  <1>6. /\ view'.ledger = view.ledger \cup {m} /\ view'.added = view.added
        /\ view'.source = view.source /\ view'.archive = view.archive /\ view'.typed = view.typed
        /\ view'.detections = view.detections /\ view'.telemetry = view.telemetry
        /\ view'.objects = view.objects
    BY <1>1, <1>4, <1>5 DEF Database
  <1>7. Types' /\ StageInv'
    BY <1>1, <1>4, <1>5 DEF Types, StageInv, Phases
  <1>8. Range(Additions[m]) \subseteq view.added
    BY <1>2 DEF Missing, Range
  <1>9. Recorded(view') /\ Applied(view', Split)
    BY <1>1, <1>6, <1>8 DEF Recorded, Applied
  <1>10. DiskInv'
    BY <1>1, <1>5 DEF DiskInv, Applied, Recorded, Moved, Unmoved
  <1>11. ViewInv'
    BY <1>1, <1>5, <1>6, <1>9 DEF ViewInv, Applied, Recorded, Moved
  <1> QED
    BY <1>7, <1>10, <1>11

LEMMA CommitStep == StartupInv /\ CommitMigration => StartupInv'
  <1> SUFFICES ASSUME StartupInv, CommitMigration PROVE StartupInv'
    OBVIOUS
  <1> USE DEF StartupInv, CommitMigration, Goto, stageVars, Commit
  <1>1. /\ view \in Database /\ Moved(view) /\ Recorded(view) /\ Applied(view, Split)
        /\ had' = had /\ Range(Base) \subseteq view.objects /\ at' = "idle" /\ Range(Later) \subseteq view.ledger
        /\ view' = view /\ disk' = view /\ open' = FALSE
    BY DEF ViewInv, Types
  <1>2. Complete(view)
    <2>1. view.added \subseteq Added /\ view.ledger \subseteq Migrations
      BY <1>1 DEF Database
    <2>2. Added \subseteq view.added
      BY <1>1 DEF Recorded, Applied, Added
    <2>3. Migrations \subseteq view.ledger
      BY <1>1 DEF Migrations, Applied
    <2> QED
      BY <1>1, <2>1, <2>2, <2>3 DEF Complete
  <1>3. Types' /\ StageInv'
    BY <1>1 DEF Types, StageInv, Phases
  <1>4. DiskInv'
    BY <1>1 DEF DiskInv, Applied, Recorded, Moved
  <1>5. ViewInv'
    BY <1>1, <1>2 DEF ViewInv, Applied, Recorded, Complete
  <1> QED
    BY <1>3, <1>4, <1>5

\* The entrypoint's own steps, and a batch of the replay, leave the database as it is,
\* and leave a migration only when it is over.
LEMMA EntrypointStep ==
    StartupInv /\ (Migrated \/ Seed \/ SkipSeed \/ SeedBatch \/ SeedEnds \/ Serve) => StartupInv'
  <1> SUFFICES ASSUME StartupInv, Migrated \/ Seed \/ SkipSeed \/ SeedBatch \/ SeedEnds \/ Serve
               PROVE  StartupInv'
    OBVIOUS
  <1> USE DEF StartupInv, Migrated, Seed, SkipSeed, SeedBatch, SeedEnds, Serve, NextCapture, Enter
  <1>1. at = "idle" /\ open = FALSE /\ Complete(disk) /\ view = disk /\ Moved(disk) /\ Recorded(disk)
    BY DEF StageInv, ViewInv, DiskInv, Complete, Applied, Migrations
  <1>2. /\ disk' = disk /\ view' = view /\ open' = open /\ had' = had /\ crashes' = crashes
        /\ at' \in {"idle", "schema"} /\ (stage' \in {"check", "serving"} => at' = "idle")
        /\ stage' \in Stages
    BY <1>1 DEF dbVars, Stages
  <1>3. capture' \in 0..Len(Captures)
    BY StartupAssumption DEF Types
  <1>4. Types' /\ StageInv'
    BY <1>2, <1>3 DEF Types, StageInv, Phases
  <1>5. DiskInv'
    BY <1>2 DEF DiskInv, Applied, Recorded, Moved, Unmoved
  <1>6. ViewInv'
    BY <1>1, <1>2 DEF ViewInv, Applied, Recorded, Complete
  <1> QED
    BY <1>4, <1>5, <1>6

\* Death rolls back, and the next process begins with what is committed.
LEMMA DeathStep == StartupInv /\ (SeedDies \/ WorkerDies \/ ContainerDies) => StartupInv'
  <1> SUFFICES ASSUME StartupInv, SeedDies \/ WorkerDies \/ ContainerDies PROVE StartupInv'
    OBVIOUS
  <1> USE DEF StartupInv, SeedDies, WorkerDies, ContainerDies, NextCapture, Enter
  <1>1. /\ disk' = disk /\ view' = disk /\ open' = FALSE /\ had' = had
        /\ at' = "schema" /\ stage' \in {"boot", "replay", "import"}
    BY DEF Dies, Rollback
  <1>2. crashes' \in 0..MaxCrashes
    BY StartupAssumption DEF Types, Dies
  <1>3. capture' \in 0..Len(Captures)
    BY StartupAssumption DEF Types
  <1>4. Types' /\ StageInv'
    BY <1>1, <1>2, <1>3 DEF Types, StageInv, Phases, Stages
  <1>5. DiskInv'
    BY <1>1 DEF DiskInv, Applied, Recorded, Moved, Unmoved
  <1>6. ViewInv'
    BY <1>1 DEF ViewInv, DiskInv, Applied, Recorded
  <1> QED
    BY <1>4, <1>5, <1>6

LEMMA StartupUntouched == StartupInv /\ UNCHANGED startupVars => StartupInv'
  BY DEF StartupInv, Types, DiskInv, ViewInv, StageInv, Applied, Recorded, Moved, Unmoved, Half,
         Complete, startupVars, dbVars, stageVars

LEMMA NextStartup == StartupInv /\ [Next]_vars => StartupInv'
  <1> SUFFICES ASSUME StartupInv, [Next]_vars PROVE StartupInv'
    OBVIOUS
  <1>1. CASE Migrate
    BY <1>1, CreateStep, BeginSplitStep, SplitVerdictsStep, SplitPacketsStep, ArchiveStep,
       MarkSplitStep, AddStep, MarkStep, CommitStep DEF Migrate
  <1>2. CASE Migrated \/ Seed \/ SkipSeed \/ SeedBatch \/ SeedEnds \/ Serve
    BY <1>2, EntrypointStep
  <1>3. CASE SeedDies \/ WorkerDies \/ ContainerDies
    BY <1>3, DeathStep
  <1>4. CASE UNCHANGED startupVars
    BY <1>4, StartupUntouched
  <1> QED
    BY <1>1, <1>2, <1>3, <1>4 DEF Next, Starting, Serving, Dying, Proceed, vars

\* Whatever is killed and restarted, the start-up part of the invariant holds.
THEOREM StartupInvariant == Spec => []StartupInv
  <1>1. Init => StartupInv
    BY InitStartup
  <1>2. StartupInv /\ [Next]_vars => StartupInv'
    BY NextStartup
  <1> QED
    BY <1>1, <1>2, PTL DEF Spec

\* Whatever process dies at whatever statement, every row of the old table is in its new
\* table exactly once when the ledger names the split and not at all when it does not
\* (migrations.py 205-240).
THEOREM RowsAreMovedOnce == Spec => []RowsMovedOnce
  <1>1. StartupInv => RowsMovedOnce
    BY DEF StartupInv, DiskInv, RowsMovedOnce, Copies, Moved, Unmoved, Types, Database
  <1> QED
    BY <1>1, StartupInvariant, PTL

\* The committed ledger is never ahead of the columns, and the console serves on a
\* complete schema only (migrations.py 246-325).
THEOREM SchemaIsComplete == Spec => []SchemaComplete
  <1>1. StartupInv => SchemaComplete
    BY DEF StartupInv, DiskInv, ViewInv, StageInv, Recorded, SchemaComplete
  <1> QED
    BY <1>1, StartupInvariant, PTL

-----------------------------------------------------------------------------
(* The demo rows *)

\* What the replay has still to write holds no detection yet: the seed begins on a table
\* without one, and goes through the captures once, whichever of them fail.
DemoInv ==
    /\ done \in Nat
    /\ DOMAIN demo = DOMAIN Captures
    /\ \A c \in DOMAIN Captures : demo[c] \in [DOMAIN Captures[c] -> Nat]
    /\ SeededOnce
    /\ stage = "replay" =>
        \A c \in DOMAIN Captures : \A i \in DOMAIN Captures[c] :
            Captures[c][i] = "detections" /\ (c > capture \/ (c = capture /\ i > done)) => demo[c][i] = 0

LEMMA CaptureTypes ==
    /\ Len(Captures) \in Nat /\ DOMAIN Captures = 1..Len(Captures)
    /\ \A c \in DOMAIN Captures : Len(Captures[c]) \in Nat /\ DOMAIN Captures[c] = 1..Len(Captures[c])
    BY StartupAssumption

LEMMA InitDemo == Init => DemoInv
    BY CaptureTypes DEF Init, StartupInit, DemoInv, SeededOnce

LEMMA BatchDemo == Types /\ DemoInv /\ SeedBatch => DemoInv'
  <1> SUFFICES ASSUME Types, DemoInv, SeedBatch PROVE DemoInv'
    OBVIOUS
  <1> USE DEF DemoInv, SeedBatch
  <1>1. PICK last \in (done + 1)..Len(Captures[capture]) :
            /\ done' = last
            /\ demo' = [demo EXCEPT ![capture] =
                           [i \in DOMAIN @ |-> @[i] + (IF i \in (done + 1)..last THEN 1 ELSE 0)]]
    OBVIOUS
  <1>2. stage = "replay" /\ stage' = stage /\ capture' = capture /\ last \in Nat
    BY <1>1
  <1>3. \A c \in DOMAIN Captures : \A i \in DOMAIN Captures[c] :
            demo'[c][i] = demo[c][i] + (IF c = capture /\ i \in (done + 1)..last THEN 1 ELSE 0)
    BY <1>1
  <1>4. DOMAIN demo' = DOMAIN Captures
        /\ \A c \in DOMAIN Captures : demo'[c] \in [DOMAIN Captures[c] -> Nat]
    BY <1>1
  <1>5. \A c \in DOMAIN Captures : \A i \in DOMAIN Captures[c] :
            c \in Nat /\ i \in Nat /\ demo[c][i] \in Nat
    BY CaptureTypes
  <1>6. \A c \in DOMAIN Captures : \A i \in DOMAIN Captures[c] :
            Captures[c][i] = "detections" => demo'[c][i] <= 1
    BY <1>2, <1>3, <1>5 DEF SeededOnce, Types
  <1>7. \A c \in DOMAIN Captures : \A i \in DOMAIN Captures[c] :
            Captures[c][i] = "detections" /\ (c > capture \/ (c = capture /\ i > last)) => demo'[c][i] = 0
    BY <1>1, <1>2, <1>3, <1>5 DEF Types
  <1>8. SeededOnce'
    BY <1>4, <1>6 DEF SeededOnce
  <1> HIDE DEF SeedBatch
  <1> QED
    BY <1>1, <1>2, <1>4, <1>7, <1>8

\* The first capture, the next one, or no replay: nothing of what comes is there.
LEMMA StageDemo ==
    Types /\ DemoInv /\ (Migrate \/ Migrated \/ Seed \/ SkipSeed \/ SeedEnds \/ Serve
                          \/ SeedDies \/ WorkerDies \/ ContainerDies) => DemoInv'
  <1> SUFFICES ASSUME Types, DemoInv,
                      Migrate \/ Migrated \/ Seed \/ SkipSeed \/ SeedEnds \/ Serve
                        \/ SeedDies \/ WorkerDies \/ ContainerDies
               PROVE  DemoInv'
    OBVIOUS
  <1> USE DEF DemoInv, SeededOnce
  <1>1. CASE Migrate
    <2>1. UNCHANGED stageVars
      BY <1>1 DEF Migrate, CreateNext, BeginSplit, SplitVerdicts, SplitPackets, ArchiveSource,
                  MarkSplit, AddNext, MarkNext, CommitMigration, Goto
    <2> QED
      BY <2>1 DEF stageVars
  <1>2. CASE Seed
    <2>1. capture' = 1 /\ done' = 0 /\ demo' = demo
      BY <1>2 DEF Seed, Enter
    <2>2. \A c \in DOMAIN Captures : \A i \in DOMAIN Captures[c] :
              Captures[c][i] = "detections" => demo[c][i] = 0
      BY <1>2 DEF Seed, NoDetections
    <2> QED
      BY <2>1, <2>2
  <1>3. CASE SeedEnds \/ SeedDies
    <2>1. stage = "replay" /\ demo' = demo /\ done' = 0
          /\ (stage' = "replay" => capture' = capture + 1)
      BY <1>3 DEF SeedEnds, SeedDies, NextCapture, Enter
    <2>2. \A c \in DOMAIN Captures : c \in Nat /\ (c > capture + 1 \/ c = capture + 1 => c > capture)
      BY CaptureTypes DEF Types
    <2> QED
      BY <2>1, <2>2
  <1>4. CASE Migrated \/ SkipSeed \/ Serve \/ WorkerDies \/ ContainerDies
    <2>1. demo' = demo /\ done' \in Nat /\ stage' # "replay"
      BY <1>4 DEF Migrated, SkipSeed, Serve, WorkerDies, ContainerDies, Enter
    <2> QED
      BY <2>1
  <1> QED
    BY <1>1, <1>2, <1>3, <1>4

\* However often the container dies while it seeds, no demo detection is written twice
\* (docker/entrypoint.sh 37-46).
THEOREM SeedsOnce == Spec => []SeededOnce
  <1>1. Init => DemoInv
    BY InitDemo
  <1>2. StartupInv /\ DemoInv /\ [Next]_vars => DemoInv'
    <2>1. StartupInv /\ DemoInv /\ UNCHANGED startupVars => DemoInv'
      BY DEF DemoInv, SeededOnce, startupVars, stageVars
    <2> QED
      BY <2>1, BatchDemo, StageDemo DEF StartupInv, Next, Starting, Serving, Dying, Proceed, vars
  <1>3. DemoInv => SeededOnce
    BY DEF DemoInv
  <1> QED
    BY <1>1, <1>2, <1>3, StartupInvariant, PTL DEF Spec

-----------------------------------------------------------------------------
(* The requests and the accounts *)

RequestStates ==
    [pc : {"idle"}]
    \cup [pc : {"check"}, addr : Addresses, now : 0..MaxTime]
    \cup [pc : {"verify"}, addr : Addresses]
    \cup [pc : {"insert", "commit", "confirm"}, user : Usernames]

LoginTypes ==
    /\ clock \in 0..MaxTime /\ requests \in 0..MaxRequests
    /\ failures \in [Addresses -> Seq(0..MaxTime)]
    /\ thread \in [Threads -> RequestStates]
    /\ accounts \subseteq Usernames
    /\ confirmed \in [Usernames -> Nat]

\* One request at a time is between its INSERT and its commit, and what it inserted is
\* not there yet; one that has committed has not answered, and is the only one for its name.
AccountInv ==
    /\ AccountsKept
    /\ \A t, u \in Threads : thread[t].pc = "commit" /\ thread[u].pc = "commit" => t = u
    /\ \A t \in Threads : thread[t].pc = "commit" => thread[t].user \notin accounts
    /\ \A t \in Threads : thread[t].pc = "confirm" =>
            thread[t].user \in accounts /\ confirmed[thread[t].user] = 0
    /\ \A t, u \in Threads :
            thread[t].pc = "confirm" /\ thread[u].pc = "confirm" /\ thread[t].user = thread[u].user
              => t = u

LoginInv == LoginTypes /\ AccountInv

\* Popping the failures that are too old leaves a sequence of times.
LEMMA PruneType ==
    ASSUME NEW window \in Seq(0..MaxTime), NEW now
    PROVE  Prune(window, now) \in Seq(0..MaxTime)
  <1> DEFINE old == {i \in DOMAIN window : Expired(window[i], now)}
  <1>1. DOMAIN window = 1..Len(window) /\ Len(window) \in Nat
    OBVIOUS
  <1>2. IsFiniteSet(old)
    <2>1. old \subseteq 1..Len(window)
      BY <1>1
    <2>2. IsFiniteSet(1..Len(window))
      BY <1>1, FS_Interval
    <2> QED
      BY <2>1, <2>2, FS_Subset
  <1> DEFINE n == Cardinality(old)
  <1>3. n \in Nat
    BY <1>2, FS_CardinalityType
  <1>4. \A i \in 1..Len(window) : window[i] \in 0..MaxTime
    BY ElementOfSeq
  <1>5. Prune(window, now) = SubSeq(window, 1 + n, Len(window))
    BY DEF Prune
  <1> HIDE DEF n
  <1>6. \A i \in (1 + n)..Len(window) : window[i] \in 0..MaxTime
    BY <1>1, <1>3, <1>4
  <1>7. SubSeq(window, 1 + n, Len(window)) \in Seq(0..MaxTime)
    BY <1>1, <1>3, <1>6, SubSeqProperties
  <1> QED
    BY <1>5, <1>7

LEMMA InitLogin == Init => LoginInv
    BY LoginAssumption DEF Init, LoginInit, LoginInv, LoginTypes, AccountInv, AccountsKept, Idle, RequestStates

\* A request that changes neither accounts nor answers, and is now somewhere else than at
\* its commit or its answer.
LEMMA QuietRequest ==
    ASSUME LoginInv, NEW t \in Threads, NEW state \in RequestStates,
           state.pc \notin {"commit", "confirm"}, Set(t, state),
           UNCHANGED <<accounts, confirmed>>,
           clock' \in 0..MaxTime, requests' \in 0..MaxRequests,
           failures' \in [Addresses -> Seq(0..MaxTime)]
    PROVE  LoginInv'
  <1> USE DEF LoginInv, LoginTypes, Set
  <1>1. LoginTypes'
    OBVIOUS
  <1>2. \A u \in Threads : thread'[u] = IF u = t THEN state ELSE thread[u]
    OBVIOUS
  <1>3. AccountInv'
    BY <1>2 DEF AccountInv, AccountsKept
  <1> QED
    BY <1>1, <1>3

LEMMA LoginStep ==
    ASSUME LoginInv, NEW t \in Threads, NEW a \in Addresses, Login(t, a)
    PROVE  LoginInv'
  <1> DEFINE state == [pc |-> "check", addr |-> a, now |-> clock]
  <1>1. state \in RequestStates /\ state.pc = "check"
    BY DEF LoginInv, LoginTypes, RequestStates
  <1>2. /\ Set(t, state) /\ UNCHANGED <<clock, failures, accounts, confirmed>>
        /\ requests' \in 0..MaxRequests
    BY LoginAssumption DEF Login, LoginInv, LoginTypes, history
  <1> QED
    BY <1>1, <1>2, QuietRequest DEF LoginInv, LoginTypes

LEMMA ThrottleStep ==
    ASSUME LoginInv, NEW t \in Threads, CheckBlocked(t) \/ NoteFailure(t) \/ ClearFailures(t)
    PROVE  LoginInv'
  <1> DEFINE a == thread[t].addr
  <1>1. thread[t] \in RequestStates /\ thread[t].pc \in {"check", "verify"}
    BY DEF LoginInv, LoginTypes, CheckBlocked, NoteFailure, ClearFailures
  <1>2. a \in Addresses
    BY <1>1 DEF RequestStates
  <1>3. Idle \in RequestStates /\ Idle.pc = "idle"
    BY DEF Idle, RequestStates
  <1>4. [pc |-> "verify", addr |-> a] \in RequestStates
    BY <1>2 DEF RequestStates
  <1>5. UNCHANGED <<clock, requests, accounts, confirmed>>
    BY DEF CheckBlocked, NoteFailure, ClearFailures
  <1>6. failures' \in [Addresses -> Seq(0..MaxTime)]
    <2> USE DEF LoginInv, LoginTypes
    <2>1. CASE CheckBlocked(t)
      <3>1. Prune(failures[a], thread[t].now) \in Seq(0..MaxTime)
        BY <1>2, PruneType
      <3> QED
        BY <2>1, <3>1 DEF CheckBlocked
    <2>2. CASE NoteFailure(t)
      <3>1. Append(failures[a], clock) \in Seq(0..MaxTime)
        BY <1>2
      <3> QED
        BY <2>2, <3>1 DEF NoteFailure
    <2>3. CASE ClearFailures(t)
      <3>1. << >> \in Seq(0..MaxTime)
        OBVIOUS
      <3>2. failures' = [failures EXCEPT ![a] = << >>]
        BY <2>3 DEF ClearFailures
      <3> HIDE DEF a
      <3> QED
        BY <3>1, <3>2
    <2> QED
      BY <2>1, <2>2, <2>3
  <1>7. Set(t, Idle) \/ Set(t, [pc |-> "verify", addr |-> a])
    BY DEF CheckBlocked, NoteFailure, ClearFailures
  <1>8. [pc |-> "verify", addr |-> a].pc = "verify"
    OBVIOUS
  <1> HIDE DEF a
  <1> QED
    BY <1>3, <1>4, <1>5, <1>6, <1>7, <1>8, QuietRequest DEF LoginInv, LoginTypes

LEMMA RegisterStep ==
    ASSUME LoginInv, NEW t \in Threads, NEW u \in Usernames, Register(t, u)
    PROVE  LoginInv'
  <1> DEFINE state == [pc |-> "insert", user |-> u]
  <1>1. state \in RequestStates /\ state.pc = "insert"
    BY DEF RequestStates
  <1>2. /\ Set(t, state) /\ UNCHANGED <<clock, failures, accounts, confirmed>>
        /\ requests' \in 0..MaxRequests
    BY LoginAssumption DEF Register, LoginInv, LoginTypes, history
  <1> QED
    BY <1>1, <1>2, QuietRequest DEF LoginInv, LoginTypes

\* Where a registration is next.
LEMMA UserState ==
    ASSUME LoginTypes, NEW t \in Threads, thread[t].pc \in {"insert", "commit", "confirm"},
           NEW pc \in {"commit", "confirm"}
    PROVE  /\ thread[t].user \in Usernames
           /\ [thread[t] EXCEPT !.pc = pc] \in RequestStates
           /\ [thread[t] EXCEPT !.pc = pc].pc = pc
           /\ [thread[t] EXCEPT !.pc = pc].user = thread[t].user
  <1>1. thread[t] \in [pc : {"insert", "commit", "confirm"}, user : Usernames]
    BY DEF LoginTypes, RequestStates
  <1> QED
    BY <1>1 DEF RequestStates

LEMMA InsertStep == ASSUME LoginInv, NEW t \in Threads, Insert(t) PROVE LoginInv'
  <1> DEFINE state == [thread[t] EXCEPT !.pc = "commit"]
  <1>1. state \in RequestStates /\ state.pc = "commit" /\ state.user = thread[t].user
    BY UserState DEF Insert, LoginInv
  <1> HIDE DEF state
  <1>2. thread' = [thread EXCEPT ![t] = state]
        /\ UNCHANGED <<clock, failures, accounts, requests, confirmed>>
    BY DEF Insert, Set, history, state
  <1>3. \A u \in Threads : thread'[u] = IF u = t THEN state ELSE thread[u]
    BY <1>2 DEF LoginInv, LoginTypes
  <1>4. LoginTypes'
    BY <1>1, <1>2 DEF LoginInv, LoginTypes
  <1>5. AccountInv'
    BY <1>1, <1>2, <1>3 DEF LoginInv, AccountInv, AccountsKept, Insert, WriteLockFree
  <1> QED
    BY <1>4, <1>5 DEF LoginInv

LEMMA RefusedStep == ASSUME LoginInv, NEW t \in Threads, InsertRefused(t) PROVE LoginInv'
  <1>1. Idle \in RequestStates /\ Idle.pc = "idle"
    BY DEF Idle, RequestStates
  <1>2. Set(t, Idle) /\ UNCHANGED <<clock, failures, accounts, requests, confirmed>>
    BY DEF InsertRefused, history
  <1> QED
    BY <1>1, <1>2, QuietRequest DEF LoginInv, LoginTypes

LEMMA CommitAccountStep == ASSUME LoginInv, NEW t \in Threads, CommitAccount(t) PROVE LoginInv'
  <1> DEFINE state == [thread[t] EXCEPT !.pc = "confirm"]
             name == thread[t].user
  <1>1. state \in RequestStates /\ state.pc = "confirm" /\ state.user = name /\ name \in Usernames
    BY UserState DEF CommitAccount, LoginInv
  <1> HIDE DEF state
  <1>2. /\ thread[t].pc = "commit" /\ accounts' = accounts \cup {name}
        /\ thread' = [thread EXCEPT ![t] = state]
        /\ UNCHANGED <<clock, failures, requests, confirmed>>
    BY DEF CommitAccount, Set, history, state
  <1>3. \A u \in Threads : thread'[u] = IF u = t THEN state ELSE thread[u]
    BY <1>2 DEF LoginInv, LoginTypes
  <1>4. name \notin accounts
    BY <1>2 DEF LoginInv, AccountInv
  <1>5. confirmed[name] = 0
    <2>1. confirmed[name] \in Nat
      BY <1>1 DEF LoginInv, LoginTypes
    <2>2. confirmed[name] <= 1 /\ confirmed[name] # 1
      BY <1>1, <1>4 DEF LoginInv, AccountInv, AccountsKept
    <2> QED
      BY <2>1, <2>2
  <1>6. LoginTypes'
    BY <1>1, <1>2 DEF LoginInv, LoginTypes
  <1>7. AccountInv'
    BY <1>1, <1>2, <1>3, <1>4, <1>5 DEF LoginInv, AccountInv, AccountsKept
  <1> QED
    BY <1>6, <1>7 DEF LoginInv

LEMMA ConfirmStep == ASSUME LoginInv, NEW t \in Threads, Confirm(t) PROVE LoginInv'
  <1> DEFINE name == thread[t].user
  <1>1. name \in Usernames
    BY UserState DEF Confirm, LoginInv
  <1>2. /\ thread[t].pc = "confirm" /\ confirmed' = [confirmed EXCEPT ![name] = confirmed[name] + 1]
        /\ thread' = [thread EXCEPT ![t] = Idle]
        /\ UNCHANGED <<clock, failures, requests, accounts>>
    BY DEF Confirm, Set
  <1>3. Idle \in RequestStates /\ Idle.pc = "idle"
    BY DEF Idle, RequestStates
  <1>4. \A u \in Threads : thread'[u] = IF u = t THEN Idle ELSE thread[u]
    BY <1>2 DEF LoginInv, LoginTypes
  <1>5. name \in accounts /\ confirmed[name] = 0
    BY <1>2 DEF LoginInv, AccountInv
  <1>6. \A u \in Usernames : confirmed'[u] = IF u = name THEN 1 ELSE confirmed[u]
    BY <1>2, <1>5 DEF LoginInv, LoginTypes
  <1>7. \A u \in Threads : thread[u].pc = "confirm" => thread[u].user \in Usernames
    BY UserState DEF LoginInv
  <1>8. LoginTypes'
    BY <1>1, <1>2, <1>3, <1>5 DEF LoginInv, LoginTypes
  <1>9. AccountInv'
    BY <1>2, <1>3, <1>4, <1>5, <1>6, <1>7 DEF LoginInv, AccountInv, AccountsKept
  <1> QED
    BY <1>8, <1>9 DEF LoginInv

LEMMA ForgetStep == LoginInv /\ Forget => LoginInv'
  <1> SUFFICES ASSUME LoginInv, Forget PROVE LoginInv'
    OBVIOUS
  <1>1. Idle \in RequestStates /\ Idle.pc = "idle"
    BY DEF Idle, RequestStates
  <1> QED
    BY <1>1 DEF LoginInv, LoginTypes, AccountInv, AccountsKept, Forget

LEMMA TickStep == LoginInv /\ Tick => LoginInv'
    BY LoginAssumption DEF LoginInv, LoginTypes, AccountInv, AccountsKept, Tick, memory, history

LEMMA NextLogin == LoginInv /\ [Next]_vars => LoginInv'
  <1> SUFFICES ASSUME LoginInv, [Next]_vars PROVE LoginInv'
    OBVIOUS
  <1>1. CASE Operate
    BY <1>1, LoginStep, ThrottleStep, RegisterStep, InsertStep, RefusedStep, CommitAccountStep,
       ConfirmStep, TickStep DEF Operate
  <1>2. CASE Forget
    BY <1>2, ForgetStep
  <1>3. CASE UNCHANGED loginVars
    BY <1>3 DEF LoginInv, LoginTypes, AccountInv, AccountsKept, loginVars, memory, history
  <1> QED
    BY <1>1, <1>2, <1>3 DEF Next, Starting, Serving, Dying, vars

\* Under any interleaving of logins and sign-ups, so does the login part.
THEOREM LoginInvariant == Spec => []LoginInv
  <1> QED
    BY InitLogin, NextLogin, PTL DEF Spec

\* An account whose creation was confirmed survives every crash and restart, and no name
\* is given away twice, for any number of concurrent registrations (auth.py 133-160).
THEOREM AccountsAreKept == Spec => []AccountsKept
  <1>1. LoginInv => AccountsKept
    BY DEF LoginInv, AccountInv
  <1> QED
    BY <1>1, LoginInvariant, PTL

\* Every variable of the container has its type; a connection outside a transaction sees
\* what is committed, and at most one registration holds the write lock.
THEOREM TypeCorrect == Spec => []TypeOK
  <1>1. StartupInv => StartupTypeOK
    BY DEF StartupInv, Types, ViewInv, StartupTypeOK
  <1>2. LoginInv => LoginTypeOK
    <2> SUFFICES ASSUME LoginInv PROVE LoginTypeOK
      OBVIOUS
    <2> DEFINE writers == {t \in Threads : thread[t].pc = "commit"}
    <2>1. writers = {} \/ \E t : writers = {t}
      BY DEF LoginInv, AccountInv
    <2>2. Cardinality(writers) <= 1
      <3> HIDE DEF writers
      <3>1. CASE writers = {}
        BY <3>1, FS_EmptySet
      <3>2. CASE \E t : writers = {t}
        <4>1. PICK t : writers = {t}
          BY <3>2
        <4>2. Cardinality({t}) = 1
          BY FS_Singleton, Zenon
        <4> QED
          BY <4>1, <4>2
      <3> QED
        BY <2>1, <3>1, <3>2
    <2>3. \A t \in Threads : thread[t].pc \in {"idle", "check", "verify", "insert", "commit", "confirm"}
      BY DEF LoginInv, LoginTypes, RequestStates
    <2> QED
      BY <2>2, <2>3 DEF LoginTypeOK, LoginInv, LoginTypes
  <1>3. StartupInv /\ LoginInv => TypeOK
    BY <1>1, <1>2 DEF TypeOK
  <1> QED
    BY <1>3, StartupInvariant, LoginInvariant, PTL

-----------------------------------------------------------------------------
(* The login throttle of auth.py: every guess an address makes was let past *)
(* a check that saw fewer than MaxFailures fresh in the window that ends  *)
(* at the check; the threads that are past it are the only ones that can    *)
(* still add to the window that ends now.                                   *)

\* Sequences of times.
Times == Seq(0..MaxTime)

InOrder(times) == \A i, j \in DOMAIN times : i <= j => times[i] <= times[j]

\* The requests of address a that may still note a failure.
Verifying(a) == {t \in Threads : thread[t].pc = "verify" /\ thread[t].addr = a}

\* What is kept of an address's fresh is their end; what was popped is too old, now
\* and for ever.
Kept(a) ==
    LET popped == Len(fresh[a]) - Len(failures[a])
    IN /\ popped \in Nat
       /\ \A i \in 1..Len(failures[a]) : failures[a][i] = fresh[a][popped + i]
       /\ \A i \in 1..popped : clock - fresh[a][i] > Window

MaxGuesses == MaxFailures + Cardinality(Threads) - 1

\* No window holds too many fresh, and one that has not ended has room for those that
\* are on their way.
Bounded(a) ==
    \A from \in 0..MaxTime :
        /\ Within(fresh[a], from, from + Window) <= MaxGuesses
        /\ from + Window >= clock =>
            Within(fresh[a], from, from + Window) + Cardinality(Verifying(a)) <= MaxGuesses

Justified(a) == \A n \in refused[a] : n >= MaxFailures

Past(a) ==
    InOrder(fresh[a]) /\ \A i \in DOMAIN fresh[a] : fresh[a][i] <= clock

GuessInv ==
    /\ fresh \in [Addresses -> Times]
    /\ refused = [a \in Addresses |-> refused[a]]
    /\ \A t \in Threads : thread[t].pc = "check" => thread[t].now <= clock
    /\ \A a \in Addresses : Past(a) /\ Kept(a) /\ Bounded(a) /\ Justified(a)

-----------------------------------------------------------------------------
(* Counting *)

LEMMA TimesType ==
    ASSUME NEW g \in Times
    PROVE  /\ Len(g) \in Nat /\ DOMAIN g = 1..Len(g)
           /\ \A i \in 1..Len(g) : g[i] \in Nat /\ g[i] <= MaxTime
  <1>1. \A i \in 1..Len(g) : g[i] \in 0..MaxTime
    BY ElementOfSeq DEF Times
  <1> QED
    BY <1>1, LoginAssumption DEF Times

\* Places m+1 to n of a sequence.
LEMMA PlacesFrom ==
    ASSUME NEW n \in Nat, NEW m \in 0..n
    PROVE  IsFiniteSet((m + 1)..n) /\ Cardinality((m + 1)..n) = n - m
  <1>1. m + 1 \in Int /\ n \in Int
    OBVIOUS
  <1>2. /\ IsFiniteSet((m + 1)..n)
        /\ Cardinality((m + 1)..n) = IF m + 1 > n THEN 0 ELSE n - (m + 1) + 1
    BY <1>1, FS_Interval
  <1> QED
    BY <1>2

LEMMA Places ==
    ASSUME NEW n \in Nat
    PROVE  IsFiniteSet(1..n) /\ Cardinality(1..n) = n
  <1>1. 1 \in Int /\ n \in Int
    OBVIOUS
  <1>2. IsFiniteSet(1..n) /\ Cardinality(1..n) = IF 1 > n THEN 0 ELSE n - 1 + 1
    BY <1>1, FS_Interval
  <1> QED
    BY <1>2

\* Within counts a finite set of places.
LEMMA WithinType ==
    ASSUME NEW g \in Times, NEW from \in Int, NEW to \in Int
    PROVE  LET places == {i \in DOMAIN g : g[i] \in from..to}
           IN /\ IsFiniteSet(places) /\ Within(g, from, to) = Cardinality(places)
              /\ Within(g, from, to) \in Nat
  <1> DEFINE places == {i \in DOMAIN g : g[i] \in from..to}
  <1>1. places \in SUBSET (1..Len(g)) /\ IsFiniteSet(1..Len(g))
    BY TimesType, Places
  <1>2. IsFiniteSet(places)
    BY <1>1, FS_Subset
  <1>3. Within(g, from, to) = Cardinality(places)
    BY DEF Within
  <1> QED
    BY <1>2, <1>3, FS_CardinalityType

\* When only places after n count, they are at most the rest.
LEMMA WithinRest ==
    ASSUME NEW g \in Times, NEW from \in Int, NEW to \in Int, NEW n \in 0..Len(g),
           \A i \in 1..n : g[i] \notin from..to
    PROVE  Within(g, from, to) <= Len(g) - n
  <1> DEFINE places == {i \in DOMAIN g : g[i] \in from..to}
  <1>1. places \in SUBSET ((n + 1)..Len(g))
    BY TimesType
  <1>2. IsFiniteSet((n + 1)..Len(g)) /\ Cardinality((n + 1)..Len(g)) = Len(g) - n
    BY TimesType, PlacesFrom
  <1>3. Cardinality(places) <= Len(g) - n
    BY <1>1, <1>2, FS_Subset
  <1> QED
    BY <1>3 DEF Within

\* When all places after n count, they are at least the rest.
LEMMA WithinAll ==
    ASSUME NEW g \in Times, NEW from \in Int, NEW to \in Int, NEW n \in 0..Len(g),
           \A i \in (n + 1)..Len(g) : g[i] \in from..to
    PROVE  Within(g, from, to) >= Len(g) - n
  <1> DEFINE places == {i \in DOMAIN g : g[i] \in from..to}
  <1>1. (n + 1)..Len(g) \in SUBSET places
    BY TimesType
  <1>2. Cardinality((n + 1)..Len(g)) = Len(g) - n
    BY TimesType, PlacesFrom
  <1>3. IsFiniteSet(places) /\ Within(g, from, to) = Cardinality(places)
    BY WithinType
  <1> HIDE DEF places
  <1>4. Cardinality((n + 1)..Len(g)) <= Cardinality(places)
    BY <1>1, <1>3, FS_Subset
  <1> QED
    BY <1>2, <1>3, <1>4

\* A guess more.
LEMMA WithinAppend ==
    ASSUME NEW g \in Times, NEW c \in 0..MaxTime, NEW from \in Int, NEW to \in Int
    PROVE  /\ Append(g, c) \in Times
           /\ Within(Append(g, c), from, to) =
                Within(g, from, to) + (IF c \in from..to THEN 1 ELSE 0)
  <1> DEFINE h == Append(g, c)
             places == {i \in DOMAIN g : g[i] \in from..to}
             after == {i \in DOMAIN h : h[i] \in from..to}
  <1>1. h \in Times
    BY AppendProperties DEF Times
  <1>2. /\ Len(h) = Len(g) + 1 /\ h[Len(g) + 1] = c
        /\ \A i \in 1..Len(g) : h[i] = g[i]
    BY AppendProperties DEF Times
  <1>3. DOMAIN h = 1..(Len(g) + 1) /\ DOMAIN g = 1..Len(g) /\ Len(g) \in Nat
    BY <1>1, <1>2, TimesType
  <1>4. /\ IsFiniteSet(places) /\ Within(g, from, to) = Cardinality(places)
        /\ Within(h, from, to) = Cardinality(after) /\ Within(g, from, to) \in Nat
    BY <1>1, WithinType
  <1> HIDE DEF h
  <1>5. after = IF c \in from..to THEN places \cup {Len(g) + 1} ELSE places
    BY <1>2, <1>3
  <1>6. Len(g) + 1 \notin places
    BY <1>3
  <1> HIDE DEF places, after
  <1>7. Cardinality(places \cup {Len(g) + 1}) = Cardinality(places) + 1
    BY <1>4, <1>6, FS_AddElement
  <1>8. Within(h, from, to) = Within(g, from, to) + (IF c \in from..to THEN 1 ELSE 0)
    BY <1>4, <1>5, <1>7
  <1> QED
    BY <1>1, <1>8 DEF h

LEMMA WithinNothing ==
    ASSUME NEW from \in Int, NEW to \in Int
    PROVE  << >> \in Times /\ Within(<< >>, from, to) = 0
  <1>1. {i \in DOMAIN << >> : << >>[i] \in from..to} = {}
    OBVIOUS
  <1> QED
    BY <1>1, FS_EmptySet DEF Within, Times

\* A set of places that has, with any of them, all that come before is an interval.
LEMMA DownClosed ==
    ASSUME NEW n \in Nat, NEW d \in SUBSET (1..n),
           \A i \in d, j \in 1..n : j <= i => j \in d
    PROVE  Cardinality(d) \in 0..n /\ d = 1..Cardinality(d)
  <1>1. IsFiniteSet(1..n) /\ Cardinality(1..n) = n
    BY Places
  <1>2. IsFiniteSet(d) /\ Cardinality(d) \in Nat /\ Cardinality(d) <= n
    BY <1>1, FS_Subset, FS_CardinalityType
  <1>3. ASSUME NEW i \in 1..Cardinality(d) PROVE i \in d
    <2> SUFFICES ASSUME i \notin d PROVE FALSE
      OBVIOUS
    <2>1. d \in SUBSET (1..(i - 1))
      BY <1>2
    <2>2. i - 1 \in Nat
      BY <1>2
    <2>3. IsFiniteSet(1..(i - 1)) /\ Cardinality(1..(i - 1)) = i - 1
      BY <2>2, Places
    <2>4. Cardinality(d) <= Cardinality(1..(i - 1))
      BY <2>1, <2>3, FS_Subset
    <2> QED
      BY <1>2, <2>3, <2>4
  <1>4. ASSUME NEW i \in d PROVE i <= Cardinality(d)
    <2>1. i \in 1..n /\ 1..i \in SUBSET d
      OBVIOUS
    <2>2. Cardinality(1..i) = i
      BY <2>1, Places
    <2>3. Cardinality(1..i) <= Cardinality(d)
      BY <1>2, <2>1, FS_Subset
    <2> QED
      BY <2>2, <2>3
  <1> DEFINE k == Cardinality(d)
  <1>5. k \in 0..n
    BY <1>2
  <1>6. (\A i \in d : i \in 1..n /\ i <= k) /\ (\A i \in 1..k : i \in d)
    BY <1>3, <1>4
  <1> HIDE DEF k
  <1>7. d = 1..k
    <2>1. ASSUME NEW i \in d PROVE i \in 1..k
      BY <1>5, <1>6
    <2>2. ASSUME NEW i \in 1..k PROVE i \in d
      BY <1>6
    <2> QED
      BY <2>1, <2>2
  <1> QED
    BY <1>5, <1>7 DEF k

\* Pruning times in order removes the ones that are too old and no others.
LEMMA PruneResult ==
    ASSUME NEW w \in Times, InOrder(w), NEW now \in Int
    PROVE  \E n \in 0..Len(w) :
             /\ Prune(w, now) \in Times /\ Len(Prune(w, now)) = Len(w) - n
             /\ \A i \in 1..(Len(w) - n) : Prune(w, now)[i] = w[n + i]
             /\ \A i \in 1..n : now - w[i] > Window
             /\ \A i \in (n + 1)..Len(w) : ~(now - w[i] > Window)
  <1> DEFINE old == {i \in DOMAIN w : Expired(w[i], now)}
             n == Cardinality(old)
  <1>1. \A i \in old, j \in 1..Len(w) : j <= i => j \in old
    BY TimesType, LoginAssumption DEF InOrder, Expired
  <1>2. old \in SUBSET (1..Len(w)) /\ Len(w) \in Nat
    BY TimesType
  <1>3. n \in 0..Len(w) /\ old = 1..n
    BY <1>1, <1>2, DownClosed
  <1>4. Prune(w, now) = SubSeq(w, 1 + n, Len(w))
    BY DEF Prune
  <1>5. \A i \in 1..Len(w) : Expired(w[i], now) <=> i \in 1..n
    BY <1>3, TimesType
  <1> HIDE DEF n
  <1>6. \A i \in (1 + n)..Len(w) : w[i] \in 0..MaxTime
    <2>1. \A i \in 1..Len(w) : w[i] \in 0..MaxTime
      BY ElementOfSeq DEF Times
    <2> QED
      BY <1>2, <1>3, <2>1
  <1> DEFINE rest == SubSeq(w, 1 + n, Len(w))
  <1>7. 1 + n \in Int /\ Len(w) \in Int
    BY <1>2, <1>3
  <1>8. /\ rest \in Seq(0..MaxTime)
        /\ Len(rest) = IF 1 + n <= Len(w) THEN Len(w) - (1 + n) + 1 ELSE 0
        /\ \A i \in 1..(Len(w) - (1 + n) + 1) : rest[i] = w[(1 + n) + i - 1]
    BY <1>6, <1>7, SubSeqProperties
  <1> HIDE DEF rest
  <1>9. /\ rest \in Times /\ Len(rest) = Len(w) - n
        /\ \A i \in 1..(Len(w) - n) : rest[i] = w[n + i]
    <2>1. rest \in Times /\ Len(rest) = Len(w) - n
      BY <1>2, <1>3, <1>8 DEF Times
    <2>2. ASSUME NEW i \in 1..(Len(w) - n) PROVE rest[i] = w[n + i]
      <3>1. i \in 1..(Len(w) - (1 + n) + 1) /\ (1 + n) + i - 1 = n + i
        BY <1>2, <1>3
      <3> QED
        BY <1>8, <3>1
    <2> QED
      BY <2>1, <2>2
  <1>10. Prune(w, now) = rest
    BY <1>4 DEF rest
  <1>11. /\ \A i \in 1..n : now - w[i] > Window
         /\ \A i \in (n + 1)..Len(w) : ~(now - w[i] > Window)
    BY <1>2, <1>3, <1>5 DEF Expired
  <1> QED
    BY <1>3, <1>9, <1>10, <1>11

-----------------------------------------------------------------------------
(* The requests that are past the check *)

LEMMA VerifyingType ==
    ASSUME NEW a
    PROVE  /\ IsFiniteSet(Verifying(a)) /\ Cardinality(Verifying(a)) \in Nat
           /\ Cardinality(Threads) \in Nat
           /\ Cardinality(Verifying(a)) <= Cardinality(Threads)
  <1>1. Verifying(a) \in SUBSET Threads
    BY DEF Verifying
  <1> QED
    BY <1>1, LoginAssumption, FS_Subset, FS_CardinalityType

LEMMA VerifyingSet ==
    ASSUME LoginInv, NEW t \in Threads, NEW state \in RequestStates, Set(t, state)
    PROVE  /\ \A u \in Threads : thread'[u] = IF u = t THEN state ELSE thread[u]
           /\ \A b \in Addresses :
                Verifying(b)' = (Verifying(b) \ {t})
                    \cup (IF state.pc = "verify" /\ state.addr = b THEN {t} ELSE {})
  <1>1. \A u \in Threads : thread'[u] = IF u = t THEN state ELSE thread[u]
    BY DEF LoginInv, LoginTypes, Set
  <1> QED
    BY <1>1 DEF Verifying

\* Nothing happens to address b.
LEMMA SameAddress ==
    ASSUME NEW b \in Addresses, Past(b), Kept(b), Bounded(b), Justified(b),
           clock' = clock, fresh'[b] = fresh[b], failures'[b] = failures[b],
           refused'[b] = refused[b], Verifying(b)' = Verifying(b)
    PROVE  (Past(b) /\ Kept(b) /\ Bounded(b) /\ Justified(b))'
  BY DEF Past, Kept, Bounded, Justified

\* Nothing happens to any address; a request that is to be checked has read the clock.
LEMMA QuietGuess ==
    ASSUME LoginInv, GuessInv, NEW t \in Threads, NEW state \in RequestStates, Set(t, state),
           UNCHANGED <<clock, failures, fresh, refused>>,
           thread[t].pc # "verify", state.pc # "verify",
           state.pc = "check" => state.now = clock
    PROVE  GuessInv'
  <1>1. /\ \A u \in Threads : thread'[u] = IF u = t THEN state ELSE thread[u]
        /\ \A b \in Addresses : Verifying(b)' = Verifying(b) \ {t}
    BY VerifyingSet
  <1>2. \A b \in Addresses : t \notin Verifying(b)
    BY DEF Verifying
  <1>3. \A b \in Addresses : Verifying(b)' = Verifying(b)
    BY <1>1, <1>2
  <1>4. \A b \in Addresses : (Past(b) /\ Kept(b) /\ Bounded(b) /\ Justified(b))'
    BY <1>3, SameAddress DEF GuessInv
  <1>5. clock <= clock
    BY DEF LoginInv, LoginTypes
  <1> QED
    BY <1>1, <1>4, <1>5 DEF GuessInv

LEMMA InitGuess == Init => GuessInv
  <1> SUFFICES ASSUME Init PROVE GuessInv
    OBVIOUS
  <1> USE DEF Init, LoginInit
  <1>1. << >> \in Times /\ fresh \in [Addresses -> Times]
    BY WithinNothing
  <1>2. refused = [a \in Addresses |-> refused[a]]
    OBVIOUS
  <1>3. \A t \in Threads : thread[t].pc # "check"
    BY DEF Idle
  <1>4. ASSUME NEW a \in Addresses PROVE Past(a) /\ Kept(a) /\ Justified(a)
    BY <1>4 DEF Past, InOrder, Kept, Justified
  <1>5. ASSUME NEW a \in Addresses PROVE Bounded(a)
    <2>1. Verifying(a) = {}
      BY DEF Verifying, Idle
    <2>2. Cardinality(Verifying(a)) = 0
      BY <2>1, FS_EmptySet
    <2>3. 0 <= MaxGuesses
      BY LoginAssumption, VerifyingType DEF MaxGuesses
    <2>4. \A from \in 0..MaxTime : Within(fresh[a], from, from + Window) = 0
      <3> TAKE from \in 0..MaxTime
      <3>1. from \in Int /\ from + Window \in Int
        BY LoginAssumption
      <3> QED
        BY <3>1, WithinNothing
    <2> QED
      BY <2>2, <2>3, <2>4 DEF Bounded
  <1> QED
    BY <1>1, <1>2, <1>3, <1>4, <1>5 DEF GuessInv

-----------------------------------------------------------------------------
(* The steps *)

LEMMA TickGuess == ASSUME LoginInv, GuessInv, Tick PROVE GuessInv'
  <1>1. /\ clock \in Nat /\ clock' = clock + 1
        /\ UNCHANGED <<failures, thread, fresh, refused>>
    BY LoginAssumption DEF Tick, memory, history, LoginInv, LoginTypes
  <1>2. \A t \in Threads : thread'[t].pc = "check" => thread'[t].now <= clock'
    <2>1. \A t \in Threads : thread[t].pc = "check" => thread[t].now \in 0..MaxTime
      BY DEF LoginInv, LoginTypes, RequestStates
    <2> QED
      BY <1>1, <2>1, LoginAssumption DEF GuessInv
  <1>3. ASSUME NEW a \in Addresses
        PROVE  (Past(a) /\ Kept(a) /\ Bounded(a) /\ Justified(a))'
    <2>1. fresh[a] \in Times
      BY DEF GuessInv
    <2>2. Past(a)'
      BY <1>1, <2>1, TimesType DEF GuessInv, Past
    <2>3. Kept(a)'
      <3>1. \A i \in 1..(Len(fresh[a]) - Len(failures[a])) : fresh[a][i] \in Nat
        BY <2>1, TimesType DEF LoginInv, LoginTypes
      <3> QED
        BY <1>1, <3>1, LoginAssumption DEF GuessInv, Kept
    <2>4. Bounded(a)' /\ Justified(a)'
      <3>1. Verifying(a)' = Verifying(a)
        BY <1>1 DEF Verifying
      <3>2. \A from \in 0..MaxTime : from + Window >= clock' => from + Window >= clock
        BY <1>1, LoginAssumption
      <3> QED
        BY <1>1, <3>1, <3>2 DEF GuessInv, Bounded, Justified
    <2> QED
      BY <2>2, <2>3, <2>4
  <1> QED
    BY <1>1, <1>2, <1>3 DEF GuessInv

LEMMA ForgetGuess == ASSUME LoginInv, GuessInv, Forget PROVE GuessInv'
  <1>1. /\ fresh' = [a \in Addresses |-> << >>] /\ failures' = [a \in Addresses |-> << >>]
        /\ refused' = [a \in Addresses |-> {}]
        /\ thread' = [t \in Threads |-> Idle] /\ clock' = clock
    BY DEF Forget, Forgotten
  <1>2. fresh' \in [Addresses -> Times] /\ refused' = [a \in Addresses |-> refused'[a]]
    BY <1>1, WithinNothing
  <1>3. \A t \in Threads : thread'[t].pc # "check"
    BY <1>1 DEF Idle
  <1>4. ASSUME NEW a \in Addresses PROVE (Past(a) /\ Kept(a) /\ Justified(a))'
    BY <1>1, <1>4 DEF Past, InOrder, Kept, Justified
  <1>5. ASSUME NEW a \in Addresses PROVE Bounded(a)'
    <2>1. Verifying(a)' = {}
      BY <1>1 DEF Verifying, Idle
    <2>2. Cardinality(Verifying(a)') = 0
      BY <2>1, FS_EmptySet
    <2>3. 0 <= MaxGuesses
      BY LoginAssumption, VerifyingType DEF MaxGuesses
    <2>4. \A from \in 0..MaxTime : Within(fresh'[a], from, from + Window) = 0
      <3> TAKE from \in 0..MaxTime
      <3>1. from \in Int /\ from + Window \in Int
        BY LoginAssumption
      <3> QED
        BY <1>1, <3>1, WithinNothing
    <2> QED
      BY <2>2, <2>3, <2>4 DEF Bounded, MaxGuesses
  <1> QED
    BY <1>2, <1>3, <1>4, <1>5 DEF GuessInv

\* What the check pops is too old for every window that has not ended, and what it
\* leaves is in its own window.
LEMMA CheckKept ==
    ASSUME LoginInv, GuessInv, NEW a \in Addresses, NEW now \in 0..clock,
           clock' = clock, fresh' = fresh,
           failures' = [failures EXCEPT ![a] = Prune(failures[a], now)]
    PROVE  /\ Kept(a)'
           /\ Len(fresh[a]) - Len(failures'[a]) \in 0..Len(fresh[a])
           /\ \A i \in (Len(fresh[a]) - Len(failures'[a]) + 1)..Len(fresh[a]) :
                ~(now - fresh[a][i] > Window)
  <1>1. PICK g \in Times, f \in Times, w \in {Prune(failures[a], now)} :
            g = fresh[a] /\ f = failures[a] /\ w = Prune(failures[a], now)
    BY DEF LoginInv, LoginTypes, GuessInv, Times
  <1>2. /\ clock \in 0..MaxTime /\ now \in Int
        /\ Len(g) \in Nat /\ Len(f) \in Nat
        /\ \A i \in 1..Len(g) : g[i] \in Nat
    BY TimesType, LoginAssumption DEF LoginInv, LoginTypes
  <1>3. PICK p \in Nat :
            /\ p = Len(g) - Len(f)
            /\ \A i \in 1..Len(f) : f[i] = g[p + i]
            /\ \A i \in 1..p : clock - g[i] > Window
    BY <1>1 DEF GuessInv, Kept
  <1>4. InOrder(f)
    <2>1. DOMAIN f = 1..Len(f) /\ DOMAIN g = 1..Len(g)
      BY TimesType
    <2>2. InOrder(g)
      BY <1>1 DEF GuessInv, Past
    <2>3. \A i \in 1..Len(f) : p + i \in 1..Len(g)
      BY <1>2, <1>3
    <2>4. \A i, j \in 1..Len(f) : i <= j => p + i <= p + j
      BY <1>2, <1>3
    <2> QED
      BY <1>3, <2>1, <2>2, <2>3, <2>4 DEF InOrder
  <1>5. PICK n \in 0..Len(f) :
            /\ Len(w) = Len(f) - n
            /\ \A i \in 1..(Len(f) - n) : w[i] = f[n + i]
            /\ \A i \in 1..n : now - f[i] > Window
            /\ \A i \in (n + 1)..Len(f) : ~(now - f[i] > Window)
    <2>1. w = Prune(f, now) /\ now \in Int
      BY <1>1, <1>2
    <2>2. \E n \in 0..Len(f) :
             /\ Prune(f, now) \in Times /\ Len(Prune(f, now)) = Len(f) - n
             /\ \A i \in 1..(Len(f) - n) : Prune(f, now)[i] = f[n + i]
             /\ \A i \in 1..n : now - f[i] > Window
             /\ \A i \in (n + 1)..Len(f) : ~(now - f[i] > Window)
      BY <1>4, <2>1, PruneResult
    <2> QED
      BY <2>1, <2>2
  <1>6. Len(g) - Len(w) = p + n /\ p + n \in 0..Len(g)
    BY <1>2, <1>3, <1>5
  <1>7. \A i \in 1..Len(w) : w[i] = g[p + n + i]
    <2> TAKE i \in 1..Len(w)
    <2>1. i \in 1..(Len(f) - n) /\ n + i \in 1..Len(f) /\ p + (n + i) = p + n + i
      BY <1>2, <1>3, <1>5
    <2> QED
      BY <1>3, <1>5, <2>1
  <1>8. \A i \in 1..(p + n) : clock - g[i] > Window
    <2> TAKE i \in 1..(p + n)
    <2>1. CASE i <= p
      BY <1>2, <1>3, <2>1
    <2>2. CASE i > p
      <3>1. i - p \in 1..n /\ i - p \in 1..Len(f) /\ p + (i - p) = i /\ i \in 1..Len(g)
        BY <1>2, <1>3, <1>5, <1>6, <2>2
      <3>2. f[i - p] = g[i]
        BY <1>3, <3>1
      <3>3. now - g[i] > Window
        BY <1>5, <3>1, <3>2
      <3>4. g[i] \in Nat
        BY <1>2, <3>1
      <3> QED
        BY <1>2, <3>3, <3>4, LoginAssumption
    <2> QED
      BY <1>3, <1>5, <2>1, <2>2
  <1>9. \A i \in (p + n + 1)..Len(g) : ~(now - g[i] > Window)
    <2> TAKE i \in (p + n + 1)..Len(g)
    <2>1. i - p \in (n + 1)..Len(f) /\ i - p \in 1..Len(f) /\ p + (i - p) = i
      BY <1>2, <1>3, <1>5
    <2>2. f[i - p] = g[i]
      BY <1>3, <2>1
    <2> QED
      BY <1>5, <2>1, <2>2
  <1>10. failures'[a] = w /\ fresh'[a] = g
    BY <1>1 DEF LoginInv, LoginTypes
  <1>11. Kept(a)'
    <2> DEFINE m == Len(g) - Len(w)
    <2>1. m \in Nat /\ m = p + n
      BY <1>3, <1>6
    <2> HIDE DEF m
    <2>2. /\ \A i \in 1..Len(w) : w[i] = g[m + i]
          /\ \A i \in 1..m : clock' - g[i] > Window
      BY <1>7, <1>8, <2>1
    <2> QED
      BY <1>10, <2>1, <2>2 DEF Kept, m
  <1> QED
    BY <1>1, <1>6, <1>9, <1>10, <1>11

\* A check that lets the password be verified, or refuses it.
LEMMA CheckGuess ==
    ASSUME LoginInv, GuessInv, NEW t \in Threads, CheckBlocked(t)
    PROVE  GuessInv'
  <1>1. thread[t].pc = "check" /\ thread[t] \in RequestStates
    BY DEF CheckBlocked, LoginInv, LoginTypes
  <1>2. PICK a \in Addresses, now \in 0..clock : a = thread[t].addr /\ now = thread[t].now
    <2>1. thread[t].addr \in Addresses /\ thread[t].now \in 0..MaxTime
      BY <1>1 DEF RequestStates
    <2>2. thread[t].now <= clock /\ clock \in 0..MaxTime
      BY <1>1 DEF GuessInv, LoginInv, LoginTypes
    <2> QED
      BY <2>1, <2>2, LoginAssumption
  <1>3. PICK w, recent : w = Prune(failures[a], now) /\ recent = Within(fresh[a], now - Window, clock)
    OBVIOUS
  <1>4. /\ failures' = [failures EXCEPT ![a] = w]
        /\ UNCHANGED <<clock, fresh>>
        /\ IF Blocked(w)
           THEN /\ Set(t, Idle)
                /\ refused' = [refused EXCEPT ![a] = @ \cup {recent}]
           ELSE Set(t, [pc |-> "verify", addr |-> a]) /\ UNCHANGED refused
    BY <1>2, <1>3 DEF CheckBlocked
  <1>5. PICK state \in RequestStates :
            /\ Set(t, state) /\ state.pc \in {"idle", "verify"}
            /\ state.pc = "verify" => state.addr = a /\ ~Blocked(w)
            /\ refused' = IF state.pc = "idle"
                          THEN [refused EXCEPT ![a] = @ \cup {recent}] ELSE refused
            /\ state.pc = "idle" => Blocked(w)
    <2>1. CASE Blocked(w)
      <3>1. Idle \in RequestStates /\ Idle.pc = "idle"
        BY DEF Idle, RequestStates
      <3> QED
        BY <1>4, <2>1, <3>1
    <2>2. CASE ~Blocked(w)
      <3> DEFINE state == [pc |-> "verify", addr |-> a]
      <3>1. state \in RequestStates /\ state.pc = "verify" /\ state.addr = a
        BY DEF RequestStates
      <3> QED
        BY <1>4, <2>2, <3>1
    <2> QED
      BY <2>1, <2>2
  <1>6. /\ \A u \in Threads : thread'[u] = IF u = t THEN state ELSE thread[u]
        /\ \A b \in Addresses :
             Verifying(b)' = (Verifying(b) \ {t})
                 \cup (IF state.pc = "verify" /\ state.addr = b THEN {t} ELSE {})
    BY <1>5, VerifyingSet
  <1>7. \A b \in Addresses : t \notin Verifying(b)
    BY <1>1 DEF Verifying
  <1>8. ASSUME NEW b \in Addresses, b # a
        PROVE  (Past(b) /\ Kept(b) /\ Bounded(b) /\ Justified(b))'
    <2>1. Verifying(b)' = Verifying(b)
      BY <1>5, <1>6, <1>7, <1>8
    <2>2. refused'[b] = refused[b]
      BY <1>5, <1>8 DEF GuessInv
    <2>3. failures'[b] = failures[b]
      BY <1>4, <1>8 DEF LoginInv, LoginTypes
    <2> QED
      BY <1>4, <2>1, <2>2, <2>3, SameAddress DEF GuessInv
  <1>9. PICK g \in Times : g = fresh[a]
    BY DEF GuessInv
  <1>10. /\ failures'[a] = w /\ fresh'[a] = g /\ Kept(a)'
         /\ Len(g) - Len(w) \in 0..Len(g)
         /\ \A i \in (Len(g) - Len(w) + 1)..Len(g) : ~(now - g[i] > Window)
    <2>1. failures'[a] = w
      BY <1>4 DEF LoginInv, LoginTypes
    <2> QED
      BY <1>3, <1>4, <1>9, <2>1, CheckKept
  <1>11. /\ clock \in 0..MaxTime /\ now \in Nat /\ Window \in Nat /\ MaxTime \in Nat
         /\ Len(g) \in Nat /\ \A i \in 1..Len(g) : g[i] \in Nat /\ g[i] <= MaxTime
    BY TimesType, LoginAssumption DEF LoginInv, LoginTypes
  <1>12. Len(w) \in Nat
    <2>1. failures[a] \in Seq(0..MaxTime)
      BY DEF LoginInv, LoginTypes
    <2>2. w \in Seq(0..MaxTime)
      BY <1>3, <2>1, PruneType
    <2> QED
      BY <2>2
  <1> DEFINE n == Len(g) - Len(w)
  <1>13. /\ n \in 0..Len(g) /\ Len(g) - n = Len(w)
         /\ \A i \in (n + 1)..Len(g) : ~(now - g[i] > Window)
         /\ \A i \in 1..n : clock - g[i] > Window
    BY <1>4, <1>10, <1>11, <1>12 DEF Kept
  <1> HIDE DEF n
  <1>14. Justified(a)'
    <2>1. CASE state.pc = "idle"
      <3>1. refused'[a] = refused[a] \cup {recent}
        BY <1>5, <2>1 DEF GuessInv
      <3>2. now - Window \in Int /\ clock \in Int
        BY <1>11
      <3>3. \A i \in (n + 1)..Len(g) : g[i] \in (now - Window)..clock
        <4>1. \A i \in 1..Len(g) : g[i] <= clock
          BY <1>9, TimesType DEF GuessInv, Past
        <4> QED
          BY <1>11, <1>13, <4>1
      <3>4. Within(g, now - Window, clock) >= Len(w)
        BY <1>13, <3>2, <3>3, WithinAll
      <3>5. Within(g, now - Window, clock) \in Nat
        BY <3>2, WithinType
      <3>6. recent >= MaxFailures
        BY <1>3, <1>5, <1>9, <1>12, <2>1, <3>4, <3>5, LoginAssumption DEF Blocked
      <3> QED
        BY <3>1, <3>6 DEF Justified, GuessInv
    <2>2. CASE state.pc = "verify"
      <3>1. refused' = refused
        BY <1>5, <2>2
      <3> QED
        BY <3>1 DEF GuessInv, Justified
    <2> QED
      BY <1>5, <2>1, <2>2
  <1>15. ASSUME NEW from \in 0..MaxTime
         PROVE  /\ Within(g, from, from + Window) <= MaxGuesses
                /\ from + Window >= clock =>
                     Within(g, from, from + Window) + Cardinality(Verifying(a)') <= MaxGuesses
    <2>1. CASE state.pc = "idle"
      <3>1. Verifying(a)' = Verifying(a)
        BY <1>6, <1>7, <2>1
      <3> QED
        BY <1>9, <3>1 DEF GuessInv, Bounded
    <2>2. CASE state.pc = "verify"
      <3>1. Within(g, from, from + Window) <= MaxGuesses
        BY <1>9 DEF GuessInv, Bounded
      <3>2. ASSUME from + Window >= clock
            PROVE  Within(g, from, from + Window) + Cardinality(Verifying(a)') <= MaxGuesses
        <4>1. from \in Int /\ from + Window \in Int
          BY <1>11
        <4>2. \A i \in 1..n : g[i] \notin from..(from + Window)
          BY <1>11, <1>13, <3>2
        <4>3. Within(g, from, from + Window) <= Len(w)
          BY <1>13, <4>1, <4>2, WithinRest
        <4>4. Within(g, from, from + Window) \in Nat
          BY <4>1, WithinType
        <4>5. Verifying(a)' \in SUBSET Threads
          BY <1>6 DEF Verifying
        <4>6. /\ Cardinality(Verifying(a)') <= Cardinality(Threads)
              /\ Cardinality(Verifying(a)') \in Nat /\ Cardinality(Threads) \in Nat
          BY <4>5, LoginAssumption, FS_Subset, FS_CardinalityType
        <4>7. Len(w) <= MaxFailures - 1
          BY <1>5, <1>12, <2>2, LoginAssumption DEF Blocked
        <4> QED
          BY <1>12, <4>3, <4>4, <4>6, <4>7, LoginAssumption DEF MaxGuesses
      <3> QED
        BY <3>1, <3>2
    <2> QED
      BY <1>5, <2>1, <2>2
  <1>16. Bounded(a)'
    BY <1>4, <1>10, <1>15 DEF Bounded, MaxGuesses
  <1>17. Past(a)'
    BY <1>4 DEF GuessInv, Past
  <1>18. \A u \in Threads : thread'[u].pc = "check" => thread'[u].now <= clock'
    BY <1>4, <1>5, <1>6 DEF GuessInv
  <1>19. refused' = [b \in Addresses |-> refused'[b]] /\ fresh' \in [Addresses -> Times]
    BY <1>4, <1>5 DEF GuessInv
  <1> QED
    BY <1>8, <1>10, <1>14, <1>16, <1>17, <1>18, <1>19 DEF GuessInv

\* A request past the check ends: nothing changes for the other addresses.
LEMMA VerifyingEnds ==
    ASSUME LoginInv, NEW t \in Threads, thread[t].pc = "verify", Set(t, Idle)
    PROVE  /\ thread[t].addr \in Addresses
           /\ \A u \in Threads : thread'[u] = IF u = t THEN Idle ELSE thread[u]
           /\ \A b \in Addresses \ {thread[t].addr} : Verifying(b)' = Verifying(b)
  <1>1. Idle \in RequestStates /\ Idle.pc = "idle"
    BY DEF Idle, RequestStates
  <1>2. thread[t].addr \in Addresses
    BY DEF LoginInv, LoginTypes, RequestStates
  <1>3. /\ \A u \in Threads : thread'[u] = IF u = t THEN Idle ELSE thread[u]
        /\ \A b \in Addresses : Verifying(b)' = Verifying(b) \ {t}
    BY <1>1, VerifyingSet
  <1> QED
    BY <1>2, <1>3 DEF Verifying

\* A failure is noted: one guess more, and one request less on its way to one.
LEMMA NoteGuess ==
    ASSUME LoginInv, GuessInv, NEW t \in Threads, NoteFailure(t)
    PROVE  GuessInv'
  <1>1. PICK a \in Addresses : a = thread[t].addr
    BY VerifyingEnds DEF NoteFailure
  <1>2. /\ failures' = [failures EXCEPT ![a] = Append(failures[a], clock)]
        /\ fresh' = [fresh EXCEPT ![a] = Append(fresh[a], clock)]
        /\ UNCHANGED <<clock, refused>>
    BY <1>1 DEF NoteFailure
  <1>3. /\ \A u \in Threads : thread'[u] = IF u = t THEN Idle ELSE thread[u]
        /\ \A b \in Addresses \ {a} : Verifying(b)' = Verifying(b)
    BY <1>1, VerifyingEnds DEF NoteFailure
  <1>4. Verifying(a)' = Verifying(a) \ {t} /\ t \in Verifying(a)
    <2>1. \A b \in Addresses : Verifying(b)' = {u \in Threads : thread'[u].pc = "verify" /\ thread'[u].addr = b}
      BY DEF Verifying
    <2> QED
      BY <1>1, <1>3, <2>1 DEF Verifying, NoteFailure, Idle
  <1>5. /\ Cardinality(Verifying(a)') = Cardinality(Verifying(a)) - 1
        /\ Cardinality(Verifying(a)) \in Nat /\ Cardinality(Verifying(a)) >= 1
    <2>1. IsFiniteSet(Verifying(a)) /\ Cardinality(Verifying(a)) \in Nat
      BY VerifyingType
    <2>2. Cardinality(Verifying(a) \ {t}) = Cardinality(Verifying(a)) - 1
      BY <1>4, <2>1, FS_RemoveElement
    <2>3. Cardinality(Verifying(a)) # 0
      BY <1>4, <2>1, FS_EmptySet
    <2> QED
      BY <1>4, <2>1, <2>2, <2>3
  <1>6. ASSUME NEW b \in Addresses, b # a
        PROVE  (Past(b) /\ Kept(b) /\ Bounded(b) /\ Justified(b))'
    <2>1. /\ Verifying(b)' = Verifying(b) /\ clock' = clock /\ refused'[b] = refused[b]
          /\ failures'[b] = failures[b] /\ fresh'[b] = fresh[b]
      BY <1>2, <1>3, <1>6 DEF GuessInv, LoginInv, LoginTypes
    <2> QED
      BY <2>1, SameAddress DEF GuessInv
  <1>7. PICK g \in Times, f \in Times : g = fresh[a] /\ f = failures[a]
    BY DEF GuessInv, LoginInv, LoginTypes, Times
  <1>8. PICK h \in Times, e \in Times : h = Append(g, clock) /\ e = Append(f, clock)
    <2>1. clock \in 0..MaxTime
      BY DEF LoginInv, LoginTypes
    <2> QED
      BY <2>1, AppendProperties DEF Times
  <1>9. fresh'[a] = h /\ failures'[a] = e
    BY <1>2, <1>7, <1>8 DEF GuessInv, LoginInv, LoginTypes
  <1>10. /\ clock \in 0..MaxTime /\ clock \in Nat /\ Window \in Nat
         /\ Len(g) \in Nat /\ DOMAIN g = 1..Len(g) /\ \A i \in 1..Len(g) : g[i] \in Nat
         /\ Len(f) \in Nat
    BY TimesType, LoginAssumption DEF LoginInv, LoginTypes
  <1>11. /\ Len(h) = Len(g) + 1 /\ h[Len(g) + 1] = clock /\ \A i \in 1..Len(g) : h[i] = g[i]
         /\ Len(e) = Len(f) + 1 /\ e[Len(f) + 1] = clock /\ \A i \in 1..Len(f) : e[i] = f[i]
    BY <1>8, <1>10, AppendProperties DEF Times
  <1>12. Past(a)'
    <2>1. \A i, j \in 1..Len(g) : i <= j => g[i] <= g[j]
      BY <1>7, <1>10 DEF GuessInv, Past, InOrder
    <2>2. \A i \in 1..Len(g) : g[i] <= clock
      BY <1>7, <1>10 DEF GuessInv, Past
    <2>3. DOMAIN h = 1..(Len(g) + 1)
      BY <1>11, TimesType
    <2>4. \A i, j \in 1..(Len(g) + 1) : i <= j => h[i] <= h[j]
      <3> TAKE i, j \in 1..(Len(g) + 1)
      <3>1. CASE j = Len(g) + 1
        <4>1. i = Len(g) + 1 \/ i \in 1..Len(g)
          BY <1>10
        <4> QED
          BY <1>10, <1>11, <2>2, <3>1, <4>1
      <3>2. CASE j # Len(g) + 1
        <4>1. j \in 1..Len(g) /\ (i <= j => i \in 1..Len(g))
          BY <1>10, <3>2
        <4> QED
          BY <1>11, <2>1, <4>1
      <3> QED
        BY <3>1, <3>2
    <2>5. \A i \in 1..(Len(g) + 1) : h[i] <= clock
      <3> TAKE i \in 1..(Len(g) + 1)
      <3>1. i = Len(g) + 1 \/ i \in 1..Len(g)
        BY <1>10
      <3> QED
        BY <1>10, <1>11, <2>2, <3>1
    <2> QED
      BY <1>2, <1>9, <2>3, <2>4, <2>5 DEF Past, InOrder
  <1>13. Kept(a)'
    <2>1. PICK p \in Nat :
            /\ p = Len(g) - Len(f)
            /\ \A i \in 1..Len(f) : f[i] = g[p + i]
            /\ \A i \in 1..p : clock - g[i] > Window
      BY <1>7 DEF GuessInv, Kept
    <2>2. Len(h) - Len(e) = p
      BY <1>10, <1>11, <2>1
    <2>3. \A i \in 1..Len(e) : e[i] = h[p + i]
      <3> TAKE i \in 1..Len(e)
      <3>1. CASE i = Len(f) + 1
        BY <1>10, <1>11, <2>1, <3>1
      <3>2. CASE i # Len(f) + 1
        <4>1. i \in 1..Len(f) /\ p + i \in 1..Len(g)
          BY <1>10, <1>11, <2>1, <3>2
        <4> QED
          BY <1>11, <2>1, <4>1
      <3> QED
        BY <3>1, <3>2
    <2>4. \A i \in 1..p : clock' - h[i] > Window
      <3> TAKE i \in 1..p
      <3>1. i \in 1..Len(g)
        BY <1>10, <2>1
      <3> QED
        BY <1>2, <1>11, <2>1, <3>1
    <2> DEFINE m == Len(h) - Len(e)
    <2>5. m = p
      BY <2>2
    <2> HIDE DEF m
    <2>6. /\ m \in Nat /\ \A i \in 1..Len(e) : e[i] = h[m + i]
          /\ \A i \in 1..m : clock' - h[i] > Window
      BY <2>3, <2>4, <2>5
    <2> QED
      BY <1>9, <2>6 DEF Kept, m
  <1>14. ASSUME NEW from \in 0..MaxTime
         PROVE  /\ Within(h, from, from + Window) <= MaxGuesses
                /\ from + Window >= clock =>
                     Within(h, from, from + Window) + Cardinality(Verifying(a)') <= MaxGuesses
    <2>1. from \in Int /\ from + Window \in Int
      BY <1>10
    <2>2. /\ Within(h, from, from + Window) =
               Within(g, from, from + Window) + (IF clock \in from..(from + Window) THEN 1 ELSE 0)
          /\ Within(g, from, from + Window) \in Nat
      <3>1. Within(Append(g, clock), from, from + Window) =
                Within(g, from, from + Window) + (IF clock \in from..(from + Window) THEN 1 ELSE 0)
        BY <1>10, <2>1, WithinAppend
      <3>2. Within(g, from, from + Window) \in Nat
        BY <2>1, WithinType
      <3> QED
        BY <1>8, <3>1, <3>2
    <2>3. MaxGuesses \in Int
      BY LoginAssumption, VerifyingType DEF MaxGuesses
    <2>4. /\ Within(g, from, from + Window) <= MaxGuesses
          /\ from + Window >= clock =>
               Within(g, from, from + Window) + Cardinality(Verifying(a)) <= MaxGuesses
      BY <1>7 DEF GuessInv, Bounded
    <2>5. clock \in from..(from + Window) => from + Window >= clock
      BY <1>10, <2>1
    <2> QED
      BY <1>5, <2>2, <2>3, <2>4, <2>5
  <1>15. Bounded(a)'
    BY <1>2, <1>9, <1>14 DEF Bounded, MaxGuesses
  <1>16. Justified(a)'
    BY <1>2 DEF GuessInv, Justified
  <1>17. \A u \in Threads : thread'[u].pc = "check" => thread'[u].now <= clock'
    BY <1>2, <1>3 DEF GuessInv, Idle
  <1>18. refused' = [b \in Addresses |-> refused'[b]] /\ fresh' \in [Addresses -> Times]
    BY <1>2, <1>7, <1>8 DEF GuessInv
  <1> QED
    BY <1>6, <1>12, <1>13, <1>15, <1>16, <1>17, <1>18 DEF GuessInv

\* A success clears the window: every other request of the address may still fail.
LEMMA ClearGuess ==
    ASSUME LoginInv, GuessInv, NEW t \in Threads, ClearFailures(t)
    PROVE  GuessInv'
  <1>1. PICK a \in Addresses : a = thread[t].addr
    BY VerifyingEnds DEF ClearFailures
  <1>2. /\ failures' = [failures EXCEPT ![a] = << >>]
        /\ fresh' = [b \in Addresses |-> IF b \in {a} THEN << >> ELSE fresh[b]]
        /\ UNCHANGED <<clock, refused>>
    BY <1>1 DEF ClearFailures, Forgotten
  <1>3. /\ \A u \in Threads : thread'[u] = IF u = t THEN Idle ELSE thread[u]
        /\ \A b \in Addresses \ {a} : Verifying(b)' = Verifying(b)
    BY <1>1, VerifyingEnds DEF ClearFailures
  <1>4. ASSUME NEW b \in Addresses, b # a
        PROVE  (Past(b) /\ Kept(b) /\ Bounded(b) /\ Justified(b))'
    <2>1. /\ Verifying(b)' = Verifying(b) /\ clock' = clock /\ refused'[b] = refused[b]
          /\ failures'[b] = failures[b] /\ fresh'[b] = fresh[b]
      BY <1>2, <1>3, <1>4 DEF GuessInv, LoginInv, LoginTypes
    <2> QED
      BY <2>1, SameAddress DEF GuessInv
  <1>5. fresh'[a] = << >> /\ failures'[a] = << >>
    BY <1>2 DEF GuessInv, LoginInv, LoginTypes
  <1>6. (Past(a) /\ Kept(a) /\ Justified(a))'
    BY <1>2, <1>5 DEF Past, InOrder, Kept, Justified, GuessInv
  <1>7. Bounded(a)'
    <2>1. Verifying(a)' \in SUBSET (Threads \ {t})
      <3>1. Verifying(a)' = {u \in Threads : thread'[u].pc = "verify" /\ thread'[u].addr = a}
        BY DEF Verifying
      <3> QED
        BY <1>3, <3>1 DEF Idle
    <2>2. /\ IsFiniteSet(Threads \ {t}) /\ Cardinality(Threads \ {t}) = Cardinality(Threads) - 1
          /\ Cardinality(Threads) \in Nat
      BY LoginAssumption, FS_RemoveElement, FS_CardinalityType
    <2>3. Cardinality(Verifying(a)') <= Cardinality(Threads) - 1 /\ Cardinality(Verifying(a)') \in Nat
      <3>1. Cardinality(Verifying(a)') <= Cardinality(Threads \ {t}) /\ IsFiniteSet(Verifying(a)')
        BY <2>1, <2>2, FS_Subset
      <3> QED
        BY <2>2, <3>1, FS_CardinalityType
    <2>4. \A from \in 0..MaxTime : Within(fresh'[a], from, from + Window) = 0
      <3> TAKE from \in 0..MaxTime
      <3>1. from \in Int /\ from + Window \in Int
        BY LoginAssumption
      <3> QED
        BY <1>5, <3>1, WithinNothing
    <2> QED
      BY <2>2, <2>3, <2>4, LoginAssumption DEF Bounded, MaxGuesses
  <1>8. \A u \in Threads : thread'[u].pc = "check" => thread'[u].now <= clock'
    BY <1>2, <1>3 DEF GuessInv, Idle
  <1>9. refused' = [b \in Addresses |-> refused'[b]] /\ fresh' \in [Addresses -> Times]
    <2>1. << >> \in Times
      BY DEF Times
    <2> QED
      BY <1>2, <2>1 DEF GuessInv
  <1> QED
    BY <1>4, <1>6, <1>7, <1>8, <1>9 DEF GuessInv

\* Requests of the other kinds, and the ones that only begin.
LEMMA OtherGuess ==
    ASSUME LoginInv, GuessInv, NEW t \in Threads,
           \/ \E a \in Addresses : Login(t, a)
           \/ \E u \in Usernames : Register(t, u)
           \/ Insert(t) \/ InsertRefused(t) \/ CommitAccount(t) \/ Confirm(t)
    PROVE  GuessInv'
  <1>1. UNCHANGED <<clock, failures, fresh, refused>> /\ thread[t].pc # "verify"
    BY DEF Login, Register, Insert, InsertRefused, CommitAccount, Confirm, history
  <1> DEFINE Quiet(state) ==
                 /\ state \in RequestStates /\ Set(t, state) /\ state.pc # "verify"
                 /\ state.pc = "check" => state.now = clock
  <1>2. ASSUME NEW state, Quiet(state) PROVE GuessInv'
    BY <1>1, <1>2, QuietGuess
  <1>3. ASSUME NEW a \in Addresses, Login(t, a) PROVE Quiet([pc |-> "check", addr |-> a, now |-> clock])
    BY <1>3 DEF Login, RequestStates, LoginInv, LoginTypes
  <1>4. ASSUME NEW u \in Usernames, Register(t, u) PROVE Quiet([pc |-> "insert", user |-> u])
    BY <1>4 DEF Register, RequestStates
  <1>5. Insert(t) => Quiet([thread[t] EXCEPT !.pc = "commit"])
    BY UserState DEF Insert, LoginInv
  <1>6. CommitAccount(t) => Quiet([thread[t] EXCEPT !.pc = "confirm"])
    BY UserState DEF CommitAccount, LoginInv
  <1>7. InsertRefused(t) \/ Confirm(t) => Quiet(Idle)
    BY DEF InsertRefused, Confirm, Idle, RequestStates
  <1> HIDE DEF Quiet
  <1> QED
    BY <1>2, <1>3, <1>4, <1>5, <1>6, <1>7

LEMMA NextGuess == LoginInv /\ GuessInv /\ [Next]_vars => GuessInv'
  <1> SUFFICES ASSUME LoginInv, GuessInv, [Next]_vars PROVE GuessInv'
    OBVIOUS
  <1>1. CASE Operate
    BY <1>1, TickGuess, CheckGuess, NoteGuess, ClearGuess, OtherGuess DEF Operate
  <1>2. CASE Forget
    BY <1>2, ForgetGuess
  <1>3. CASE UNCHANGED loginVars
    <2>1. UNCHANGED <<clock, failures, thread, fresh, refused>>
      BY <1>3 DEF loginVars, memory, history
    <2> QED
      BY <2>1 DEF GuessInv, Past, Kept, Bounded, Justified, Verifying
  <1> QED
    BY <1>1, <1>2, <1>3 DEF Next, Starting, Serving, Dying, vars

-----------------------------------------------------------------------------
(* All the failures of an address. Each time some were forgotten pays for as *)
(* many as a window can hold at once; what was noted since is not paid for.  *)

Paid(a) ==
    \A from \in 0..MaxTime :
        LET all == Within(guesses[a], from, from + Window)
            runs == Within(emptied[a], from, from + Window)
            new == Within(fresh[a], from, from + Window)
        IN \/ all <= MaxGuesses * runs + new
           \/ from + Window < clock /\ all <= MaxGuesses * (runs + 1)

HistoryInv ==
    /\ guesses \in [Addresses -> Times] /\ emptied \in [Addresses -> Times]
    /\ \A a \in Addresses : Paid(a)

\* The numbers of one window.
LEMMA Windows ==
    ASSUME LoginInv, GuessInv, HistoryInv, NEW a \in Addresses, NEW from \in 0..MaxTime
    PROVE  /\ from \in Int /\ from + Window \in Int /\ clock \in 0..MaxTime /\ clock \in Int
           /\ MaxGuesses \in Nat
           /\ Within(guesses[a], from, from + Window) \in Nat
           /\ Within(emptied[a], from, from + Window) \in Nat
           /\ Within(fresh[a], from, from + Window) \in Nat
           /\ Within(fresh[a], from, from + Window) <= MaxGuesses
           /\ clock < from => Within(fresh[a], from, from + Window) = 0
           /\ \A n \in Nat : MaxGuesses * n \in Nat
                             /\ MaxGuesses * (n + 1) = MaxGuesses * n + MaxGuesses
  <1>1. /\ from \in Int /\ from + Window \in Int /\ clock \in 0..MaxTime /\ clock \in Int
        /\ MaxGuesses \in Nat
    <2>1. Cardinality(Threads) \in Nat
      BY LoginAssumption, FS_CardinalityType
    <2>2. clock \in 0..MaxTime
      BY DEF LoginInv, LoginTypes
    <2>3. MaxGuesses \in Nat
      BY <2>1, LoginAssumption DEF MaxGuesses
    <2> QED
      BY <2>2, <2>3, LoginAssumption
  <1>2. PICK g \in Times, e \in Times, f \in Times :
            g = guesses[a] /\ e = emptied[a] /\ f = fresh[a]
    BY DEF GuessInv, HistoryInv
  <1>3. /\ Within(g, from, from + Window) \in Nat /\ Within(e, from, from + Window) \in Nat
        /\ Within(f, from, from + Window) \in Nat
    BY <1>1, WithinType
  <1>4. Within(f, from, from + Window) <= MaxGuesses
    BY <1>2 DEF GuessInv, Bounded
  <1>5. ASSUME clock < from PROVE Within(f, from, from + Window) = 0
    <2>1. Len(f) \in 0..Len(f) /\ \A i \in 1..Len(f) : f[i] \notin from..(from + Window)
      <3>1. \A i \in 1..Len(f) : f[i] <= clock /\ f[i] \in Nat
        BY <1>2, TimesType DEF GuessInv, Past
      <3>2. Len(f) \in Nat
        BY TimesType
      <3> QED
        BY <1>1, <1>5, <3>1, <3>2
    <2>2. Within(f, from, from + Window) <= Len(f) - Len(f)
      BY <1>1, <2>1, WithinRest
    <2> QED
      BY <1>3, <2>1, <2>2, TimesType
  <1>6. \A n \in Nat : MaxGuesses * n \in Nat
                       /\ MaxGuesses * (n + 1) = MaxGuesses * n + MaxGuesses
    BY <1>1
  <1> QED
    BY <1>1, <1>2, <1>3, <1>4, <1>5, <1>6

\* Nothing is noted or forgotten, though time may pass.
LEMMA SameHistory ==
    ASSUME LoginInv, GuessInv, HistoryInv, UNCHANGED <<guesses, emptied, fresh>>,
           clock' \in Nat, clock <= clock'
    PROVE  HistoryInv'
  <1>1. ASSUME NEW a \in Addresses PROVE Paid(a)'
    <2>1. MaxGuesses' = MaxGuesses
      BY DEF MaxGuesses
    <2>2. \A from \in 0..MaxTime : from + Window < clock => from + Window < clock'
      BY LoginAssumption DEF LoginInv, LoginTypes
    <2> QED
      BY <2>1, <2>2 DEF HistoryInv, Paid
  <1> QED
    BY <1>1 DEF HistoryInv

\* A failure is noted: it is one of all of them and one of the new ones.
LEMMA NoteHistory ==
    ASSUME LoginInv, GuessInv, HistoryInv, NEW t \in Threads, NoteFailure(t)
    PROVE  HistoryInv'
  <1>1. PICK a \in Addresses : a = thread[t].addr
    BY VerifyingEnds DEF NoteFailure
  <1>2. /\ guesses' = [guesses EXCEPT ![a] = Append(guesses[a], clock)]
        /\ fresh' = [fresh EXCEPT ![a] = Append(fresh[a], clock)]
        /\ UNCHANGED <<clock, emptied>>
    BY <1>1 DEF NoteFailure
  <1>3. PICK g \in Times, f \in Times, now \in 0..MaxTime :
            g = guesses[a] /\ f = fresh[a] /\ now = clock
    BY DEF GuessInv, HistoryInv, LoginInv, LoginTypes
  <1>4. /\ guesses'[a] = Append(g, now) /\ fresh'[a] = Append(f, now)
        /\ \A b \in Addresses : b # a => guesses'[b] = guesses[b] /\ fresh'[b] = fresh[b]
    BY <1>2, <1>3 DEF GuessInv, HistoryInv
  <1>5. Append(g, now) \in Times
    BY AppendProperties DEF Times
  <1>6. guesses' \in [Addresses -> Times] /\ emptied' \in [Addresses -> Times]
    BY <1>2, <1>3, <1>5 DEF HistoryInv
  <1>7. ASSUME NEW b \in Addresses, b # a PROVE Paid(b)'
    BY <1>2, <1>4, <1>7 DEF HistoryInv, Paid, MaxGuesses
  <1>8. Paid(a)'
    <2>1. ASSUME NEW from \in 0..MaxTime
          PROVE  LET all == Within(guesses'[a], from, from + Window)
                     runs == Within(emptied[a], from, from + Window)
                     new == Within(fresh'[a], from, from + Window)
                 IN \/ all <= MaxGuesses * runs + new
                    \/ from + Window < clock /\ all <= MaxGuesses * (runs + 1)
      <3> DEFINE all == Within(guesses[a], from, from + Window)
                 runs == Within(emptied[a], from, from + Window)
                 new == Within(fresh[a], from, from + Window)
                 one == IF clock \in from..(from + Window) THEN 1 ELSE 0
      <3>1. /\ from \in Int /\ from + Window \in Int /\ clock \in Int /\ MaxGuesses \in Nat
            /\ all \in Nat /\ runs \in Nat /\ new \in Nat
            /\ MaxGuesses * runs \in Nat /\ MaxGuesses * (runs + 1) \in Nat
        <4>1. /\ from \in Int /\ from + Window \in Int /\ clock \in Int /\ MaxGuesses \in Nat
              /\ all \in Nat /\ runs \in Nat /\ new \in Nat
              /\ \A n \in Nat : MaxGuesses * n \in Nat
          BY Windows
        <4>2. runs + 1 \in Nat
          BY <4>1
        <4>3. MaxGuesses * runs \in Nat /\ MaxGuesses * (runs + 1) \in Nat
          BY <4>1, <4>2
        <4> QED
          BY <4>1, <4>3
      <3>2. /\ Within(guesses'[a], from, from + Window) = all + one
            /\ Within(fresh'[a], from, from + Window) = new + one
        <4>1. /\ Within(Append(g, now), from, from + Window) =
                    Within(g, from, from + Window)
                      + (IF now \in from..(from + Window) THEN 1 ELSE 0)
              /\ Within(Append(f, now), from, from + Window) =
                    Within(f, from, from + Window)
                      + (IF now \in from..(from + Window) THEN 1 ELSE 0)
          BY <3>1, WithinAppend
        <4> QED
          BY <1>3, <1>4, <4>1
      <3>3. \/ all <= MaxGuesses * runs + new
            \/ from + Window < clock /\ all <= MaxGuesses * (runs + 1)
        BY DEF HistoryInv, Paid
      <3>4. one \in {0, 1} /\ (from + Window < clock => one = 0)
        BY <3>1
      <3> HIDE DEF all, runs, new, one
      <3>5. CASE all <= MaxGuesses * runs + new
        <4>1. all + one <= MaxGuesses * runs + (new + one)
          BY <3>1, <3>4, <3>5
        <4> QED
          BY <3>2, <4>1 DEF runs
      <3>6. CASE from + Window < clock /\ all <= MaxGuesses * (runs + 1)
        <4>1. all + one <= MaxGuesses * (runs + 1)
          BY <3>1, <3>4, <3>6
        <4> QED
          BY <3>2, <3>6, <4>1 DEF runs
      <3> QED
        BY <3>3, <3>5, <3>6
    <2> QED
      BY <1>2, <2>1 DEF Paid, MaxGuesses
  <1> QED
    BY <1>6, <1>7, <1>8 DEF HistoryInv

\* Failures are forgotten: the new ones, which a window cannot hold more of than
\* MaxGuesses, are paid for.
LEMMA ForgottenHistory ==
    ASSUME LoginInv, GuessInv, HistoryInv, NEW addresses, Forgotten(addresses),
           UNCHANGED <<clock, guesses>>
    PROVE  HistoryInv'
  <1>1. << >> \in Times /\ \A from \in 0..MaxTime : Within(<< >>, from, from + Window) = 0
    <2>1. \A from \in 0..MaxTime : from \in Int /\ from + Window \in Int
      BY LoginAssumption
    <2>2. << >> \in Times
      BY DEF Times
    <2> QED
      BY <2>1, <2>2, WithinNothing
  <1>2. ASSUME NEW a \in Addresses
        PROVE  Append(emptied[a], clock) \in Times
    BY AppendProperties DEF HistoryInv, LoginInv, LoginTypes, Times
  <1>3. emptied' \in [Addresses -> Times] /\ guesses' \in [Addresses -> Times]
    BY <1>2 DEF Forgotten, HistoryInv
  <1>4. ASSUME NEW a \in Addresses, ~(a \in addresses /\ fresh[a] # << >>) PROVE Paid(a)'
    <2>1. emptied'[a] = emptied[a] /\ fresh'[a] = fresh[a]
      BY <1>4 DEF Forgotten
    <2> QED
      BY <2>1 DEF HistoryInv, Paid, MaxGuesses
  <1>5. ASSUME NEW a \in Addresses, a \in addresses, fresh[a] # << >> PROVE Paid(a)'
    <2>1. emptied'[a] = Append(emptied[a], clock) /\ fresh'[a] = << >>
      BY <1>5 DEF Forgotten
    <2>2. ASSUME NEW from \in 0..MaxTime
          PROVE  LET all == Within(guesses[a], from, from + Window)
                     runs == Within(emptied'[a], from, from + Window)
                     new == Within(fresh'[a], from, from + Window)
                 IN \/ all <= MaxGuesses * runs + new
                    \/ from + Window < clock /\ all <= MaxGuesses * (runs + 1)
      <3> DEFINE all == Within(guesses[a], from, from + Window)
                 runs == Within(emptied[a], from, from + Window)
                 new == Within(fresh[a], from, from + Window)
                 one == IF clock \in from..(from + Window) THEN 1 ELSE 0
      <3>1. /\ from \in Int /\ from + Window \in Int /\ clock \in 0..MaxTime /\ clock \in Int
            /\ MaxGuesses \in Nat /\ all \in Nat /\ runs \in Nat /\ new \in Nat
            /\ new <= MaxGuesses /\ (clock < from => new = 0)
            /\ \A n \in Nat : MaxGuesses * n \in Nat
                              /\ MaxGuesses * (n + 1) = MaxGuesses * n + MaxGuesses
        BY Windows
      <3>2. /\ Within(emptied'[a], from, from + Window) = runs + one
            /\ Within(fresh'[a], from, from + Window) = 0
        BY <1>1, <2>1, <3>1, WithinAppend DEF HistoryInv
      <3>3. \/ all <= MaxGuesses * runs + new
            \/ from + Window < clock /\ all <= MaxGuesses * (runs + 1)
        BY DEF HistoryInv, Paid
      <3> HIDE DEF all, runs, new
      <3>4. /\ MaxGuesses * runs \in Nat
            /\ MaxGuesses * (runs + 1) = MaxGuesses * runs + MaxGuesses
        BY <3>1
      <3>5. CASE clock < from
        <4>1. all <= MaxGuesses * runs + 0 /\ one = 0
          BY <3>1, <3>3, <3>4, <3>5, LoginAssumption
        <4>2. runs + one = runs
          BY <3>1, <4>1
        <4> QED
          BY <3>2, <4>1, <4>2 DEF all
      <3>6. CASE clock \in from..(from + Window)
        <4>1. all <= MaxGuesses * (runs + 1) + 0 /\ one = 1
          BY <3>1, <3>3, <3>4, <3>6
        <4> QED
          BY <3>2, <4>1 DEF all
      <3>7. CASE from + Window < clock
        <4>1. all <= MaxGuesses * (runs + 1) /\ one = 0
          BY <3>1, <3>3, <3>4, <3>7
        <4>2. runs + one = runs
          BY <3>1, <4>1
        <4> QED
          BY <3>2, <3>7, <4>1, <4>2 DEF all
      <3> QED
        BY <3>1, <3>5, <3>6, <3>7
    <2> QED
      BY <2>2 DEF Paid, MaxGuesses
  <1> QED
    BY <1>3, <1>4, <1>5 DEF HistoryInv

LEMMA NextHistory == LoginInv /\ GuessInv /\ HistoryInv /\ [Next]_vars => HistoryInv'
  <1> SUFFICES ASSUME LoginInv, GuessInv, HistoryInv, [Next]_vars PROVE HistoryInv'
    OBVIOUS
  <1>1. clock \in Nat
    BY LoginAssumption DEF LoginInv, LoginTypes
  <1>2. CASE Forget
    BY <1>2, ForgottenHistory DEF Forget
  <1>3. CASE Tick
    <2>1. UNCHANGED <<guesses, emptied, fresh>> /\ clock' = clock + 1
      BY <1>3 DEF Tick, history
    <2> QED
      BY <1>1, <2>1, SameHistory
  <1>4. CASE UNCHANGED loginVars
    BY <1>1, <1>4, SameHistory DEF loginVars, history
  <1>5. ASSUME NEW t \in Threads, CheckBlocked(t) PROVE HistoryInv'
    BY <1>1, <1>5, SameHistory DEF CheckBlocked
  <1>6. ASSUME NEW t \in Threads, ClearFailures(t) PROVE HistoryInv'
    <2>1. Forgotten({thread[t].addr}) /\ UNCHANGED <<clock, guesses>>
      BY <1>6 DEF ClearFailures
    <2> QED
      BY <2>1, ForgottenHistory
  <1>7. ASSUME NEW t \in Threads,
               \/ \E a \in Addresses : Login(t, a)
               \/ \E u \in Usernames : Register(t, u)
               \/ Insert(t) \/ InsertRefused(t) \/ CommitAccount(t) \/ Confirm(t)
        PROVE  HistoryInv'
    <2>1. UNCHANGED <<guesses, emptied, fresh, clock>>
      BY <1>7 DEF Login, Register, Insert, InsertRefused, CommitAccount, Confirm, history
    <2> QED
      BY <1>1, <2>1, SameHistory
  <1> QED
    BY <1>2, <1>3, <1>4, <1>5, <1>6, <1>7, NoteHistory
    DEF Next, Starting, Serving, Dying, Operate, vars

LEMMA InitHistory == Init => HistoryInv
  <1> SUFFICES ASSUME Init PROVE HistoryInv
    OBVIOUS
  <1> USE DEF Init, LoginInit
  <1>1. << >> \in Times
    BY DEF Times
  <1>2. ASSUME NEW a \in Addresses PROVE Paid(a)
    <2> SUFFICES ASSUME NEW from \in 0..MaxTime
                 PROVE  0 <= MaxGuesses * 0 + 0 /\ Within(<< >>, from, from + Window) = 0
      BY DEF Paid
    <2>1. from \in Int /\ from + Window \in Int /\ MaxGuesses \in Int
      BY LoginAssumption, VerifyingType DEF MaxGuesses
    <2> QED
      BY <2>1, WithinNothing
  <1> QED
    BY <1>1, <1>2 DEF HistoryInv

\* However many logins of an address are between the check and the failure they note,
\* no window of time holds more wrong guesses than the limit and one for every other
\* thread, times one more than the failures were forgotten within it, by a success or a
\* restart; and what is refused has reached the limit in its own window (auth.py 61-90).
THEOREM GuessesAreBounded == Spec => []ThrottleExact
  <1>1. ASSUME LoginInv, GuessInv, HistoryInv PROVE ThrottleExact
    <2>1. ASSUME NEW a \in Addresses, NEW from \in 0..MaxTime
          PROVE  Within(guesses[a], from, from + Window)
                   <= MaxGuesses * (1 + Within(emptied[a], from, from + Window))
      <3> DEFINE all == Within(guesses[a], from, from + Window)
                 runs == Within(emptied[a], from, from + Window)
                 new == Within(fresh[a], from, from + Window)
      <3>1. /\ MaxGuesses \in Nat /\ all \in Nat /\ runs \in Nat /\ new \in Nat
            /\ new <= MaxGuesses
            /\ \A n \in Nat : MaxGuesses * n \in Nat
                              /\ MaxGuesses * (n + 1) = MaxGuesses * n + MaxGuesses
        BY <1>1, Windows
      <3>2. all <= MaxGuesses * runs + new \/ all <= MaxGuesses * (runs + 1)
        BY <1>1 DEF HistoryInv, Paid
      <3> HIDE DEF all, runs, new
      <3>3. 1 + runs = runs + 1 /\ all <= MaxGuesses * (runs + 1)
        BY <3>1, <3>2
      <3> QED
        BY <3>3 DEF all, runs
    <2> QED
      BY <1>1, <2>1 DEF GuessInv, Justified, MaxGuesses, ThrottleExact
  <1>2. Spec => [](LoginInv /\ GuessInv /\ HistoryInv)
    BY InitGuess, NextGuess, InitHistory, NextHistory, LoginInvariant, PTL DEF Spec
  <1> QED
    BY <1>1, <1>2, PTL
=============================================================================
