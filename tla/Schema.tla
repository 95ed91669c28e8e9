------------------------------- MODULE Schema -------------------------------
(***************************************************************************)
(* migrations.py as operators on a database: the objects migrate()         *)
(* creates, the five migrations with the columns each adds, the ledger,    *)
(* and the rows of the old mixed table that migration 0001 distributes.    *)
(* Rows written by the running program are not tracked here.               *)
(***************************************************************************)
EXTENDS SequencesExt

CONSTANTS
    FlowRows,       \* rows of network_requests with type 'FLOW'
    PacketRows,     \* rows with another type
    UntypedRows     \* rows with a NULL type, of the old blacklist "cache"

ASSUME RowsAssumption ==
    /\ FlowRows \cap (PacketRows \cup UntypedRows) = {}
    /\ PacketRows \cap UntypedRows = {}

Rows == FlowRows \cup PacketRows \cup UntypedRows

Legacy == "network_requests"
Archive == "network_requests_legacy"

\* What migrate() creates IF NOT EXISTS before any migration, in its order.
Base ==
    <<"schema_migrations", "telemetry", "detections", "logs", "metrics", "users",
      "idx_telemetry_timestamp", "idx_telemetry_ip", "idx_detections_timestamp",
      "idx_detections_verdict", "idx_logs_timestamp", "idx_metrics_timestamp">>

Split == "0001_split_network_requests"

\* The migrations after the split, in their order, and what each adds.
Later ==
    <<"0002_detection_attribution", "0003_detection_triage",
      "0004_reputation_scores", "0005_detection_report">>

Additions ==
    [m \in Range(Later) |->
        CASE m = Later[1] -> <<"detections.attack_family", "detections.technique_id",
                               "detections.technique_name", "detections.tactic",
                               "idx_detections_technique">>
          [] m = Later[2] -> <<"detections.triage_json", "detections.triage_at">>
          [] m = Later[3] -> <<"telemetry.abuse_score", "telemetry.rep_source",
                               "detections.abuse_score", "detections.rep_reports",
                               "detections.rep_source">>
          [] m = Later[4] -> <<"detections.report_json", "detections.report_at">>]

Migrations == {Split} \cup Range(Later)
Objects == Range(Base) \cup {Legacy, Archive}
Added == UNION {Range(Additions[m]) : m \in Range(Later)}

(***************************************************************************)
(* A database: its tables and indexes, the added columns (with the index   *)
(* of 0002), the ledger, whether the old table has a `type` column, the    *)
(* rows of the old table and of its archive, and how many copies of each   *)
(* old row the two new tables hold.                                        *)
(***************************************************************************)
Database ==
    [objects : SUBSET Objects, added : SUBSET Added, ledger : SUBSET Migrations,
     typed : BOOLEAN, source : SUBSET Rows, archive : SUBSET Rows,
     detections : [Rows -> Nat], telemetry : [Rows -> Nat]]

NoCopies == [r \in Rows |-> 0]

Applied(d, m) == m \in d.ledger

\* "WHERE type = 'FLOW'", only when the column exists; the rest is telemetry, a
\* NULL type included.
Verdicts(d) == IF d.typed THEN d.source \cap FlowRows ELSE {}
Packets(d) == IF d.typed THEN d.source \cap (PacketRows \cup UntypedRows) ELSE d.source

OneMore(copies, rows) == [r \in Rows |-> copies[r] + (IF r \in rows THEN 1 ELSE 0)]

Create(d, o) == [d EXCEPT !.objects = @ \cup {o}]
CopyVerdicts(d) == [d EXCEPT !.detections = OneMore(@, Verdicts(d))]
CopyPackets(d) == [d EXCEPT !.telemetry = OneMore(@, Packets(d))]
Rename(d) == [d EXCEPT !.objects = (@ \ {Legacy}) \cup {Archive}, !.archive = d.source, !.source = {}]
Add(d, c) == [d EXCEPT !.added = @ \cup {c}]
Mark(d, m) == [d EXCEPT !.ledger = @ \cup {m}]

\* Element i of the sequence is the first one that is missing from `there`.
IsFirstMissing(seq, i, there) ==
    /\ i \in DOMAIN seq
    /\ seq[i] \notin there
    /\ \A j \in 1..(i - 1) : seq[j] \in there

Complete(d) == Range(Base) \subseteq d.objects /\ d.added = Added /\ d.ledger = Migrations
=============================================================================
