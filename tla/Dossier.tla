------------------------------- MODULE Dossier -------------------------------
(***************************************************************************)
(* An incident report, asked for from a row of the feed: reports.py reads  *)
(* what the table knows of the source address in four statements and       *)
(* states its findings from them. A SELECT of sqlite3 opens no             *)
(* transaction, so each statement sees what the writer has committed by    *)
(* then. Caching and saving the report is in Console.                      *)
(***************************************************************************)
EXTENDS Feed

CONSTANTS
    Suspicious,     \* storage.WORST_VERDICT
    Role,           \* detection -> the part of the one address that is reported on
    RowLimit,       \* config.REPORT_ROW_LIMIT
    MaxReports      \* bound: reports

ASSUME DossierAssumption ==
    /\ Suspicious \in Verdicts
    /\ Role \in [1..MaxDetections -> {"source", "target", "none"}]
    /\ RowLimit \in Nat \ {0} /\ MaxReports \in Nat

VARIABLES
    report,         \* the dossier that is being built, or NoReport
    reports         \* reports so far

dossierVars == <<report, reports>>

NoReport == [next |-> 0]

ReportInit == Init /\ report = NoReport /\ reports = 0

-----------------------------------------------------------------------------
(* Queries *)

Involved == {d \in DOMAIN verdict : Role[d] # "none"}
Flagged == {d \in DOMAIN verdict : verdict[d] = Suspicious}
FlaggedFlow == Involved \cap Flagged
FlaggedSource == {d \in Flagged : Role[d] = "source"}

\* ORDER BY timestamp DESC, id DESC LIMIT RowLimit.
Newest(rows) == Take(Reverse(rows), 1, RowLimit)

\* Seeded bug: the rows are counted before they are listed.
StatementsCountFirst == <<"flowCounts", "flows", "historyCount", "history">>

\* flows_for_ip, then suspicious_history_for_ip.
Statements == <<"flows", "flowCounts", "history", "historyCount">>

Answers ==
    LET involved == Only(table, Involved)
        flagged == Only(table, FlaggedFlow)
        history == Only(table, FlaggedSource)
    IN [flows |-> Newest(involved),
        flowCounts |-> [all |-> Len(involved), flagged |-> Len(flagged)],
        history |-> Newest(history),
        historyCount |-> Len(history)]

-----------------------------------------------------------------------------
(* build_dossier *)

\* The button is on suspicious rows that came with an id; rows are never deleted, so
\* the route finds it.
OpenReport(d) ==
    /\ report = NoReport
    /\ reports < MaxReports /\ reports' = reports + 1
    /\ Row(d, FALSE) \in Range(feed) /\ d \in FlaggedSource
    /\ report' = [next |-> 1, focal |-> d, since |-> Len(table), flows |-> <<>>,
                  flowCounts |-> [all |-> 0, flagged |-> 0], history |-> <<>>, historyCount |-> 0]

ReadNext ==
    /\ report.next \in DOMAIN Statements
    /\ LET s == Statements[report.next]
       IN report' = [report EXCEPT ![s] = Answers[s], !.next = @ + 1]
    /\ UNCHANGED reports

\* The report is written and shown, or its generation fails at some point.
EndReport ==
    /\ report # NoReport /\ report' = NoReport
    /\ UNCHANGED reports

\* Seeded bug: the reported detection is put in the timeline a second time.
EventsWithFocal(r) == Append(r.history, r.focal)

\* _build_timeline: the history, and the reported detection if the limit cut it off.
Events(r) == IF r.focal \in Range(r.history) THEN r.history ELSE Append(r.history, r.focal)

Place(d) == CHOOSE i \in DOMAIN table : table[i] = d

\* events.sort: in the order of timestamp and id.
Timeline(r) ==
    LET events == Events(r)
        places == 1..Len(events)
        order == CHOOSE p \in Bijection(places, places) :
                     \A i, j \in places : i < j => Place(events[p[i]]) <= Place(events[p[j]])
    IN [i \in places |-> events[order[i]]]

\* The gap "no prior suspicious detections from this source IP beyond this one".
NoPrior(r) == r.historyCount <= 1

-----------------------------------------------------------------------------
Reporting == (\E d \in 1..Len(verdict) : OpenReport(d)) \/ ReadNext \/ EndReport

\* Page requests and reports share one bound.
ReportNext ==
    /\ \/ Next /\ UNCHANGED dossierVars
       \/ Reporting /\ UNCHANGED vars
    /\ asked' + reports' <= MaxAsks

ReportSpec == ReportInit /\ [][ReportNext]_<<vars, dossierVars>>

-----------------------------------------------------------------------------
(* Correctness *)

Finished == report # NoReport /\ report.next > Len(Statements)

\* The numbers of a report agree although detections are committed while it is built:
\* no section lists more than it counts, nor more than a section that was read later.
ReportAddsUp ==
    Finished =>
        /\ Len(report.flows) <= report.flowCounts.all
        /\ Len(Only(report.flows, Flagged)) <= report.flowCounts.flagged
        /\ Len(report.history) <= report.historyCount
        /\ Len(Only(report.flows, FlaggedSource)) <= report.historyCount

\* The timeline is in order and has the reported detection once; it leaves out no
\* suspicious detection of the address that was there when the report was opened, unless
\* the limit was reached; and when the report says that there is no other one, none of
\* its sections shows one.
TimelineIsTrue ==
    Finished =>
        LET events == Timeline(report)
        IN /\ report.focal \in Range(events)
           /\ \A i, j \in DOMAIN events : i < j => Place(events[i]) < Place(events[j])
           /\ \A i \in 1..report.since :
                table[i] \in FlaggedSource =>
                    table[i] \in Range(events) \/ Len(report.history) = RowLimit
           /\ NoPrior(report) =>
                /\ Range(events) = {report.focal}
                /\ \A d \in Range(report.flows) : d \in FlaggedSource => d = report.focal
=============================================================================
