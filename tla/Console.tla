------------------------------- MODULE Console -------------------------------
(***************************************************************************)
(* The requests of the operators' console that call the language model:    *)
(* POST /triage/<id>, POST /report/<id> (app_groq.py, triage.py,           *)
(* reports.py, storage.py) and POST /chat (rag.py).  The server runs every *)
(* request on a thread of its own and every thread has its own database    *)
(* connection; the triage and report requests are all about one detection. *)
(* Meanwhile the writer thread commits detections.                         *)
(***************************************************************************)
EXTENDS TriageAgent, IncidentIndex, FiniteSets

CONSTANTS
    MaxRequests,    \* bound: requests served
    Nobody,         \* no thread
    NoResult,       \* a column that is NULL
    Focus,          \* the id of the detection triaged and reported
    MaxRows,        \* bound: detections in the table
    MaxMessage,     \* bound: tool calls in one message of the model
    MaxReadErrors   \* bound: index reads that fail

ASSUME ConsoleAssumption ==
    /\ MaxRequests \in Nat
    /\ Nobody \notin 1..MaxRequests
    /\ NoResult \notin {"triage", "report", "triaged_report"}
    /\ Focus \in Nat \ {0}
    /\ MaxRows \in Nat
    /\ MaxMessage \in Nat
    /\ MaxReadErrors \in Nat

\* Request threads, numbered in the order in which the server accepts them.
Requests == 1..MaxRequests

Kinds == {"triage", "report", "chat"}

\* What is generated; of a report it matters whether its triage section is filled.
Results == {"triage", "report", "triaged_report"}

VARIABLES
    rows,           \* committed detections: the ids 1..rows
    stored,         \* triage_json and report_json of the detection Focus
    dbLock,         \* the request whose UPDATE is not committed yet, or Nobody
    index,          \* rag.index
    indexLock,      \* the request inside sync(), or Nobody
    readErrors,     \* index reads that failed (history, bounds the failures)
    quiet,          \* completed syncs in a row, up to two, since the table changed or a
                    \* sync failed (history)
    pc,             \* where each request is
    kind,           \* what each request is for
    agent,          \* run_triage's local state
    read,           \* whether the row a request read had a triage_json
    draft,          \* what a request generated and has not saved
    maxId,          \* MAX(id), as a chat request read it
    shown,          \* what an operator has been shown: a triage, a report (history)
    before          \* the same when the request was opened (history)

vars == <<rows, stored, dbLock, index, indexLock, readErrors, quiet, pc, kind, agent,
          read, draft, maxId, shown, before>>

tables == <<rows, stored, dbLock, shown>>
incidents == <<index, indexLock, readErrors, quiet>>
locals == <<agent, read, draft, maxId>>
asked == <<kind, before>>

\* The index was synchronised at start-up, or that failed.
Init ==
    /\ rows \in {0, Focus}
    /\ stored = [triage |-> NoResult, report |-> NoResult]
    /\ dbLock = Nobody
    /\ index \in {EmptyIndex, IndexDelta(EmptyIndex, rows, rows)}
    /\ indexLock = Nobody
    /\ readErrors = 0
    /\ quiet = 0
    /\ pc = [r \in Requests |-> "new"]
    /\ kind = [r \in Requests |-> "chat"]
    /\ agent = [r \in Requests |-> NewAgent]
    /\ read = [r \in Requests |-> FALSE]
    /\ draft = [r \in Requests |-> NoResult]
    /\ maxId = [r \in Requests |-> 0]
    /\ shown = {}
    /\ before = [r \in Requests |-> {}]

\* The writer commits a batch of detections.
WriterCommits ==
    /\ rows' \in rows + 1 .. MaxRows
    /\ quiet' = 0
    /\ UNCHANGED <<stored, dbLock, shown, index, indexLock, readErrors, pc, locals, asked>>

At(r, from) == pc[r] = from

Goto(r, to) == pc' = [pc EXCEPT ![r] = to]

\* The server starts the next thread.
Accepted(r) == At(r, "new") /\ \A q \in 1..(r - 1) : ~At(q, "new")

\* The response goes out and the thread ends.
Respond(r) ==
    /\ Goto(r, "done")
    /\ kind' = [kind EXCEPT ![r] = "chat"]
    /\ before' = [before EXCEPT ![r] = {}]
    /\ agent' = [agent EXCEPT ![r] = NewAgent]
    /\ draft' = [draft EXCEPT ![r] = NoResult]
    /\ read' = [read EXCEPT ![r] = FALSE]
    /\ maxId' = [maxId EXCEPT ![r] = 0]

Open(r, k) ==
    /\ Accepted(r)
    /\ kind' = [kind EXCEPT ![r] = k]
    /\ before' = [before EXCEPT ![r] = shown]

-----------------------------------------------------------------------------
(* /triage/<id> and /report/<id>: read the row, generate, save.              *)

\* No such detection (404), or a cached result: answered from the row.
AnswerFromRow(r, k) ==
    /\ Accepted(r)
    /\ \/ rows < Focus /\ UNCHANGED shown
       \/ rows >= Focus /\ stored[k] # NoResult /\ shown' = shown \cup {k}
    /\ Respond(r)
    /\ UNCHANGED <<rows, stored, dbLock, incidents>>

\* Nothing is cached.  The row's values are all the request will know of the detection.
OpenDetection(r, k) ==
    /\ Open(r, k)
    /\ rows >= Focus
    /\ stored[k] = NoResult
    /\ read' = [read EXCEPT ![r] = (stored.triage # NoResult)]
    /\ Goto(r, "ask")
    /\ UNCHANGED <<tables, incidents, agent, draft, maxId>>

Asks(r, k) == At(r, "ask") /\ kind[r] = k

\* The tools read committed rows and caches; nothing another request can see changes.
ToolRound(r) ==
    /\ Asks(r, "triage")
    /\ InLoop(agent[r])
    /\ AllowTools(agent[r])
    /\ \E n \in 1..MaxMessage : agent' = [agent EXCEPT ![r] = RunTools(agent[r], n)]
    /\ UNCHANGED <<tables, incidents, pc, read, draft, maxId, asked>>

Nudge(r) ==
    /\ Asks(r, "triage")
    /\ InLoop(agent[r])
    /\ agent' = [agent EXCEPT ![r] = NextRound(agent[r])]
    /\ UNCHANGED <<tables, incidents, pc, read, draft, maxId, asked>>

\* A triage report, in the loop or from the forced call.
Conclude(r) ==
    /\ Asks(r, "triage")
    /\ draft' = [draft EXCEPT ![r] = "triage"]
    /\ agent' = [agent EXCEPT ![r] = NewAgent]
    /\ Goto(r, "save")
    /\ UNCHANGED <<tables, incidents, read, maxId, asked>>

\* The dossier holds the row as it was read; one call writes the narrative.
Narrate(r) ==
    /\ Asks(r, "report")
    /\ draft' = [draft EXCEPT ![r] = IF read[r] THEN "triaged_report" ELSE "report"]
    /\ read' = [read EXCEPT ![r] = FALSE]
    /\ Goto(r, "save")
    /\ UNCHANGED <<tables, incidents, agent, maxId, asked>>

\* No key, no connection, another status, a message without the JSON asked for (503), or
\* anything else that is raised (500); also when the forced call brings no report.
Unavailable(r) ==
    /\ At(r, "ask")
    /\ Respond(r)
    /\ UNCHANGED <<tables, incidents>>

\* save_triage, save_report: the UPDATE takes the database's write lock.
Save(r) ==
    /\ At(r, "save")
    /\ dbLock = Nobody
    /\ dbLock' = r
    /\ Goto(r, "commit")
    /\ UNCHANGED <<rows, stored, shown, incidents, locals, asked>>

\* The lock was not to be had in time (another request's, or the writer's).
SaveFails(r) ==
    /\ At(r, "save")
    /\ Respond(r)
    /\ UNCHANGED <<tables, incidents>>

\* Seeded bug: the report goes through the batched writer, which will write it later.
CommitLater(r) ==
    /\ At(r, "commit")
    /\ dbLock' = Nobody
    /\ shown' = shown \cup {kind[r]}
    /\ Respond(r)
    /\ UNCHANGED <<rows, stored, incidents>>

Commit(r) ==
    /\ At(r, "commit")
    /\ stored' = [stored EXCEPT ![kind[r]] = draft[r]]
    /\ dbLock' = Nobody
    /\ shown' = shown \cup {kind[r]}
    /\ Respond(r)
    /\ UNCHANGED <<rows, incidents>>

\* Leaving `with` on an exception rolls back.
CommitFails(r) ==
    /\ At(r, "commit")
    /\ dbLock' = Nobody
    /\ Respond(r)
    /\ UNCHANGED <<rows, stored, shown, incidents>>

-----------------------------------------------------------------------------
(* /chat: synchronise the index, retrieve, ask.                              *)

OpenChat(r) ==
    /\ Open(r, "chat")
    /\ Goto(r, "sync")
    /\ UNCHANGED <<tables, incidents, locals>>

\* The index's lock, then the first of two reads.
SyncBegin(r) ==
    /\ At(r, "sync")
    /\ indexLock = Nobody
    /\ indexLock' = r
    /\ maxId' = [maxId EXCEPT ![r] = rows]
    /\ Goto(r, "select")
    /\ UNCHANGED <<tables, index, readErrors, quiet, agent, read, draft, asked>>

\* The second read, of a table that may have grown, and the end of the lock region.
SyncRead(r) ==
    /\ At(r, "select")
    /\ index' = IndexDelta(SelfHeal(index, maxId[r]), maxId[r], rows)
    /\ quiet' = IF maxId[r] < rows THEN 0 ELSE IF quiet = 0 THEN 1 ELSE 2
    /\ indexLock' = Nobody
    /\ Goto(r, "retrieve")
    /\ UNCHANGED <<tables, readErrors, locals, asked>>

ReadError ==
    /\ readErrors < MaxReadErrors
    /\ readErrors' = readErrors + 1

\* Seeded bug: the lock is not released.
SyncFailsLocked(r) ==
    /\ At(r, "select")
    /\ ReadError
    /\ index' = SelfHeal(index, maxId[r])
    /\ quiet' = 0
    /\ Goto(r, "ask")
    /\ UNCHANGED <<tables, indexLock, locals, asked>>

\* The second read fails; the rows delivered so far are in the index.  Chat goes on with
\* the log lines for a context.
SyncFails(r) ==
    /\ At(r, "select")
    /\ ReadError
    /\ LET healed == SelfHeal(index, maxId[r])
       IN  \E upto \in healed.lastId .. rows : index' = IndexPart(healed, upto)
    /\ quiet' = 0
    /\ indexLock' = Nobody
    /\ Goto(r, "ask")
    /\ UNCHANGED <<tables, locals, asked>>

\* The connection or the first read fails.
SyncRefused(r) ==
    /\ At(r, "sync")
    /\ ReadError
    /\ Goto(r, "ask")
    /\ UNCHANGED <<tables, index, indexLock, quiet, locals, asked>>

\* All documents are scored in one lock region; the answer is made from the best.
Retrieve(r) ==
    /\ At(r, "retrieve")
    /\ indexLock = Nobody
    /\ Goto(r, "ask")
    /\ UNCHANGED <<tables, incidents, locals, asked>>

Reply(r) ==
    /\ Asks(r, "chat")
    /\ Respond(r)
    /\ UNCHANGED <<tables, incidents>>

-----------------------------------------------------------------------------

Arrive(r) ==
    \/ \E k \in {"triage", "report"} : AnswerFromRow(r, k) \/ OpenDetection(r, k)
    \/ OpenChat(r)

Serve(r) ==
    \/ ToolRound(r) \/ Nudge(r) \/ Conclude(r) \/ Narrate(r) \/ Unavailable(r)
    \/ Save(r) \/ SaveFails(r) \/ Commit(r) \/ CommitFails(r)
    \/ SyncBegin(r) \/ SyncRead(r) \/ SyncFails(r) \/ SyncRefused(r)
    \/ Retrieve(r) \/ Reply(r)

Next == WriterCommits \/ \E r \in Requests : Arrive(r) \/ Serve(r)

\* A thread with a request runs, and its calls to the model end: they have a timeout.
Spec == Init /\ [][Next]_vars /\ \A r \in Requests : WF_vars(Serve(r))

-----------------------------------------------------------------------------
(* Properties                                                                *)

\* Every variable has its type; the locks are held by the request that is inside.
TypeOK ==
    /\ rows \in Nat
    /\ stored \in [triage : {"triage", NoResult},
                    report : {"report", "triaged_report", NoResult}]
    /\ dbLock \in Requests \cup {Nobody}
    /\ index \in Index
    /\ indexLock \in Requests \cup {Nobody}
    /\ readErrors \in Nat
    /\ quiet \in 0..2
    /\ pc \in [Requests -> {"new", "ask", "save", "commit", "sync", "select", "retrieve",
                            "done"}]
    /\ kind \in [Requests -> Kinds]
    /\ agent \in [Requests -> Agent]
    /\ read \in [Requests -> BOOLEAN]
    /\ draft \in [Requests -> Results \cup {NoResult}]
    /\ maxId \in [Requests -> Nat]
    /\ shown \in SUBSET {"triage", "report"}
    /\ before \in [Requests -> SUBSET {"triage", "report"}]
    /\ \A r \in Requests : (dbLock = r) <=> At(r, "commit")
    /\ \A r \in Requests : (indexLock = r) <=> At(r, "select")

\* run_triage's claim: whatever the model says, at most MaxToolCalls tools are executed,
\* and of the calls to the model, at most MaxToolCalls + 1 are followed by another one.
ToolBudget ==
    \A r \in Requests : /\ agent[r].used <= MaxToolCalls
                        /\ agent[r].round <= MaxToolCalls + 1

\* Once an operator has been shown a triage or a report, a request that comes later does
\* not pay for another one, and a later report does not say that no triage was run.
AnsweredIsSeen ==
    \A r \in Requests :
        /\ pc[r] \in {"ask", "save", "commit"} => kind[r] \notin before[r]
        /\ Asks(r, "report") /\ "triage" \in before[r] => read[r]
        /\ pc[r] \in {"save", "commit"} /\ kind[r] = "report" /\ "triage" \in before[r]
              => draft[r] = "triaged_report"

\* A chat request that synchronised the index retrieves from every detection committed by
\* then, or a rebuild of another request failed in between and left the index empty.
NothingMissed ==
    \A r \in Requests :
        At(r, "retrieve") => 1..maxId[r] \subseteq Indexed(index) \/ index.lastId = 0

\* A detection committed between the two reads of one sync is indexed by that sync and by
\* the next. What was indexed twice goes away: after two syncs in a row of a table that does not
\* change, every detection is in the index exactly once.
HealsWhenQuiet == quiet = 2 => Exact(index, rows)

\* Every request is answered, whatever the model, the database and the others do.
RequestsEnd == \A r \in Requests : ~At(r, "new") ~> At(r, "done")
=============================================================================
