---------------------------- MODULE Console_proofs ----------------------------
(***************************************************************************)
(* The promises of the console's requests to the language model, for any   *)
(* number of requests and detections and any budget of tool calls.         *)
(***************************************************************************)
EXTENDS Console, FiniteSetTheorems, TLAPS

-----------------------------------------------------------------------------
(* The index *)

\* The elements of a concatenation.
LEMMA ConcatElements ==
    ASSUME NEW s \in Seq(Nat), NEW d \in Seq(Nat)
    PROVE  /\ s \o d \in Seq(Nat)
           /\ Len(s \o d) = Len(s) + Len(d)
           /\ ToSet(s \o d) = ToSet(s) \cup ToSet(d)
  <1> DEFINE t == s \o d
  <1>1. /\ Len(s) \in Nat /\ Len(d) \in Nat
        /\ DOMAIN s = 1..Len(s) /\ DOMAIN d = 1..Len(d)
    OBVIOUS
  <1>2. /\ t \in Seq(Nat) /\ Len(t) = Len(s) + Len(d)
        /\ DOMAIN t = 1..(Len(s) + Len(d))
        /\ \A i \in 1..(Len(s) + Len(d)) :
              t[i] = IF i <= Len(s) THEN s[i] ELSE d[i - Len(s)]
    OBVIOUS
  <1> HIDE DEF t
  <1>3. ASSUME NEW x \in ToSet(t) PROVE x \in ToSet(s) \cup ToSet(d)
    <2>1. PICK i \in 1..(Len(s) + Len(d)) : t[i] = x
      BY <1>2 DEF ToSet
    <2>2. CASE i <= Len(s)
      <3>1. i \in 1..Len(s) /\ s[i] = x
        BY <1>1, <1>2, <2>1, <2>2
      <3> QED
        BY <1>1, <3>1 DEF ToSet
    <2>3. CASE i > Len(s)
      <3>1. i - Len(s) \in 1..Len(d) /\ d[i - Len(s)] = x
        BY <1>1, <1>2, <2>1, <2>3
      <3> QED
        BY <1>1, <3>1 DEF ToSet
    <2> QED
      BY <1>1, <2>2, <2>3
  <1>4. ASSUME NEW x \in ToSet(s) PROVE x \in ToSet(t)
    <2>1. PICK i \in 1..Len(s) : s[i] = x
      BY <1>1 DEF ToSet
    <2>2. i \in 1..(Len(s) + Len(d)) /\ t[i] = x
      BY <1>1, <1>2, <2>1
    <2> QED
      BY <1>2, <2>2 DEF ToSet
  <1>5. ASSUME NEW x \in ToSet(d) PROVE x \in ToSet(t)
    <2>1. PICK i \in 1..Len(d) : d[i] = x
      BY <1>1 DEF ToSet
    <2>2. PICK j \in 1..(Len(s) + Len(d)) : j = Len(s) + i
      BY <1>1
    <2>3. ~(j <= Len(s)) /\ j - Len(s) = i
      BY <1>1, <2>2
    <2>4. t[j] = x
      BY <1>2, <2>1, <2>3
    <2> QED
      BY <1>2, <2>4 DEF ToSet
  <1>6. ToSet(t) = ToSet(s) \cup ToSet(d)
    BY <1>3, <1>4, <1>5
  <1> QED
    BY <1>2, <1>6 DEF t

\* The rows a SELECT delivers.
LEMMA DeltaRows ==
    ASSUME NEW ix \in Index, NEW upto \in Nat
    PROVE  /\ Delta(ix, upto) \in Seq(Nat)
           /\ upto <= ix.lastId => Len(Delta(ix, upto)) = 0
           /\ upto >= ix.lastId => Len(Delta(ix, upto)) = upto - ix.lastId
           /\ ToSet(Delta(ix, upto)) = ix.lastId + 1 .. upto
  <1>1. ix.lastId \in Nat
    BY DEF Index
  <1>2. PICK n \in Nat : n = IF upto > ix.lastId THEN upto - ix.lastId ELSE 0
    BY <1>1
  <1>3. 1..(upto - ix.lastId) = 1..n
    BY <1>1, <1>2
  <1> DEFINE d == [i \in 1..n |-> ix.lastId + i]
  <1>4. Delta(ix, upto) = d
    BY <1>3 DEF Delta
  <1>5. d \in Seq(Nat) /\ Len(d) = n /\ DOMAIN d = 1..n /\ \A i \in 1..n : d[i] = ix.lastId + i
    BY <1>1
  <1> HIDE DEF d
  <1>6. ASSUME NEW x \in ToSet(d) PROVE x \in ix.lastId + 1 .. upto
    <2>1. PICK i \in 1..n : x = ix.lastId + i
      BY <1>5 DEF ToSet
    <2> QED
      BY <1>1, <1>2, <2>1
  <1>7. ASSUME NEW x \in ix.lastId + 1 .. upto PROVE x \in ToSet(d)
    <2>1. PICK i \in 1..n : x = ix.lastId + i
      <3>1. x - ix.lastId \in 1..n /\ x = ix.lastId + (x - ix.lastId)
        BY <1>1, <1>2
      <3> QED
        BY <3>1
    <2>2. d[i] = x
      BY <1>5, <2>1
    <2> QED
      BY <1>5, <2>2 DEF ToSet
  <1>8. ToSet(d) = ix.lastId + 1 .. upto
    BY <1>6, <1>7
  <1>9. /\ upto <= ix.lastId => n = 0
        /\ upto >= ix.lastId => n = upto - ix.lastId
    BY <1>1, <1>2
  <1> QED
    BY <1>4, <1>5, <1>8, <1>9

\* A sequence is at least as long as the set of its elements is large.
LEMMA LongEnough ==
    ASSUME NEW s \in Seq(Nat), NEW n \in Nat, ToSet(s) = 1..n
    PROVE  Len(s) >= n
  <1>1. Len(s) \in Nat /\ 1 \in Int /\ Len(s) \in Int /\ n \in Int
    OBVIOUS
  <1>2. IsFiniteSet(1..Len(s)) /\ Cardinality(1..Len(s)) = IF 1 > Len(s) THEN 0 ELSE Len(s) - 1 + 1
    BY <1>1, FS_Interval
  <1>3. Cardinality(1..n) = IF 1 > n THEN 0 ELSE n - 1 + 1
    BY <1>1, FS_Interval
  <1>4. s \in Surjection(1..Len(s), 1..n)
    <2>1. DOMAIN s = 1..Len(s) /\ s \in [1..Len(s) -> Nat]
      OBVIOUS
    <2>2. \A i \in 1..Len(s) : s[i] \in 1..n
      BY <2>1 DEF ToSet
    <2>3. s \in [1..Len(s) -> 1..n]
      BY <2>1, <2>2
    <2>4. \A x \in 1..n : \E i \in 1..Len(s) : s[i] = x
      BY <2>1 DEF ToSet
    <2> QED
      BY <2>3, <2>4 DEF Surjection
  <1>5. Cardinality(1..n) <= Cardinality(1..Len(s))
    BY <1>2, <1>4, FS_Surjection
  <1> QED
    BY <1>1, <1>2, <1>3, <1>5

-----------------------------------------------------------------------------
(* Types and locks *)

RequestTypes ==
    /\ pc \in [Requests -> {"new", "ask", "save", "commit", "sync", "select", "retrieve",
                            "done"}]
    /\ kind \in [Requests -> Kinds]
    /\ agent \in [Requests -> Agent]
    /\ read \in [Requests -> BOOLEAN]
    /\ draft \in [Requests -> Results \cup {NoResult}]
    /\ maxId \in [Requests -> Nat]
    /\ before \in [Requests -> SUBSET {"triage", "report"}]

SharedTypes ==
    /\ rows \in Nat
    /\ stored \in [triage : {"triage", NoResult},
                    report : {"report", "triaged_report", NoResult}]
    /\ dbLock \in Requests \cup {Nobody}
    /\ index \in Index
    /\ indexLock \in Requests \cup {Nobody}
    /\ readErrors \in Nat
    /\ quiet \in 0..2
    /\ shown \in SUBSET {"triage", "report"}

LocksHeld ==
    /\ \A r \in Requests : (dbLock = r) <=> At(r, "commit")
    /\ \A r \in Requests : (indexLock = r) <=> At(r, "select")

LEMMA TypeParts == TypeOK <=> RequestTypes /\ SharedTypes /\ LocksHeld
  BY DEF TypeOK, RequestTypes, SharedTypes, LocksHeld

\* What a request has in hand to save fits what it is for; only chat uses the index.
DraftsFit ==
    \A r \in Requests :
        /\ At(r, "save") \/ At(r, "commit") =>
              \/ kind[r] = "triage" /\ draft[r] = "triage"
              \/ kind[r] = "report" /\ draft[r] \in {"report", "triaged_report"}
        /\ At(r, "sync") \/ At(r, "select") \/ At(r, "retrieve") => kind[r] = "chat"

Typed == TypeOK /\ DraftsFit /\ ToolBudget

\* The end of a thread.
LEMMA RespondTypes ==
    ASSUME RequestTypes, DraftsFit, NEW r \in Requests, Respond(r)
    PROVE  RequestTypes' /\ DraftsFit'
  <1>1. NewAgent \in Agent
    BY DEF NewAgent, Agent
  <1>2. RequestTypes'
    BY <1>1 DEF RequestTypes, Respond, Goto, Kinds
  <1>3. DraftsFit'
    BY DEF RequestTypes, DraftsFit, Respond, Goto, At
  <1> QED
    BY <1>2, <1>3

\* A thread's step to a place that holds no lock, and from one that held none.
LEMMA LocksUntouched ==
    ASSUME RequestTypes, LocksHeld, NEW r \in Requests, NEW p,
           Goto(r, p), p \notin {"commit", "select"},
           ~At(r, "commit"), ~At(r, "select"),
           UNCHANGED <<dbLock, indexLock>>
    PROVE  LocksHeld'
  BY DEF RequestTypes, LocksHeld, Goto, At

\* The agent's local state after a round.
LEMMA AgentTypes ==
    ASSUME NEW a \in Agent, NEW n \in Nat, a.used <= MaxToolCalls
    PROVE  /\ RunTools(a, n) \in Agent
           /\ NextRound(a) \in Agent
           /\ RunTools(a, n).used <= MaxToolCalls
           /\ NextRound(a).used = a.used
           /\ RunTools(a, n).round = a.round + 1
           /\ NextRound(a).round = a.round + 1
  BY AgentAssumption DEF Agent, RunTools, NextRound, WithinBudget

\* The index after a sync, whole or broken off.
LEMMA IndexTypes ==
    ASSUME NEW ix \in Index, NEW max \in Nat, NEW upto \in Nat
    PROVE  /\ SelfHeal(ix, max) \in Index
           /\ IndexDelta(ix, max, upto) \in Index
           /\ IndexPart(ix, upto) \in Index
  <1>1. EmptyIndex \in Index
    BY DEF EmptyIndex, Index
  <1>2. ix.docs \in Seq(Nat) /\ ix.lastId \in Nat
    BY DEF Index
  <1>3. ix.docs \o Delta(ix, upto) \in Seq(Nat)
    BY <1>2, DeltaRows, ConcatElements
  <1>4. IndexDelta(ix, max, upto) \in Index /\ IndexPart(ix, upto) \in Index
    BY <1>2, <1>3 DEF IndexDelta, IndexPart, Index
  <1> QED
    BY <1>1, <1>4 DEF SelfHeal

\* A sync that goes through: the whole table is indexed, and one more sync of a table that
\* was whole leaves every row in it once.
LEMMA SyncResult ==
    ASSUME NEW ix \in Index, NEW max \in Nat, NEW n \in Nat,
           ix.lastId <= max, max <= n,
           1..ix.lastId \subseteq Indexed(ix), Indexed(ix) \subseteq 1..n
    PROVE  /\ IndexDelta(SelfHeal(ix, max), max, n).lastId = max
           /\ Indexed(IndexDelta(SelfHeal(ix, max), max, n)) = 1..n
           /\ ix.lastId = n /\ Indexed(ix) = 1..n
                 => Exact(IndexDelta(SelfHeal(ix, max), max, n), n)
  <1> DEFINE healed == SelfHeal(ix, max)
             d == Delta(healed, n)
             new == IndexDelta(healed, max, n)
  <1>1. ix.docs \in Seq(Nat) /\ ix.lastId \in Nat /\ Len(ix.docs) \in Nat
    BY DEF Index
  <1>2. healed \in Index /\ healed.docs \in Seq(Nat) /\ healed.lastId \in Nat
    BY IndexTypes DEF Index
  <1>3. \/ healed = ix /\ Len(ix.docs) <= max
        \/ healed = EmptyIndex /\ healed.docs = <<>> /\ healed.lastId = 0
    BY <1>1 DEF SelfHeal, Shrunk, EmptyIndex
  <1>4. ToSet(<<>>) = {} /\ Len(<<>>) = 0
    BY DEF ToSet
  <1>5. /\ healed.lastId <= n
        /\ 1..healed.lastId \subseteq Indexed(healed) /\ Indexed(healed) \subseteq 1..n
    BY <1>1, <1>3, <1>4 DEF Indexed
  <1>6. /\ d \in Seq(Nat) /\ Len(d) = n - healed.lastId
        /\ ToSet(d) = healed.lastId + 1 .. n
    BY <1>2, <1>5, DeltaRows
  <1> HIDE DEF healed, d
  <1>7. new.docs = healed.docs \o d /\ new.lastId = max
    BY DEF d, IndexDelta
  <1> HIDE DEF new
  <1>8. /\ Indexed(new) = Indexed(healed) \cup (healed.lastId + 1 .. n)
        /\ Len(new.docs) = Len(healed.docs) + (n - healed.lastId)
    <2>1. /\ Len(healed.docs \o d) = Len(healed.docs) + Len(d)
          /\ ToSet(healed.docs \o d) = ToSet(healed.docs) \cup ToSet(d)
      BY <1>2, <1>6, ConcatElements
    <2> QED
      BY <1>6, <1>7, <2>1 DEF Indexed
  <1>9. Indexed(new) = 1..n
    <2>1. ASSUME NEW x \in 1..n PROVE x \in Indexed(healed) \cup (healed.lastId + 1 .. n)
      BY <1>2, <1>5
    <2>2. ASSUME NEW x \in healed.lastId + 1 .. n PROVE x \in 1..n
      BY <1>2
    <2> QED
      BY <1>5, <1>8, <2>1, <2>2
  <1>10. ASSUME ix.lastId = n, Indexed(ix) = 1..n PROVE Exact(new, n)
    <2>1. Len(ix.docs) >= n
      BY <1>1, <1>10, LongEnough DEF Indexed
    <2>2. Len(new.docs) = n
      BY <1>1, <1>3, <1>4, <1>8, <1>10, <2>1
    <2> QED
      BY <1>9, <2>2 DEF Exact
  <1> QED
    BY <1>7, <1>9, <1>10 DEF new, healed

\* A sync that broke off: nothing that was found before is lost, unless it all is.
LEMMA PartResult ==
    ASSUME NEW ix \in Index, NEW max \in Nat, NEW n \in Nat,
           1..ix.lastId \subseteq Indexed(ix), Indexed(ix) \subseteq 1..n,
           NEW upto \in SelfHeal(ix, max).lastId .. n
    PROVE  LET new == IndexPart(SelfHeal(ix, max), upto)
           IN  /\ new.lastId = ix.lastId \/ new.lastId = 0
               /\ 1..new.lastId \subseteq Indexed(new) /\ Indexed(new) \subseteq 1..n
  <1> DEFINE healed == SelfHeal(ix, max)
             d == Delta(healed, upto)
             new == IndexPart(healed, upto)
  <1>1. ix.docs \in Seq(Nat) /\ ix.lastId \in Nat
    BY DEF Index
  <1>2. healed \in Index /\ healed.docs \in Seq(Nat) /\ healed.lastId \in Nat
    BY IndexTypes DEF Index
  <1>3. healed = ix \/ (healed.docs = <<>> /\ healed.lastId = 0)
    BY DEF SelfHeal, EmptyIndex
  <1>4. ToSet(<<>>) = {}
    BY DEF ToSet
  <1>5. 1..healed.lastId \subseteq Indexed(healed) /\ Indexed(healed) \subseteq 1..n
    BY <1>1, <1>3, <1>4 DEF Indexed
  <1>6. upto \in Nat /\ upto <= n
    BY <1>2
  <1>7. d \in Seq(Nat) /\ ToSet(d) = healed.lastId + 1 .. upto
    BY <1>2, <1>6, DeltaRows
  <1> HIDE DEF healed, d
  <1>8. new.docs = healed.docs \o d /\ new.lastId = healed.lastId
    BY <1>2 DEF d, IndexPart, Index
  <1> HIDE DEF new
  <1>9. Indexed(new) = Indexed(healed) \cup (healed.lastId + 1 .. upto)
    <2>1. ToSet(healed.docs \o d) = ToSet(healed.docs) \cup ToSet(d)
      BY <1>2, <1>7, ConcatElements
    <2> QED
      BY <1>7, <1>8, <2>1 DEF Indexed
  <1>10. healed.lastId + 1 .. upto \subseteq 1..n
    BY <1>2, <1>6
  <1>11. /\ new.lastId = ix.lastId \/ new.lastId = 0
         /\ 1..new.lastId \subseteq Indexed(new) /\ Indexed(new) \subseteq 1..n
    BY <1>3, <1>5, <1>8, <1>9, <1>10
  <1> QED
    BY <1>11 DEF new, healed

LEMMA InitTyped == Init => Typed
  <1> SUFFICES ASSUME Init PROVE Typed
    OBVIOUS
  <1>0. NewAgent \in Agent /\ EmptyIndex \in Index
    BY DEF NewAgent, Agent, EmptyIndex, Index
  <1>f. Focus \in Nat
    BY ConsoleAssumption
  <1>g. rows \in {0, Focus}
    BY DEF Init
  <1>1. NewAgent \in Agent /\ EmptyIndex \in Index /\ rows \in Nat
    BY <1>0, <1>f, <1>g
  <1>2. index \in Index
    BY <1>1, IndexTypes DEF Init
  <1>3. RequestTypes /\ SharedTypes
    BY <1>1, <1>2 DEF Init, RequestTypes, SharedTypes, Kinds
  <1>4. LocksHeld /\ DraftsFit
    BY ConsoleAssumption DEF Init, LocksHeld, DraftsFit, At, Requests
  <1>5. ToolBudget
    BY AgentAssumption DEF Init, ToolBudget, NewAgent
  <1> QED
    BY <1>3, <1>4, <1>5, TypeParts DEF Typed

\* The steps of one request, or none.
LEMMA StepTyped == Typed /\ [Next]_vars => Typed'
  <1> SUFFICES ASSUME Typed, [Next]_vars PROVE Typed'
    OBVIOUS
  <1> USE DEF Typed
  <1>t. RequestTypes /\ SharedTypes /\ LocksHeld
    BY TypeParts
  <1>n. NewAgent \in Agent
    BY DEF NewAgent, Agent
  <1>a. \A r \in Requests : agent[r] \in Agent /\ agent[r].used <= MaxToolCalls
    BY <1>t DEF RequestTypes, ToolBudget
  <1>q. SUFFICES RequestTypes' /\ SharedTypes' /\ LocksHeld' /\ DraftsFit' /\ ToolBudget'
    BY DEF TypeOK, RequestTypes, SharedTypes, LocksHeld
  <1>r. ASSUME NEW r \in Requests, Respond(r)
        PROVE  RequestTypes' /\ DraftsFit' /\ ToolBudget'
    <2>1. RequestTypes' /\ DraftsFit'
      BY <1>t, <1>r, RespondTypes
    <2>2. ToolBudget'
      BY <1>t, <1>r, AgentAssumption DEF Respond, ToolBudget, RequestTypes, NewAgent
    <2> QED
      BY <2>1, <2>2
  <1>1. CASE UNCHANGED vars
    BY <1>1, <1>t DEF vars, RequestTypes, SharedTypes, LocksHeld, DraftsFit, ToolBudget, At
  <1>2. CASE WriterCommits
    <2>1. rows' \in Nat /\ quiet' \in 0..2
      BY <1>2, <1>t, ConsoleAssumption DEF WriterCommits, SharedTypes
    <2>2. UNCHANGED <<stored, dbLock, shown, index, indexLock, readErrors>>
      BY <1>2 DEF WriterCommits
    <2>3. UNCHANGED <<pc, kind, agent, read, draft, maxId, before>>
      BY <1>2 DEF WriterCommits, locals, asked
    <2>4. SharedTypes'
      BY <1>t, <2>1, <2>2 DEF SharedTypes
    <2>5. RequestTypes' /\ LocksHeld' /\ DraftsFit' /\ ToolBudget'
      BY <1>t, <2>2, <2>3 DEF RequestTypes, LocksHeld, DraftsFit, ToolBudget, At
    <2> QED
      BY <2>4, <2>5
  <1>3. ASSUME NEW r \in Requests, NEW k \in {"triage", "report"}, AnswerFromRow(r, k)
        PROVE  RequestTypes' /\ SharedTypes' /\ LocksHeld' /\ DraftsFit' /\ ToolBudget'
    <2>1. Respond(r) /\ Goto(r, "done") /\ At(r, "new") /\ UNCHANGED <<dbLock, indexLock>>
      BY <1>3 DEF AnswerFromRow, Respond, Accepted, incidents
    <2>2. LocksHeld'
      BY <1>t, <2>1, LocksUntouched DEF At
    <2>3. SharedTypes'
      BY <1>3, <1>t DEF AnswerFromRow, SharedTypes, incidents
    <2> QED
      BY <1>r, <2>1, <2>2, <2>3
  <1>4. ASSUME NEW r \in Requests, NEW k \in {"triage", "report"}, OpenDetection(r, k)
        PROVE  RequestTypes' /\ SharedTypes' /\ LocksHeld' /\ DraftsFit' /\ ToolBudget'
    <2>1. Goto(r, "ask") /\ At(r, "new") /\ UNCHANGED <<dbLock, indexLock>>
      BY <1>4 DEF OpenDetection, Open, Accepted, tables, incidents
    <2>2. LocksHeld'
      BY <1>t, <2>1, LocksUntouched DEF At
    <2>3. SharedTypes' /\ RequestTypes'
      BY <1>4, <1>t DEF OpenDetection, Open, Goto, SharedTypes, RequestTypes, Kinds, tables,
                        incidents
    <2>4. DraftsFit' /\ ToolBudget'
      BY <1>4, <1>t DEF OpenDetection, Open, Goto, RequestTypes, DraftsFit, ToolBudget, At
    <2> QED
      BY <2>2, <2>3, <2>4
  <1>5. ASSUME NEW r \in Requests, ToolRound(r) \/ Nudge(r)
        PROVE  RequestTypes' /\ SharedTypes' /\ LocksHeld' /\ DraftsFit' /\ ToolBudget'
    <2>1. /\ UNCHANGED <<tables, incidents, pc, read, draft, maxId, asked>>
          /\ agent[r].round < MaxToolCalls + 1
      BY <1>5 DEF ToolRound, Nudge, InLoop
    <2>2. PICK b \in Agent : /\ agent' = [agent EXCEPT ![r] = b]
                             /\ b.used <= MaxToolCalls /\ b.round = agent[r].round + 1
      <3>1. CASE ToolRound(r)
        <4>1. PICK n \in 1..MaxMessage : agent' = [agent EXCEPT ![r] = RunTools(agent[r], n)]
          BY <3>1 DEF ToolRound
        <4>2. n \in Nat
          BY <4>1, ConsoleAssumption
        <4> QED
          BY <1>a, <4>1, <4>2, AgentTypes
      <3>2. CASE Nudge(r)
        BY <1>a, <3>2, AgentTypes DEF Nudge
      <3> QED
        BY <1>5, <3>1, <3>2
    <2>3. RequestTypes' /\ SharedTypes' /\ LocksHeld' /\ DraftsFit'
      BY <1>t, <2>1, <2>2 DEF RequestTypes, SharedTypes, LocksHeld, DraftsFit, At, tables,
                              incidents, asked
    <2>4. ToolBudget'
      BY <1>t, <1>a, <2>1, <2>2, AgentAssumption DEF ToolBudget, RequestTypes, Agent
    <2> QED
      BY <2>3, <2>4
  <1>6. ASSUME NEW r \in Requests, Conclude(r) \/ Narrate(r)
        PROVE  RequestTypes' /\ SharedTypes' /\ LocksHeld' /\ DraftsFit' /\ ToolBudget'
    <2>1. Goto(r, "save") /\ At(r, "ask") /\ UNCHANGED <<tables, incidents, maxId, asked>>
      BY <1>6 DEF Conclude, Narrate, Asks
    <2>2. LocksHeld'
      BY <1>t, <2>1, LocksUntouched DEF At, tables, incidents
    <2>3. SharedTypes'
      BY <1>t, <2>1 DEF SharedTypes, tables, incidents
    <2>6. ASSUME Conclude(r) PROVE RequestTypes' /\ ToolBudget'
      <3>1. RequestTypes'
        BY <1>t, <1>n, <2>6 DEF Conclude, Goto, RequestTypes, Results, asked
      <3>2. ToolBudget'
        BY <1>t, <2>6, AgentAssumption DEF Conclude, ToolBudget, RequestTypes, NewAgent
      <3> QED
        BY <3>1, <3>2
    <2>7. ASSUME Narrate(r) PROVE RequestTypes' /\ ToolBudget'
      <3>1. RequestTypes'
        BY <1>t, <2>7 DEF Narrate, Goto, RequestTypes, Results, asked
      <3>2. ToolBudget'
        BY <2>7 DEF Narrate, ToolBudget
      <3> QED
        BY <3>1, <3>2
    <2>4. DraftsFit'
      BY <1>6, <1>t, <2>1 DEF Conclude, Narrate, Asks, Goto, RequestTypes, DraftsFit, At, asked
    <2> QED
      BY <1>6, <2>2, <2>3, <2>4, <2>6, <2>7
  <1>7. ASSUME NEW r \in Requests, Unavailable(r) \/ SaveFails(r) \/ Reply(r)
        PROVE  RequestTypes' /\ SharedTypes' /\ LocksHeld' /\ DraftsFit' /\ ToolBudget'
    <2>1. /\ Respond(r) /\ Goto(r, "done") /\ (At(r, "ask") \/ At(r, "save"))
          /\ UNCHANGED <<tables, incidents>>
      BY <1>7 DEF Unavailable, SaveFails, Reply, Respond, Asks
    <2>2. LocksHeld'
      BY <1>t, <2>1, LocksUntouched DEF At, tables, incidents
    <2>3. SharedTypes'
      BY <1>t, <2>1 DEF SharedTypes, tables, incidents
    <2> QED
      BY <1>r, <2>1, <2>2, <2>3
  <1>8. ASSUME NEW r \in Requests, Save(r)
        PROVE  RequestTypes' /\ SharedTypes' /\ LocksHeld' /\ DraftsFit' /\ ToolBudget'
    <2>1. RequestTypes' /\ SharedTypes' /\ DraftsFit' /\ ToolBudget'
      BY <1>8, <1>t DEF Save, Goto, RequestTypes, SharedTypes, DraftsFit, ToolBudget, At,
                        incidents, locals, asked
    <2>2. LocksHeld'
      BY <1>8, <1>t, ConsoleAssumption DEF Save, Goto, RequestTypes, LocksHeld, At, incidents,
                                           Requests
    <2> QED
      BY <2>1, <2>2
  <1>9. ASSUME NEW r \in Requests, Commit(r) \/ CommitFails(r)
        PROVE  RequestTypes' /\ SharedTypes' /\ LocksHeld' /\ DraftsFit' /\ ToolBudget'
    <2>1. /\ Respond(r) /\ Goto(r, "done") /\ At(r, "commit")
          /\ dbLock' = Nobody /\ UNCHANGED <<rows, incidents>>
          /\ \/ UNCHANGED <<stored, shown>>
             \/ /\ stored' = [stored EXCEPT ![kind[r]] = draft[r]]
                /\ shown' = shown \cup {kind[r]}
      BY <1>9 DEF Commit, CommitFails, Respond
    <2>2. \/ kind[r] = "triage" /\ draft[r] = "triage"
          \/ kind[r] = "report" /\ draft[r] \in {"report", "triaged_report"}
      BY <2>1 DEF DraftsFit
    <2>3. SharedTypes'
      BY <1>t, <2>1, <2>2 DEF SharedTypes, incidents
    <2>4. LocksHeld'
      BY <1>t, <2>1, ConsoleAssumption DEF LocksHeld, RequestTypes, Goto, At, Requests, incidents
    <2> QED
      BY <1>r, <2>1, <2>3, <2>4
  <1>10. ASSUME NEW r \in Requests, OpenChat(r) \/ Retrieve(r) \/ SyncRefused(r)
         PROVE  RequestTypes' /\ SharedTypes' /\ LocksHeld' /\ DraftsFit' /\ ToolBudget'
    <2>1. /\ Goto(r, "sync") \/ Goto(r, "ask")
          /\ At(r, "new") \/ At(r, "retrieve") \/ At(r, "sync")
          /\ UNCHANGED <<rows, stored, dbLock, shown, index, indexLock, quiet, locals>>
          /\ readErrors' \in {readErrors, readErrors + 1}
      BY <1>10, <1>t DEF OpenChat, Open, Accepted, Retrieve, SyncRefused, ReadError, incidents,
                         tables
    <2>2. LocksHeld'
      BY <1>t, <2>1, LocksUntouched DEF At
    <2>3. SharedTypes'
      BY <1>t, <2>1 DEF SharedTypes
    <2>4. CASE OpenChat(r)
      <3>1. Goto(r, "sync") /\ UNCHANGED locals
        BY <2>4 DEF OpenChat
      <3>2. /\ kind' = [kind EXCEPT ![r] = "chat"]
            /\ before' = [before EXCEPT ![r] = shown]
        BY <2>4 DEF OpenChat, Open
      <3>3. RequestTypes'
        BY <1>t, <3>1, <3>2 DEF Goto, RequestTypes, SharedTypes, Kinds, locals
      <3>4. DraftsFit' /\ ToolBudget'
        BY <1>t, <3>1, <3>2 DEF Goto, RequestTypes, DraftsFit, ToolBudget, At, locals
      <3> QED
        BY <2>2, <2>3, <3>3, <3>4
    <2>5. CASE Retrieve(r) \/ SyncRefused(r)
      <3>1. Goto(r, "ask") /\ UNCHANGED <<locals, asked>>
        BY <2>5 DEF Retrieve, SyncRefused
      <3> QED
        BY <1>t, <2>2, <2>3, <3>1 DEF Goto, RequestTypes, DraftsFit, ToolBudget, At, locals, asked
    <2> QED
      BY <1>10, <2>2, <2>3, <2>4, <2>5
  <1>11. ASSUME NEW r \in Requests, SyncBegin(r)
         PROVE  RequestTypes' /\ SharedTypes' /\ LocksHeld' /\ DraftsFit' /\ ToolBudget'
    <2>1. RequestTypes' /\ SharedTypes' /\ DraftsFit' /\ ToolBudget'
      BY <1>11, <1>t DEF SyncBegin, Goto, RequestTypes, SharedTypes, DraftsFit, ToolBudget, At,
                         tables, asked
    <2>2. LocksHeld'
      BY <1>11, <1>t, ConsoleAssumption DEF SyncBegin, Goto, RequestTypes, LocksHeld, At, tables,
                                            Requests
    <2> QED
      BY <2>1, <2>2
  <1>12. ASSUME NEW r \in Requests, SyncRead(r) \/ SyncFails(r)
         PROVE  RequestTypes' /\ SharedTypes' /\ LocksHeld' /\ DraftsFit' /\ ToolBudget'
    <2>1. /\ At(r, "select") /\ (Goto(r, "retrieve") \/ Goto(r, "ask"))
          /\ indexLock' = Nobody /\ quiet' \in 0..2
          /\ readErrors' \in {readErrors, readErrors + 1}
          /\ UNCHANGED <<rows, stored, dbLock, shown, locals, asked>>
      <3>1. CASE SyncRead(r)
        BY <3>1, <1>t DEF SyncRead, SharedTypes, tables
      <3>2. CASE SyncFails(r)
        BY <3>2, <1>t DEF SyncFails, ReadError, SharedTypes, tables
      <3> QED
        BY <1>12, <3>1, <3>2
    <2>2. index' \in Index
      <3>1. maxId[r] \in Nat /\ rows \in Nat /\ SelfHeal(index, maxId[r]) \in Index
        BY <1>t, IndexTypes DEF RequestTypes, SharedTypes
      <3>2. CASE SyncRead(r)
        BY <3>1, <3>2, IndexTypes DEF SyncRead
      <3>3. CASE SyncFails(r)
        <4>1. PICK upto \in SelfHeal(index, maxId[r]).lastId .. rows :
                  index' = IndexPart(SelfHeal(index, maxId[r]), upto)
          BY <3>3 DEF SyncFails
        <4>2. upto \in Nat
          BY <3>1, <4>1 DEF Index
        <4> QED
          BY <3>1, <4>1, <4>2, IndexTypes
      <3> QED
        BY <1>12, <3>2, <3>3
    <2>3. SharedTypes'
      BY <1>t, <2>1, <2>2 DEF SharedTypes
    <2>4. RequestTypes' /\ DraftsFit' /\ ToolBudget'
      BY <1>t, <2>1 DEF Goto, RequestTypes, DraftsFit, ToolBudget, At, locals, asked
    <2>5. LocksHeld'
      <3>1. indexLock' = Nobody /\ dbLock' = dbLock /\ Nobody \notin Requests
        BY <2>1, ConsoleAssumption DEF Requests
      <3>2. indexLock = r
        BY <1>t, <2>1 DEF LocksHeld
      <3>3. pc' \in {[pc EXCEPT ![r] = "retrieve"], [pc EXCEPT ![r] = "ask"]}
        BY <2>1 DEF Goto
      <3>4. \A q \in Requests : ~At(q, "select")' /\ (At(q, "commit")' <=> At(q, "commit"))
        BY <1>t, <2>1, <3>2, <3>3 DEF At, LocksHeld, RequestTypes
      <3> QED
        BY <1>t, <3>1, <3>4 DEF LocksHeld
    <2> QED
      BY <2>3, <2>4, <2>5
  <1> QED
    BY <1>1, <1>2, <1>3, <1>4, <1>5, <1>6, <1>7, <1>8, <1>9, <1>10, <1>11, <1>12
       DEF Next, Arrive, Serve

\* Every variable has its type, and a lock is held exactly by the request inside its
\* region: a failing save or sync never leaves one behind (app_groq.py, rag.py).
THEOREM TypeCorrect == Spec => []TypeOK
  <1> QED
    BY InitTyped, StepTyped, PTL DEF Spec, Typed

\* run_triage: no answer of the model makes the loop exceed its budget of tool calls and
\* rounds, whatever the budget.
THEOREM BudgetHolds == Spec => []ToolBudget
  <1> QED
    BY InitTyped, StepTyped, PTL DEF Spec, Typed

-----------------------------------------------------------------------------
(* Nobody pays for what was shown                                            *)

ShownIsStored == \A k \in shown : stored[k] # NoResult

BeforeIsShown == \A r \in Requests : before[r] \subseteq shown

Paid == ShownIsStored /\ BeforeIsShown /\ AnsweredIsSeen

LEMMA InitPaid == Init => Paid
  BY DEF Init, Paid, ShownIsStored, BeforeIsShown, AnsweredIsSeen, Asks, At

LEMMA StepPaid == Typed /\ Paid /\ [Next]_vars => Paid'
  <1> SUFFICES ASSUME Typed, Paid, [Next]_vars PROVE Paid'
    OBVIOUS
  <1> USE DEF Paid
  <1>t. RequestTypes /\ SharedTypes /\ LocksHeld /\ DraftsFit
    BY TypeParts DEF Typed
  \* A thread that ends, when nothing shown before is taken back.
  <1>r. ASSUME NEW r \in Requests, Respond(r), shown \subseteq shown'
        PROVE  BeforeIsShown' /\ AnsweredIsSeen'
    <2>1. /\ pc' = [pc EXCEPT ![r] = "done"] /\ before' = [before EXCEPT ![r] = {}]
          /\ kind' = [kind EXCEPT ![r] = "chat"]
          /\ draft' = [draft EXCEPT ![r] = NoResult] /\ read' = [read EXCEPT ![r] = FALSE]
      BY <1>r DEF Respond, Goto
    <2>2. BeforeIsShown'
      BY <1>t, <1>r, <2>1 DEF BeforeIsShown, RequestTypes
    <2>3. AnsweredIsSeen'
      BY <1>t, <2>1 DEF AnsweredIsSeen, RequestTypes, Asks, At
    <2> QED
      BY <2>2, <2>3
  <1>1. CASE UNCHANGED vars
    BY <1>1 DEF vars, ShownIsStored, BeforeIsShown, AnsweredIsSeen, Asks, At
  <1>2. CASE WriterCommits
    BY <1>2 DEF WriterCommits, ShownIsStored, BeforeIsShown, AnsweredIsSeen, Asks, At, locals,
                asked
  <1>3. ASSUME NEW r \in Requests, NEW k \in {"triage", "report"}, AnswerFromRow(r, k)
        PROVE  Paid'
    <2>1. Respond(r) /\ UNCHANGED stored
          /\ (shown' = shown \/ (stored[k] # NoResult /\ shown' = shown \cup {k}))
      BY <1>3 DEF AnswerFromRow
    <2>2. ShownIsStored'
      BY <2>1 DEF ShownIsStored
    <2> QED
      BY <1>r, <2>1, <2>2
  <1>4. ASSUME NEW r \in Requests, NEW k \in {"triage", "report"}, OpenDetection(r, k)
        PROVE  Paid'
    <2>1. /\ pc' = [pc EXCEPT ![r] = "ask"] /\ before' = [before EXCEPT ![r] = shown]
          /\ kind' = [kind EXCEPT ![r] = k]
          /\ read' = [read EXCEPT ![r] = (stored.triage # NoResult)]
          /\ UNCHANGED <<stored, shown, draft>> /\ stored[k] = NoResult
      BY <1>4 DEF OpenDetection, Open, Goto, tables
    <2>2. k \notin shown /\ ("triage" \in shown => stored.triage # NoResult)
      BY <2>1 DEF ShownIsStored
    <2>3. ShownIsStored' /\ BeforeIsShown'
      BY <1>t, <2>1 DEF ShownIsStored, BeforeIsShown, RequestTypes
    <2>4. AnsweredIsSeen'
      BY <1>t, <2>1, <2>2 DEF AnsweredIsSeen, RequestTypes, Asks, At
    <2> QED
      BY <2>3, <2>4
  <1>5. ASSUME NEW r \in Requests, ToolRound(r) \/ Nudge(r)
        PROVE  Paid'
    <2>1. UNCHANGED <<stored, shown, pc, kind, before, read, draft>>
      BY <1>5 DEF ToolRound, Nudge, tables, asked
    <2> QED
      BY <2>1 DEF ShownIsStored, BeforeIsShown, AnsweredIsSeen, Asks, At
  <1>6. ASSUME NEW r \in Requests, Conclude(r) \/ Narrate(r)
        PROVE  Paid'
    <2>1. /\ pc' = [pc EXCEPT ![r] = "save"] /\ At(r, "ask")
          /\ UNCHANGED <<stored, shown, kind, before>>
      BY <1>6 DEF Conclude, Narrate, Asks, Goto, tables, asked
    <2>2. ShownIsStored' /\ BeforeIsShown'
      BY <2>1 DEF ShownIsStored, BeforeIsShown
    <2>3. \/ /\ kind[r] = "triage" /\ draft' = [draft EXCEPT ![r] = "triage"] /\ read' = read
          \/ /\ kind[r] = "report" /\ read' = [read EXCEPT ![r] = FALSE]
             /\ draft' = [draft EXCEPT ![r] = IF read[r] THEN "triaged_report" ELSE "report"]
      BY <1>6 DEF Conclude, Narrate, Asks
    <2>4. kind[r] = "report" /\ "triage" \in before[r] => read[r]
      BY <2>1 DEF AnsweredIsSeen, Asks
    <2>5. AnsweredIsSeen'
      BY <1>t, <2>1, <2>3, <2>4 DEF AnsweredIsSeen, RequestTypes, Asks, At
    <2> QED
      BY <2>2, <2>5
  <1>7. ASSUME NEW r \in Requests, Unavailable(r) \/ SaveFails(r) \/ Reply(r) \/ CommitFails(r)
        PROVE  Paid'
    <2>1. Respond(r) /\ UNCHANGED <<stored, shown>>
      BY <1>7 DEF Unavailable, SaveFails, Reply, CommitFails, tables
    <2>2. ShownIsStored'
      BY <2>1 DEF ShownIsStored
    <2> QED
      BY <1>r, <2>1, <2>2
  <1>8. ASSUME NEW r \in Requests, Commit(r)
        PROVE  Paid'
    <2>1. /\ Respond(r) /\ At(r, "commit")
          /\ stored' = [stored EXCEPT ![kind[r]] = draft[r]] /\ shown' = shown \cup {kind[r]}
      BY <1>8 DEF Commit
    <2>2. kind[r] \in {"triage", "report"} /\ draft[r] # NoResult
      BY <2>1, <1>t, ConsoleAssumption DEF DraftsFit
    <2>3. ShownIsStored'
      BY <2>1, <2>2, <1>t DEF ShownIsStored, SharedTypes
    <2> QED
      BY <1>r, <2>1, <2>3
  \* The steps of a chat request, and the UPDATE.
  <1>9. ASSUME NEW r \in Requests,
               Save(r) \/ Retrieve(r) \/ SyncBegin(r) \/ SyncRead(r) \/ SyncFails(r)
                 \/ SyncRefused(r)
        PROVE  Paid'
    <2>1. UNCHANGED <<stored, shown, kind, before, read, draft>>
      BY <1>9 DEF Save, Retrieve, SyncBegin, SyncRead, SyncFails, SyncRefused, tables, locals,
                  asked
    <2>2. \/ At(r, "save") /\ Goto(r, "commit")
          \/ /\ At(r, "retrieve") \/ At(r, "sync") \/ At(r, "select")
             /\ Goto(r, "ask") \/ Goto(r, "select") \/ Goto(r, "retrieve")
      BY <1>9 DEF Save, Retrieve, SyncBegin, SyncRead, SyncFails, SyncRefused
    <2>3. ShownIsStored' /\ BeforeIsShown'
      BY <2>1 DEF ShownIsStored, BeforeIsShown
    <2>4. At(r, "retrieve") \/ At(r, "sync") \/ At(r, "select")
             => kind[r] = "chat" /\ kind[r] \notin before[r]
      BY <1>t DEF DraftsFit, RequestTypes
    <2>5. AnsweredIsSeen'
      BY <1>t, <2>1, <2>2, <2>4 DEF AnsweredIsSeen, RequestTypes, Goto, Asks, At
    <2> QED
      BY <2>3, <2>5
  <1>10. ASSUME NEW r \in Requests, OpenChat(r)
         PROVE  Paid'
    <2>1. /\ pc' = [pc EXCEPT ![r] = "sync"] /\ before' = [before EXCEPT ![r] = shown]
          /\ kind' = [kind EXCEPT ![r] = "chat"]
          /\ UNCHANGED <<stored, shown, read, draft>>
      BY <1>10 DEF OpenChat, Open, Goto, tables, locals
    <2>2. ShownIsStored' /\ BeforeIsShown'
      BY <1>t, <2>1 DEF ShownIsStored, BeforeIsShown, RequestTypes
    <2>3. AnsweredIsSeen'
      BY <1>t, <2>1 DEF AnsweredIsSeen, RequestTypes, Asks, At
    <2> QED
      BY <2>2, <2>3
  <1> QED
    BY <1>1, <1>2, <1>3, <1>4, <1>5, <1>6, <1>7, <1>8, <1>9, <1>10
       DEF Next, Arrive, Serve

\* "Re-opening never re-bills": once a triage or a report was shown, no later request of
\* its kind calls the model, and no later report misses the triage, whatever fails.
THEOREM ShownIsNotPaidAgain == Spec => []AnsweredIsSeen
  <1>1. Init => Typed /\ Paid
    BY InitTyped, InitPaid
  <1>2. Typed /\ Paid /\ [Next]_vars => Typed' /\ Paid'
    BY StepTyped, StepPaid
  <1>3. Typed /\ Paid => AnsweredIsSeen
    BY DEF Paid
  <1> QED
    BY <1>1, <1>2, <1>3, PTL DEF Spec

-----------------------------------------------------------------------------
(* What the index holds                                                      *)

\* Everything up to the last id, and nothing that is not in the table.
IndexCovers ==
    /\ index.lastId <= rows
    /\ 1..index.lastId \subseteq Indexed(index)
    /\ Indexed(index) \subseteq 1..rows

\* The maximum a request read is no smaller than what an earlier request read and than
\* where the index stands: the lock lets no other sync in between.
ReadsInOrder ==
    /\ \A r \in Requests : maxId[r] <= rows
    /\ \A q \in Requests :
          At(q, "select") =>
              /\ index.lastId <= maxId[q]
              /\ \A r \in Requests : At(r, "retrieve") => maxId[r] <= maxId[q]

\* The index went as far as any request that is about to retrieve, or was emptied.
RetrieversServed ==
    \A r \in Requests : At(r, "retrieve") => maxId[r] <= index.lastId \/ index.lastId = 0

QuietIndex == quiet >= 1 => index.lastId = rows /\ Indexed(index) = 1..rows

IndexInvariant ==
    IndexCovers /\ ReadsInOrder /\ RetrieversServed /\ QuietIndex /\ HealsWhenQuiet

\* The index, the table and the requests that use the index as they were.
LEMMA IndexUntouched ==
    ASSUME Typed, IndexInvariant, NEW r \in Requests, NEW p,
           Goto(r, p), p \notin {"select", "retrieve"},
           UNCHANGED <<rows, index>>, quiet' \in {0, quiet},
           maxId' = maxId \/ maxId' = [maxId EXCEPT ![r] = 0]
    PROVE  IndexInvariant'
  <1>1. RequestTypes /\ SharedTypes
    BY TypeParts DEF Typed
  <1>2. /\ \A q \in Requests : maxId'[q] \in {0, maxId[q]}
        /\ \A q \in Requests \ {r} : maxId'[q] = maxId[q]
    BY <1>1 DEF RequestTypes
  <1>3. \A q \in Requests : \A at \in {"select", "retrieve"} :
           At(q, at)' => q # r /\ At(q, at)
    BY <1>1 DEF RequestTypes, Goto, At
  <1>4. IndexCovers' /\ QuietIndex' /\ HealsWhenQuiet'
    BY DEF IndexInvariant, IndexCovers, QuietIndex, HealsWhenQuiet
  <1>5. ReadsInOrder'
    BY <1>1, <1>2, <1>3 DEF IndexInvariant, ReadsInOrder, SharedTypes
  <1>6. RetrieversServed'
    BY <1>2, <1>3 DEF IndexInvariant, RetrieversServed
  <1> QED
    BY <1>4, <1>5, <1>6 DEF IndexInvariant

LEMMA InitIndex == Init => IndexInvariant
  <1> SUFFICES ASSUME Init PROVE IndexInvariant
    OBVIOUS
  <1>1. rows \in Nat
    BY ConsoleAssumption DEF Init
  <1>2. EmptyIndex \in Index /\ EmptyIndex.lastId = 0 /\ Indexed(EmptyIndex) = {}
    BY DEF EmptyIndex, Index, Indexed, ToSet
  <1>3. \/ index.lastId = 0 /\ Indexed(index) = {}
        \/ index.lastId = rows /\ Indexed(index) = 1..rows
    <2>1. CASE index = EmptyIndex
      BY <1>2, <2>1
    <2>2. CASE index = IndexDelta(EmptyIndex, rows, rows)
      <3>1. /\ Delta(EmptyIndex, rows) \in Seq(Nat)
            /\ ToSet(Delta(EmptyIndex, rows)) = 0 + 1 .. rows
        BY <1>1, <1>2, DeltaRows
      <3>2. EmptyIndex.docs \in Seq(Nat) /\ ToSet(EmptyIndex.docs) = {}
        BY <1>2 DEF Index, Indexed
      <3>3. ToSet(EmptyIndex.docs \o Delta(EmptyIndex, rows)) = 0 + 1 .. rows
        BY <3>1, <3>2, ConcatElements
      <3>4. index.docs = EmptyIndex.docs \o Delta(EmptyIndex, rows) /\ index.lastId = rows
        BY <2>2 DEF IndexDelta
      <3> QED
        BY <3>3, <3>4 DEF Indexed
    <2> QED
      BY <2>1, <2>2 DEF Init
  <1>4. IndexCovers
    BY <1>1, <1>3 DEF IndexCovers
  <1>5. ReadsInOrder /\ RetrieversServed /\ QuietIndex /\ HealsWhenQuiet
    BY <1>1 DEF Init, ReadsInOrder, RetrieversServed, QuietIndex, HealsWhenQuiet, At
  <1> QED
    BY <1>4, <1>5 DEF IndexInvariant

LEMMA StepIndex == Typed /\ IndexInvariant /\ [Next]_vars => IndexInvariant'
  <1> SUFFICES ASSUME Typed, IndexInvariant, [Next]_vars PROVE IndexInvariant'
    OBVIOUS
  <1>t. RequestTypes /\ SharedTypes /\ LocksHeld
    BY TypeParts DEF Typed
  <1>n. /\ rows \in Nat /\ index \in Index /\ index.lastId \in Nat /\ quiet \in 0..2
        /\ \A r \in Requests : maxId[r] \in Nat
    BY <1>t DEF RequestTypes, SharedTypes, Index
  <1>i. IndexCovers /\ ReadsInOrder /\ RetrieversServed /\ QuietIndex /\ HealsWhenQuiet
    BY DEF IndexInvariant
  <1>1. CASE UNCHANGED vars
    BY <1>1, <1>i DEF vars, IndexInvariant, IndexCovers, ReadsInOrder, RetrieversServed,
                      QuietIndex, HealsWhenQuiet, At
  <1>2. CASE WriterCommits
    <2>1. /\ rows' \in Nat /\ rows' > rows /\ quiet' = 0
          /\ UNCHANGED <<index, pc, maxId>>
      BY <1>2, <1>n, ConsoleAssumption DEF WriterCommits, locals
    <2>2. IndexCovers'
      BY <1>n, <1>i, <2>1 DEF IndexCovers
    <2>3. ReadsInOrder'
      BY <1>n, <1>i, <2>1 DEF ReadsInOrder, At
    <2>4. RetrieversServed' /\ QuietIndex' /\ HealsWhenQuiet'
      BY <1>i, <2>1 DEF RetrieversServed, QuietIndex, HealsWhenQuiet, At
    <2> QED
      BY <2>2, <2>3, <2>4 DEF IndexInvariant
  \* Steps of a request that is not in the index.
  <1>3. ASSUME NEW r \in Requests,
               \/ \E k \in {"triage", "report"} : AnswerFromRow(r, k) \/ OpenDetection(r, k)
               \/ OpenChat(r) \/ Conclude(r) \/ Narrate(r) \/ Unavailable(r)
               \/ Save(r) \/ SaveFails(r) \/ Commit(r) \/ CommitFails(r)
               \/ SyncRefused(r) \/ Retrieve(r) \/ Reply(r)
        PROVE  IndexInvariant'
    <2>1. /\ UNCHANGED <<rows, index, quiet>>
          /\ maxId' = maxId \/ maxId' = [maxId EXCEPT ![r] = 0]
      BY <1>3 DEF AnswerFromRow, OpenDetection, Open, OpenChat, Conclude, Narrate, Unavailable,
                  Save, SaveFails, Commit, CommitFails, SyncRefused, Retrieve, Reply, Respond,
                  tables, incidents, locals
    <2>2. \/ Goto(r, "done") \/ Goto(r, "ask") \/ Goto(r, "sync") \/ Goto(r, "save")
          \/ Goto(r, "commit")
      BY <1>3 DEF AnswerFromRow, OpenDetection, OpenChat, Conclude, Narrate, Unavailable,
                  Save, SaveFails, Commit, CommitFails, SyncRefused, Retrieve, Reply, Respond
    <2> QED
      BY <2>1, <2>2, IndexUntouched
  <1>4. ASSUME NEW r \in Requests, ToolRound(r) \/ Nudge(r)
        PROVE  IndexInvariant'
    <2>1. UNCHANGED <<rows, index, quiet, pc, maxId>>
      BY <1>4 DEF ToolRound, Nudge, tables, incidents
    <2> QED
      BY <1>i, <2>1 DEF IndexInvariant, IndexCovers, ReadsInOrder, RetrieversServed, QuietIndex,
                        HealsWhenQuiet, At
  <1>5. ASSUME NEW r \in Requests, SyncBegin(r)
        PROVE  IndexInvariant'
    <2>1. /\ At(r, "sync") /\ indexLock = Nobody
          /\ pc' = [pc EXCEPT ![r] = "select"] /\ maxId' = [maxId EXCEPT ![r] = rows]
          /\ UNCHANGED <<rows, index, quiet>>
      BY <1>5 DEF SyncBegin, Goto, tables
    <2>2. IndexCovers' /\ QuietIndex' /\ HealsWhenQuiet'
      BY <1>i, <2>1 DEF IndexCovers, QuietIndex, HealsWhenQuiet
    <2>3. \A q \in Requests : ~At(q, "select")
      BY <1>t, <2>1, ConsoleAssumption DEF LocksHeld, Requests
    <2>4. /\ \A q \in Requests : At(q, "select")' => q = r
          /\ \A q \in Requests : At(q, "retrieve")' => At(q, "retrieve") /\ q # r
      BY <1>t, <2>1, <2>3 DEF RequestTypes, At
    <2>5. /\ maxId'[r] = rows /\ \A q \in Requests \ {r} : maxId'[q] = maxId[q]
      BY <1>t, <2>1 DEF RequestTypes
    <2>6. ReadsInOrder'
      BY <1>n, <1>i, <2>1, <2>4, <2>5 DEF ReadsInOrder, IndexCovers
    <2>7. RetrieversServed'
      BY <1>i, <2>1, <2>4, <2>5 DEF RetrieversServed
    <2> QED
      BY <2>2, <2>6, <2>7 DEF IndexInvariant
  <1>6. ASSUME NEW r \in Requests, SyncRead(r)
        PROVE  IndexInvariant'
    <2>1. /\ At(r, "select") /\ pc' = [pc EXCEPT ![r] = "retrieve"]
          /\ index' = IndexDelta(SelfHeal(index, maxId[r]), maxId[r], rows)
          /\ quiet' = IF maxId[r] < rows THEN 0 ELSE IF quiet = 0 THEN 1 ELSE 2
          /\ UNCHANGED <<rows, maxId>>
      BY <1>6 DEF SyncRead, Goto, tables, locals
    <2>2. index.lastId <= maxId[r] /\ maxId[r] <= rows
      BY <1>i, <2>1 DEF ReadsInOrder
    <2>3. /\ index'.lastId = maxId[r] /\ Indexed(index') = 1..rows
          /\ index.lastId = rows /\ Indexed(index) = 1..rows => Exact(index', rows)
      BY <1>n, <1>i, <2>1, <2>2, SyncResult DEF IndexCovers
    <2>4. IndexCovers'
      BY <1>n, <2>1, <2>2, <2>3 DEF IndexCovers
    <2>5. /\ \A q \in Requests : At(q, "select") => q = r
          /\ \A q \in Requests : ~At(q, "select")'
          /\ \A q \in Requests : At(q, "retrieve")' => q = r \/ At(q, "retrieve")
      BY <1>t, <2>1 DEF RequestTypes, LocksHeld, At
    <2>6. ReadsInOrder'
      BY <1>i, <2>1, <2>5 DEF ReadsInOrder
    <2>7. RetrieversServed'
      BY <1>n, <1>i, <2>1, <2>3, <2>5 DEF RetrieversServed, ReadsInOrder
    <2>8. QuietIndex' /\ HealsWhenQuiet'
      <3>1. quiet' >= 1 => maxId[r] = rows
        BY <1>n, <2>1, <2>2
      <3>2. quiet' = 2 => quiet >= 1
        BY <1>n, <2>1
      <3> QED
        BY <1>i, <2>1, <2>3, <3>1, <3>2 DEF QuietIndex, HealsWhenQuiet
    <2> QED
      BY <2>4, <2>6, <2>7, <2>8 DEF IndexInvariant
  <1>7. ASSUME NEW r \in Requests, SyncFails(r)
        PROVE  IndexInvariant'
    <2>1. /\ At(r, "select") /\ pc' = [pc EXCEPT ![r] = "ask"]
          /\ quiet' = 0 /\ UNCHANGED <<rows, maxId>>
      BY <1>7 DEF SyncFails, Goto, tables, locals
    <2>2. PICK upto \in SelfHeal(index, maxId[r]).lastId .. rows :
              index' = IndexPart(SelfHeal(index, maxId[r]), upto)
      BY <1>7 DEF SyncFails
    <2>3. /\ index'.lastId = index.lastId \/ index'.lastId = 0
          /\ 1..index'.lastId \subseteq Indexed(index') /\ Indexed(index') \subseteq 1..rows
      BY <1>n, <1>i, <2>2, PartResult DEF IndexCovers
    <2>4. IndexCovers' /\ QuietIndex' /\ HealsWhenQuiet'
      BY <1>n, <1>i, <2>1, <2>3 DEF IndexCovers, QuietIndex, HealsWhenQuiet
    <2>5. /\ \A q \in Requests : ~At(q, "select")'
          /\ \A q \in Requests : At(q, "retrieve")' => At(q, "retrieve")
      BY <1>t, <2>1 DEF RequestTypes, LocksHeld, At
    <2>6. ReadsInOrder' /\ RetrieversServed'
      BY <1>i, <2>1, <2>3, <2>5 DEF ReadsInOrder, RetrieversServed
    <2> QED
      BY <2>4, <2>6 DEF IndexInvariant
  <1> QED
    BY <1>1, <1>2, <1>3, <1>4, <1>5, <1>6, <1>7 DEF Next, Arrive, Serve

\* "Answers see rows up to the question moment": however the syncs of the requests
\* and the writer interleave and wherever reads fail (rag.py, Bm25Index).
THEOREM NothingIsMissed == Spec => []NothingMissed
  <1>1. Typed /\ IndexInvariant => NothingMissed
    <2> SUFFICES ASSUME Typed, IndexInvariant, NEW r \in Requests, At(r, "retrieve"),
                        index.lastId # 0
                 PROVE  1..maxId[r] \subseteq Indexed(index)
      BY DEF NothingMissed
    <2>1. maxId[r] \in Nat /\ index.lastId \in Nat
      BY TypeParts DEF Typed, RequestTypes, SharedTypes, Index
    <2>2. maxId[r] <= index.lastId /\ 1..index.lastId \subseteq Indexed(index)
      BY DEF IndexInvariant, RetrieversServed, IndexCovers
    <2>3. 1..maxId[r] \subseteq 1..index.lastId
      BY <2>1, <2>2
    <2> QED
      BY <2>2, <2>3
  <1> QED
    BY <1>1, InitTyped, StepTyped, InitIndex, StepIndex, PTL DEF Spec

\* Whatever was indexed twice, or left out by a failed read, is right again after two syncs
\* of a table that does not change (Bm25Index.sync's rebuild).
THEOREM IndexHeals == Spec => []HealsWhenQuiet
  <1>1. IndexInvariant => HealsWhenQuiet
    BY DEF IndexInvariant
  <1> QED
    BY <1>1, InitTyped, StepTyped, InitIndex, StepIndex, PTL DEF Spec
=============================================================================
