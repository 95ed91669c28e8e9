----------------------------- MODULE TriageAgent -----------------------------
(***************************************************************************)
(* triage.py: the bounded tool loop of run_triage(), as operators on its   *)
(* local state.  What the model answers is the environment's choice.       *)
(***************************************************************************)
EXTENDS Naturals

CONSTANT MaxToolCalls   \* config.TRIAGE_MAX_TOOL_CALLS

ASSUME AgentAssumption == MaxToolCalls \in Nat

\* round: transport rounds completed; used: calls_used.  The trace and the messages, which
\* only accumulate, are left out.
Agent == [round : Nat, used : Nat]

NewAgent == [round |-> 0, used |-> 0]

\* `for _ in range(max_tool_calls + 1)`; after it, one forced call.
InLoop(a) == a.round < MaxToolCalls + 1

AllowTools(a) == a.used < MaxToolCalls

\* How many of a message's n calls are executed; the rest get an error for a result.
WithinBudget(a, n) == IF n <= MaxToolCalls - a.used THEN n ELSE MaxToolCalls - a.used

\* The model asked for n tools and was offered some.
RunTools(a, n) == [round |-> a.round + 1, used |-> a.used + WithinBudget(a, n)]

\* A message with no report in it: a nudge follows.
NextRound(a) == [a EXCEPT !.round = a.round + 1]
=============================================================================
