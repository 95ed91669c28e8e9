------------------------------- MODULE Alerts -------------------------------
(***************************************************************************)
(* alerts.py: consider(), called by every enrichment worker for every      *)
(* classified flow.  The decision and the claim of the throttle slot are   *)
(* one lock region; the webhook POST comes after it, outside the lock.     *)
(***************************************************************************)
EXTENDS Integers, Sequences

CONSTANTS
    Workers,
    Sources,        \* source addresses
    Techniques,     \* ATT&CK technique ids
    NoTechnique,    \* the attributor declined to name one
    Throttle,       \* config.ALERT_THROTTLE_S
    MaxTime,        \* bound: the clock
    MaxAlerts       \* bound: alerts sent

ASSUME AlertsAssumption ==
    /\ NoTechnique \notin Techniques
    /\ Throttle \in Nat
    /\ MaxTime \in Nat
    /\ MaxAlerts \in Nat

\* A detection, as far as _trigger looks at it; `corroborated` stands for confidence and
\* abuse score both over their bars.
Detection == [src : Sources, technique : Techniques \cup {NoTechnique},
              suspicious : BOOLEAN, corroborated : BOOLEAN]

Keys == Sources \X (Techniques \cup {NoTechnique})

Never == -1

VARIABLES
    now,            \* time.monotonic()
    lastSent,       \* key -> when its slot was last claimed, or Never
    seen,           \* _seen_techniques
    posting,        \* worker -> the alerts it is POSTing, at most one
    sent,           \* the alerts claimed, in order (history)
    met             \* techniques of the suspicious detections considered (history)

alertVars == <<now, lastSent, seen, posting, sent, met>>

AlertsInit ==
    /\ now = 0
    /\ lastSent = [k \in Keys |-> Never]
    /\ seen = {}
    /\ posting = [w \in Workers |-> <<>>]
    /\ sent = <<>>
    /\ met = {}

\* Seeded bug: the throttle is per source address.
KeyBySource(d) == <<d.src, NoTechnique>>

Key(d) == <<d.src, d.technique>>

Named(d) == {d.technique} \ {NoTechnique}

Trigger(d) ==
    IF ~d.suspicious THEN "none"
    ELSE IF d.corroborated THEN "corroborated"
    ELSE IF Named(d) \ seen # {} THEN "new-technique"
    ELSE "none"

Throttled(d) == lastSent[Key(d)] # Never /\ now - lastSent[Key(d)] < Throttle

Meet(d) == met' = met \cup (IF d.suspicious THEN Named(d) ELSE {})

\* Nothing critical, or throttled.
Pass(w, d) ==
    /\ posting[w] = <<>>
    /\ Trigger(d) = "none" \/ Throttled(d)
    /\ Meet(d)
    /\ UNCHANGED <<now, lastSent, seen, posting, sent>>

\* Seeded bug: the slot is not claimed before the POST.
ClaimNothing(d) == UNCHANGED <<lastSent, seen>>

\* Seeded bug: the technique is not remembered.
ClaimSlotOnly(d) == lastSent' = [lastSent EXCEPT ![Key(d)] = now] /\ UNCHANGED seen

Claim(d) ==
    /\ lastSent' = [lastSent EXCEPT ![Key(d)] = now]
    /\ seen' = seen \cup Named(d)

Alert(w, d) ==
    /\ posting[w] = <<>>
    /\ Len(sent) < MaxAlerts
    /\ Trigger(d) # "none" /\ ~Throttled(d)
    /\ Claim(d)
    /\ LET alert == [src |-> d.src, technique |-> d.technique, trigger |-> Trigger(d), at |-> now]
       IN sent' = Append(sent, alert) /\ posting' = [posting EXCEPT ![w] = <<alert>>]
    /\ Meet(d)
    /\ UNCHANGED now

\* The POST succeeds, fails or times out: logged, and never retried.
Posted(w) ==
    /\ posting[w] # <<>>
    /\ posting' = [posting EXCEPT ![w] = <<>>]
    /\ UNCHANGED <<now, lastSent, seen, sent, met>>

Tick ==
    /\ now < MaxTime
    /\ now' = now + 1
    /\ UNCHANGED <<lastSent, seen, posting, sent, met>>

AlertsNext ==
    \/ \E w \in Workers : Posted(w) \/ \E d \in Detection : Pass(w, d) \/ Alert(w, d)
    \/ Tick

AlertsSpec == AlertsInit /\ [][AlertsNext]_alertVars

-----------------------------------------------------------------------------
(* Properties *)

AlertRecord == [src : Sources, technique : Techniques \cup {NoTechnique},
                trigger : {"corroborated", "new-technique"}, at : Nat]

\* Types; the missing technique is never remembered as one.
AlertsTypeOK ==
    /\ now \in 0..MaxTime
    /\ lastSent \in [Keys -> Nat \cup {Never}]
    /\ seen \subseteq Techniques
    /\ posting \in [Workers -> Seq(AlertRecord)]
    /\ sent \in Seq(AlertRecord)
    /\ met \subseteq Techniques

SameKey(a, b) == a.src = b.src /\ a.technique = b.technique

\* No alert storm: two alerts for the same source and technique are at least one throttle
\* window apart, whichever workers raise them and however slow the webhook is.
NoStorm ==
    \A i, j \in 1..Len(sent) :
        i < j /\ SameKey(sent[i], sent[j]) => sent[j].at - sent[i].at >= Throttle

\* "new-technique is inherently once-per-technique-per-process": such an alert is the
\* first one of any kind that names the technique.
NewTechniqueIsFirst ==
    \A i, j \in 1..Len(sent) :
        j < i /\ sent[i].trigger = "new-technique" => sent[j].technique # sent[i].technique

\* Throttling never swallows the first sight of a technique: every technique some
\* suspicious detection carried has been in an alert.
NoTechniqueMissed == \A t \in met : \E i \in 1..Len(sent) : sent[i].technique = t
=============================================================================
