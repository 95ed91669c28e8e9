-------------------------------- MODULE Login --------------------------------
(***************************************************************************)
(* auth.py: /login with its throttle of failures per remote address, and   *)
(* /register. Requests run on threads of the web server. The throttle is   *)
(* read before the password is checked and a failure is noted afterwards,  *)
(* so several requests of one address can be between the two. Validation   *)
(* of the forms, CSRF tokens and the session cookie change no shared       *)
(* state.                                                                  *)
(***************************************************************************)
EXTENDS SequencesExt

CONSTANTS
    Threads,        \* threads that serve /login and /register
    Addresses,      \* remote addresses
    Usernames,
    MaxFailures,    \* config.LOGIN_MAX_FAILURES
    Window,         \* config.LOGIN_FAILURE_WINDOW_S
    MaxTime,        \* bound: ticks of the clock
    MaxRequests     \* bound: requests

ASSUME LoginAssumption ==
    /\ IsFiniteSet(Threads)
    /\ MaxFailures \in Nat \ {0}
    /\ Window \in Nat /\ MaxTime \in Nat /\ MaxRequests \in Nat

VARIABLES
    clock,          \* time.monotonic()
    failures,       \* address -> `_failures`, the times of its failures
    thread,         \* thread -> the request it serves
    accounts,       \* the committed rows of `users`
    requests,       \* requests so far
    guesses,        \* address -> times of all the failures noted (history)
    emptied,        \* address -> times at which its failures were forgotten (history)
    fresh,          \* address -> times of the failures noted since then (history)
    refused,        \* address -> how many of them were in the window of a refusal (history)
    confirmed       \* username -> "Account created" answers (history)

memory == <<failures, thread>>
history == <<guesses, emptied, fresh, refused, confirmed>>
loginVars == <<clock, memory, accounts, requests, history>>

Idle == [pc |-> "idle"]

LoginInit ==
    /\ clock = 0 /\ requests = 0
    /\ failures = [a \in Addresses |-> <<>>]
    /\ thread = [t \in Threads |-> Idle]
    /\ accounts = {}
    /\ guesses = [a \in Addresses |-> <<>>]
    /\ emptied = [a \in Addresses |-> <<>>]
    /\ fresh = [a \in Addresses |-> <<>>]
    /\ refused = [a \in Addresses |-> {}]
    /\ confirmed = [u \in Usernames |-> 0]

Set(t, state) == thread' = [thread EXCEPT ![t] = state]

-----------------------------------------------------------------------------
(* login *)

\* _login_blocked reads the clock before it takes the lock.
Login(t, a) ==
    /\ thread[t].pc = "idle" /\ requests < MaxRequests /\ requests' = requests + 1
    /\ Set(t, [pc |-> "check", addr |-> a, now |-> clock])
    /\ UNCHANGED <<clock, failures, accounts, history>>

\* Seeded bug: a failure leaves the window one tick early.
ExpiredEarly(time, now) == now - time >= Window

Expired(time, now) == now - time > Window

\* `while window and now - window[0] > W: popleft()`: the times are in order, so those
\* that are too old come first.
Prune(window, now) ==
    SubSeq(window, 1 + Cardinality({i \in DOMAIN window : Expired(window[i], now)}), Len(window))

Blocked(window) == Len(window) >= MaxFailures

Within(times, from, to) == Cardinality({i \in DOMAIN times : times[i] \in from..to})

\* Under the lock: prune, then refuse or let the password be checked.
CheckBlocked(t) ==
    LET a == thread[t].addr
        window == Prune(failures[a], thread[t].now)
    IN /\ thread[t].pc = "check"
       /\ failures' = [failures EXCEPT ![a] = window]
       /\ IF Blocked(window)
          THEN /\ Set(t, Idle)
               /\ refused' = [refused EXCEPT ![a] =
                                 @ \cup {Within(fresh[a], thread[t].now - Window, clock)}]
          ELSE Set(t, [pc |-> "verify", addr |-> a]) /\ UNCHANGED refused
       /\ UNCHANGED <<clock, accounts, requests, guesses, emptied, fresh, confirmed>>

\* Unknown user or wrong password: _note_failure.
NoteFailure(t) ==
    LET a == thread[t].addr
    IN /\ thread[t].pc = "verify"
       /\ failures' = [failures EXCEPT ![a] = Append(@, clock)]
       /\ guesses' = [guesses EXCEPT ![a] = Append(@, clock)]
       /\ fresh' = [fresh EXCEPT ![a] = Append(@, clock)]
       /\ Set(t, Idle)
       /\ UNCHANGED <<clock, accounts, requests, emptied, refused, confirmed>>

\* The failures of these addresses are forgotten, where there are any (history).
Forgotten(addresses) ==
    /\ emptied' = [a \in Addresses |->
                     IF a \in addresses /\ fresh[a] # <<>>
                     THEN Append(emptied[a], clock) ELSE emptied[a]]
    /\ fresh' = [a \in Addresses |-> IF a \in addresses THEN <<>> ELSE fresh[a]]

\* The right password of an account: _clear_failures.
ClearFailures(t) ==
    LET a == thread[t].addr
    IN /\ thread[t].pc = "verify" /\ accounts # {}
       /\ failures' = [failures EXCEPT ![a] = <<>>]
       /\ Forgotten({a})
       /\ Set(t, Idle)
       /\ UNCHANGED <<clock, accounts, requests, guesses, refused, confirmed>>

-----------------------------------------------------------------------------
(* register *)

Register(t, u) ==
    /\ thread[t].pc = "idle" /\ requests < MaxRequests /\ requests' = requests + 1
    /\ Set(t, [pc |-> "insert", user |-> u])
    /\ UNCHANGED <<clock, failures, accounts, history>>

\* SQLite has one writer: a second INSERT waits for the first one's commit.
WriteLockFree == \A t \in Threads : thread[t].pc # "commit"

Insert(t) ==
    /\ thread[t].pc = "insert" /\ WriteLockFree
    /\ thread[t].user \notin accounts
    /\ Set(t, [thread[t] EXCEPT !.pc = "commit"])
    /\ UNCHANGED <<clock, failures, accounts, requests, history>>

\* "That username is already taken", or the wait for the lock ends in an error.
InsertRefused(t) ==
    /\ thread[t].pc = "insert"
    /\ WriteLockFree => thread[t].user \in accounts
    /\ Set(t, Idle)
    /\ UNCHANGED <<clock, failures, accounts, requests, history>>

\* Seeded bug: the account is confirmed and never committed.
CommitForgotten(t) ==
    /\ thread[t].pc = "commit"
    /\ Set(t, [thread[t] EXCEPT !.pc = "confirm"])
    /\ UNCHANGED <<clock, failures, accounts, requests, history>>

CommitAccount(t) ==
    /\ thread[t].pc = "commit"
    /\ accounts' = accounts \cup {thread[t].user}
    /\ Set(t, [thread[t] EXCEPT !.pc = "confirm"])
    /\ UNCHANGED <<clock, failures, requests, history>>

Confirm(t) ==
    /\ thread[t].pc = "confirm"
    /\ confirmed' = [confirmed EXCEPT ![thread[t].user] = @ + 1]
    /\ Set(t, Idle)
    /\ UNCHANGED <<clock, failures, accounts, requests, guesses, emptied, fresh, refused>>

-----------------------------------------------------------------------------
Tick ==
    /\ clock < MaxTime /\ clock' = clock + 1
    /\ UNCHANGED <<memory, accounts, requests, history>>

Operate ==
    \/ Tick
    \/ \E t \in Threads :
        \/ \E a \in Addresses : Login(t, a)
        \/ CheckBlocked(t) \/ NoteFailure(t) \/ ClearFailures(t)
        \/ \E u \in Usernames : Register(t, u)
        \/ Insert(t) \/ InsertRefused(t) \/ CommitAccount(t) \/ Confirm(t)

\* The process ends: what it held in memory is gone, and so is an open transaction.
Forget ==
    /\ failures' = [a \in Addresses |-> <<>>]
    /\ Forgotten(Addresses)
    /\ refused' = [a \in Addresses |-> {}]
    /\ thread' = [t \in Threads |-> Idle]
    /\ UNCHANGED <<clock, accounts, requests, guesses, confirmed>>

-----------------------------------------------------------------------------
(* Correctness *)

LoginTypeOK ==
    /\ clock \in 0..MaxTime /\ requests \in 0..MaxRequests
    /\ failures \in [Addresses -> Seq(0..MaxTime)]
    /\ \A t \in Threads : thread[t].pc \in {"idle", "check", "verify", "insert", "commit", "confirm"}
    /\ accounts \subseteq Usernames
    /\ Cardinality({t \in Threads : thread[t].pc = "commit"}) <= 1

\* The throttle bounds guessing although it is read long before a failure is noted: in
\* any window of time an address gets at most LOGIN_MAX_FAILURES wrong guesses, one more
\* for every other thread that was already past the check -- and all of that anew for
\* every time within the window that its failures were forgotten, which a successful
\* login of the address does (auth.py 189), and a restart. And it is never stricter than
\* that: a refused request has LOGIN_MAX_FAILURES failures in its own window that were
\* not forgotten, so the address is let in again when they are old enough.
ThrottleExact ==
    \A a \in Addresses :
        /\ \A from \in 0..MaxTime :
            Within(guesses[a], from, from + Window)
              <= (MaxFailures + Cardinality(Threads) - 1)
                   * (1 + Within(emptied[a], from, from + Window))
        /\ \A n \in refused[a] : n >= MaxFailures

\* An account whose creation was confirmed is in the database, whatever ends the
\* process afterwards, and a name is never given to two of them.
AccountsKept == \A u \in Usernames : confirmed[u] <= 1 /\ (confirmed[u] = 1 => u \in accounts)
=============================================================================
