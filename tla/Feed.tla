-------------------------------- MODULE Feed --------------------------------
(***************************************************************************)
(* The detection feed, from a classified flow to the operator's screen:    *)
(* a worker submits the row to the batched writer and then emits it on the *)
(* socket; the browser shows pages of the committed table, which it asks   *)
(* for when the operator turns a page or changes the filter and at no      *)
(* other time, and puts live events on top of page 1 itself. Answers can   *)
(* overtake each other, events come before their row is committed or long  *)
(* after, and rows are inserted while the operator pages.                  *)
(*                                                                         *)
(* A detection is named by the order in which it was submitted; its place  *)
(* in the table is SQLite's id.                                            *)
(***************************************************************************)
EXTENDS SequencesExt, Subsequences

CONSTANTS
    Verdicts,       \* the verdicts of the classifier
    Filters,        \* the verdicts the operator can filter by
    All,            \* no filter
    Workers,        \* number of enrichment workers
    PageSize,       \* FEED.pageSize
    Stored,         \* detections in the table when the console is opened
    MaxDetections,  \* bound: those and the flows classified since
    MaxAsks         \* bound: page requests

ASSUME FeedAssumption ==
    /\ All \notin Verdicts /\ Filters \subseteq Verdicts
    /\ Workers \in Nat \ {0}
    /\ PageSize \in Nat \ {0}
    /\ Stored \in Nat /\ MaxDetections \in Nat /\ MaxAsks \in Nat

VARIABLES
    verdict,        \* the verdicts of the detections so far
    emitting,       \* detections a worker has submitted and not emitted yet
    queued,         \* submitted, not yet committed
    table,          \* `detections`, by id
    socket,         \* events on their way to the browser
    page, filter,   \* FEED.page, FEED.verdict
    canNext,        \* the next button is enabled
    canPrev,
    asked,          \* page requests so far
    asks,           \* those whose answer has not been rendered
    feed,           \* the rows on the screen, top first
    shown,          \* the answer rendered last
    before          \* the one it was asked from, NoAnswer if another came between (history)

serverVars == <<verdict, emitting, queued, table>>
controlVars == <<page, filter, canNext, canPrev, asked>>
feedVars == <<feed, shown, before>>
vars == <<serverVars, socket, controlVars, asks, feedVars>>

Matches(f, d) == f = All \/ verdict[d] = f

Matching(f) == {d \in DOMAIN verdict : Matches(f, d)}

\* At most n entries of s, from place i on.
Take(s, i, n) == SubSeq(s, i, Min({i + n - 1, Len(s)}))

\* ORDER BY timestamp DESC, id DESC; the one writer inserts in the order of both.
NewestFirst(f) == Reverse(Only(table, Matching(f)))

\* Seeded bug: the offset runs ahead of the page.
PageOfGap(f, p) == Take(NewestFirst(f), (p - 1) * (PageSize + 1) + 1, PageSize)

\* LIMIT page_size OFFSET (page - 1) * page_size.
PageOf(f, p) == Take(NewestFirst(f), (p - 1) * PageSize + 1, PageSize)

\* An answer, or a request on its way to one. `seen` is the answer on the screen when
\* it was asked for.
Ask(no, p, f, seen) ==
    [no |-> no, page |-> p, filter |-> f, seen |-> seen, state |-> "sent", total |-> 0, items |-> <<>>]

NoAnswer == [state |-> "none"]

Init ==
    /\ verdict \in [1..Stored -> Verdicts] /\ table = [i \in 1..Stored |-> i]
    /\ emitting = {} /\ queued = <<>>
    /\ socket = <<>>
    /\ page = 1 /\ filter = All /\ canNext = TRUE /\ canPrev = TRUE
    /\ asked = 1 /\ asks = {Ask(1, 1, All, 0)}
    /\ feed = <<>> /\ shown = Ask(0, 1, All, 0) /\ before = NoAnswer

-----------------------------------------------------------------------------
(* The server: a worker, the writer, the route *)

\* _handle_completed_flow: the row first. submit() may refuse it, or its batch fail
\* later: then it never gets to the table.
Classify(v) ==
    LET d == Len(verdict) + 1
    IN /\ d <= MaxDetections /\ Cardinality(emitting) < Workers
       /\ verdict' = Append(verdict, v)
       /\ emitting' = emitting \cup {d}
       /\ queued' \in {Append(queued, d), queued}
       /\ UNCHANGED <<table, socket, controlVars, asks, feedVars>>

\* ... and the event last, after the log and the alerts.
Emit(d) ==
    /\ emitting' = emitting \ {d}
    /\ socket' = Append(socket, d)
    /\ UNCHANGED <<verdict, queued, table, controlVars, asks, feedVars>>

CommitBatch ==
    /\ queued # <<>> /\ queued' = <<>>
    /\ table' = table \o queued
    /\ UNCHANGED <<verdict, emitting, socket, controlVars, asks, feedVars>>

Becomes(a, state, total, items) ==
    asks' = (asks \ {a}) \cup {[a EXCEPT !.state = state, !.total = total, !.items = items]}

\* fetch_detections reads twice, with commits in between.
Count(a) ==
    /\ a.state = "sent"
    /\ Becomes(a, "counted", Len(NewestFirst(a.filter)), <<>>)
    /\ UNCHANGED <<serverVars, socket, controlVars, feedVars>>

Select(a) ==
    /\ a.state = "counted"
    /\ Becomes(a, "answered", a.total, PageOf(a.filter, a.page))
    /\ UNCHANGED <<serverVars, socket, controlVars, feedVars>>

\* The route's own error answer, which is JSON without a total and without items.
RouteFails(a) ==
    /\ a.state \in {"sent", "counted"}
    /\ Becomes(a, "error", 0, <<>>)
    /\ UNCHANGED <<serverVars, socket, controlVars, feedVars>>

-----------------------------------------------------------------------------
(* The browser *)

Pages(total) == Max({1, (total + PageSize - 1) \div PageSize})

Row(d, live) == [det |-> d, live |-> live]

FeedRows(items) == [i \in DOMAIN items |-> Row(items[i], FALSE)]

\* refreshFeed, once the answer is there -- also an error's, for `res.ok` is not read.
Render(a) ==
    /\ a.state \in {"answered", "error"}
    /\ asks' = asks \ {a}
    /\ feed' = FeedRows(a.items)
    /\ canPrev' = (page > 1) /\ canNext' = (page < Pages(a.total))
    /\ shown' = a
    /\ before' = IF a.seen = shown.no /\ a.seen > 0 THEN shown ELSE NoAnswer
    /\ UNCHANGED <<serverVars, socket, page, filter, asked>>

\* The fetch itself fails: a line on the console, and the screen stays.
FetchFails(a) ==
    /\ asks' = asks \ {a}
    /\ UNCHANGED <<serverVars, socket, controlVars, feedVars>>

\* The controls change and refreshFeed sends its request.
RefreshFeed(p, f) ==
    /\ asked < MaxAsks /\ asked' = asked + 1
    /\ page' = p /\ filter' = f
    /\ asks' = asks \cup {Ask(asked + 1, p, f, shown.no)}
    /\ UNCHANGED <<serverVars, socket, canNext, canPrev, feedVars>>

NextPage == canNext /\ RefreshFeed(page + 1, filter)

PrevPage == canPrev /\ page > 1 /\ RefreshFeed(page - 1, filter)
SetFilter(f) == RefreshFeed(1, f)

\* Seeded bug: live rows are put on whatever page is open.
LiveMatchesAnyPage(d) == Matches(filter, d)

LiveMatches(d) == page = 1 /\ Matches(filter, d)

\* The socket delivers in order.
LiveDetection ==
    /\ socket # <<>>
    /\ socket' = Tail(socket)
    /\ feed' = IF LiveMatches(Head(socket))
               THEN Take(<<Row(Head(socket), TRUE)>> \o feed, 1, PageSize) ELSE feed
    /\ UNCHANGED <<serverVars, controlVars, asks, shown, before>>

\* The connection is lost and made again: events on the way are gone, and so are those
\* emitted meanwhile; nothing is asked for on "connect".
Reconnect ==
    /\ socket # <<>> /\ socket' = <<>>
    /\ UNCHANGED <<serverVars, controlVars, asks, feedVars>>

-----------------------------------------------------------------------------
Server ==
    \/ \E v \in Verdicts : Classify(v)
    \/ \E d \in emitting : Emit(d)
    \/ CommitBatch
    \/ \E a \in asks : Count(a) \/ Select(a) \/ RouteFails(a)

Browser ==
    \/ \E a \in asks : Render(a) \/ FetchFails(a)
    \/ NextPage \/ PrevPage \/ \E f \in Filters \cup {All} : SetFilter(f)
    \/ LiveDetection \/ Reconnect

Next == Server \/ Browser

Spec == Init /\ [][Next]_vars

-----------------------------------------------------------------------------
(* Correctness *)

Rows(live) == {Row(d, live) : d \in DOMAIN verdict}
Live == Only(feed, Rows(TRUE))
Fetched == Only(feed, Rows(FALSE))

\* Answer a, had it been read when n rows of its filter were in the table.
AnswerOf(n, a) ==
    Take(Reverse(SubSeq(Only(table, Matching(a.filter)), 1, n)), (a.page - 1) * PageSize + 1, PageSize)

\* Whatever order answers, events and clicks come in, the screen is one answer with live
\* rows on top: its rows are the whole page it was asked for, of the table as it was at
\* one moment not before they were counted (none if the route failed), less what live
\* rows pushed off the end, and no row is there twice. If that answer is the one asked
\* for last, it is for the page and the filter of the controls, live rows are on page 1
\* only, all match the filter, and the buttons fit the page among the pages that were
\* counted -- then: what is committed or shown live later leaves them as they are
\* (console.js 548), so they may lag behind the table. An older answer that arrives after it stays under the controls of the newer
\* one: the code does not keep that from happening, and until the next click the screen
\* is then the older page.
ScreenIsOneAnswer ==
    /\ feed = Live \o Fetched /\ IsInjective(feed) /\ Len(feed) <= PageSize
    /\ Fetched = Take(FeedRows(shown.items), 1, PageSize - Len(Live))
    /\ IF shown.state = "answered"
       THEN \E n \in shown.total..Len(NewestFirst(shown.filter)) : shown.items = AnswerOf(n, shown)
       ELSE shown.items = <<>>
    /\ shown.no = asked =>
        /\ shown.page = page /\ shown.filter = filter
        /\ page > 1 => Live = <<>>
        /\ \A i \in DOMAIN feed : Matches(filter, feed[i].det)
        /\ canPrev = (page > 1) /\ canNext = (page < Pages(shown.total))

Ids(items) == {i \in DOMAIN table : table[i] \in Range(items)}

\* An operator who reads a page and then turns to the next one misses no detection,
\* although rows are inserted above them meanwhile: no row of the filter lies between
\* the last row of the one page and the first row of the next.
NoneSkipped ==
    /\ shown.state = "answered" /\ before.state = "answered" /\ before.items # <<>>
    /\ shown.filter = before.filter /\ shown.page = before.page + 1
    =>
    ~ \E i \in DOMAIN table :
        /\ Matches(shown.filter, table[i])
        /\ \A j \in Ids(before.items) : i < j
        /\ \A j \in Ids(shown.items) : j < i
=============================================================================
