----------------------------- MODULE PageLoads -----------------------------
(***************************************************************************)
(* The pages of the Web UI that show what a query returns: lists with      *)
(* filters and pages, statistics, status pages, and two dialogs.  They are *)
(* the same hook-written loop - state, an effect that loads when the state *)
(* changes, perhaps a timer - with differences that matter, so each page   *)
(* is a record of how it loads, and one of what it lets the user do.       *)
(*                                                                         *)
(* No page drops a late answer: whatever arrives last is shown.  Leaving a *)
(* page unmounts it, so a behaviour is one visit to one page.              *)
(***************************************************************************)
EXTENDS Naturals, Sequences, SequencesExt

CONSTANTS
    Filters,    \* values of a page's filters, taken together; 0 is the first
    MaxInFlight,\* bound: loads of a page under way
    MaxActs,    \* bound: what the user does in one visit
    MaxData,    \* bound: changes of what the server has
    MaxFails    \* bound: loads that fail

ASSUME PageLoadsConstants ==
    /\ Filters \subseteq Nat /\ 0 \in Filters
    /\ MaxInFlight \in Nat \ {0} /\ MaxActs \in Nat /\ MaxData \in Nat /\ MaxFails \in Nat

VARIABLES
    kind,       \* the page
    query,      \* what the page asks for: its state
    shown,      \* the rows it shows: for what query, as of what change
    more,       \* the answer says there is a next page
    loads,      \* loads under way, each with the query in its closure
    timed,      \* the query in the closure of the timer, if it runs
    armed,      \* the debounce timer runs
    polls,      \* attempts of the polling timer
    err, answered,
    row,        \* a row's detail
    data,       \* what the server has
    acts, fails,
    crossed     \* history: the last answers came from loads that overlapped

loadVars == <<kind, query, shown, more, loads, timed, armed, polls, err, answered, row,
              data, acts, fails, crossed>>

-----------------------------------------------------------------------------
(* How each page loads.  timer: none, one that is always on, one the user   *)
(* switches, or polling while the catalog is not ready.  clears: when the   *)
(* error of a load goes away; "silent" loads have none.  needs: what the    *)
(* page must have got before it shows its controls.                         *)

Way(timer, clears, needs) == [timer |-> timer, clears |-> clears, needs |-> needs]

LogsLoad        == Way("none", "start", "nothing")
RequestsLoad    == Way("none", "never", "nothing")
McpRequestsLoad == Way("switch", "answer", "nothing")
McpLogsLoad     == Way("switch", "answer", "nothing")
OverviewLoad    == Way("none", "start", "answer")
McpOverviewLoad == Way("none", "start", "answer")
InfoLoad        == Way("always", "silent", "nothing")
McpInfoLoad     == Way("always", "answer", "rows")
InspectLoad     == Way("none", "start", "nothing")
PickerLoad      == Way("poll", "start", "nothing")

(* What each page lets the user do.  On a page with pages a filter goes     *)
(* back to the first; the refresh button of Logs does so too.               *)

LogsControls        == {"filter", "page", "first", "detail"}
RequestsControls    == {"filter", "page"}
McpRequestsControls == {"filter", "page", "refresh", "auto"}
McpLogsControls     == {"filter", "page", "refresh", "auto"}
McpRequestsRow      == {"open"}
McpLogsRow          == {"open"}
OverviewControls    == {"filter", "refresh"}
McpOverviewControls == {"filter", "refresh"}
McpInfoControls     == {"refresh"}
InspectControls     == {"inspect"}
PickerControls      == {"type", "catalog"}

Page == [
    Logs        |-> [way |-> LogsLoad, can |-> LogsControls],
    Requests    |-> [way |-> RequestsLoad, can |-> RequestsControls],
    McpRequests |-> [way |-> McpRequestsLoad, can |-> McpRequestsControls \cup McpRequestsRow],
    McpLogs     |-> [way |-> McpLogsLoad, can |-> McpLogsControls \cup McpLogsRow],
    Overview    |-> [way |-> OverviewLoad, can |-> OverviewControls],
    McpOverview |-> [way |-> McpOverviewLoad, can |-> McpOverviewControls],
    Info        |-> [way |-> InfoLoad, can |-> {}],
    McpInfo     |-> [way |-> McpInfoLoad, can |-> McpInfoControls],
    Inspect     |-> [way |-> InspectLoad, can |-> InspectControls],
    Picker      |-> [way |-> PickerLoad, can |-> PickerControls] ]

Kinds == DOMAIN Page
way == Page[kind].way
May(control) ==
    /\ control \in Page[kind].can
    /\ CASE way.needs = "nothing" -> TRUE
         [] way.needs = "answer"  -> answered
         [] way.needs = "rows"    -> shown.at # "nothing"

-----------------------------------------------------------------------------
\* The attempts of one polling timer.
MaxPolls == 10

Query == [filter: Filters, page: 0 .. 1]
First == [filter |-> 0, page |-> 0]
Asks(q)  == [at |-> "query", q |-> q]
Closed   == [at |-> "nothing", q |-> First]
Nothing  == [at |-> "nothing", q |-> First, v |-> 0]
Rows(q, v) == [at |-> "rows", q |-> q, v |-> v]

PageLoadsTypeOK ==
    /\ kind \in Kinds
    /\ query \in [at: {"query", "nothing"}, q: Query]
    /\ timed \in [at: {"query", "nothing"}, q: Query]
    /\ shown \in [at: {"rows", "nothing"}, q: Query, v: 0 .. MaxData]
    /\ loads \in Seq([q: Query, since: 0 .. MaxData, silent: BOOLEAN, catalog: BOOLEAN,
                      alone: BOOLEAN])
    /\ Len(loads) <= MaxInFlight
    /\ <<more, armed, err, answered, crossed>> \in BOOLEAN \X BOOLEAN \X BOOLEAN \X BOOLEAN \X BOOLEAN
    /\ polls \in 0 .. MaxPolls /\ row \in [open: {"no", "loading", "yes"}, asked: BOOLEAN]
    /\ data \in 0 .. MaxData /\ acts \in 0 .. MaxActs /\ fails \in 0 .. MaxFails

NewLoad(q) == [q |-> q, since |-> data, silent |-> way.clears = "silent",
               catalog |-> FALSE, alone |-> loads = <<>>]

\* The effects of the first render: a load, or the debounce timer; a dialog
\* has nothing to load before it is opened.
PageLoadsInit ==
    /\ kind \in Kinds
    /\ query = IF kind = "Inspect" THEN Closed ELSE Asks(First)
    /\ shown = Nothing /\ more = FALSE
    /\ loads = IF kind \in {"Inspect", "Picker"} THEN <<>>
               ELSE <<[q |-> First, since |-> 0, silent |-> way.clears = "silent",
                       catalog |-> FALSE, alone |-> TRUE]>>
    /\ timed = IF way.timer = "always" THEN Asks(First) ELSE Closed
    /\ armed = (kind = "Picker") /\ polls = 0
    /\ err = FALSE /\ answered = FALSE
    /\ row = [open |-> "no", asked |-> FALSE]
    /\ data = 0 /\ acts = 0 /\ fails = 0 /\ crossed = FALSE

\* Sends loads.  One that is under way when another is sent is not alone.
SendAll(ls) ==
    /\ Len(loads) + Len(ls) <= MaxInFlight
    /\ loads' = LET all == loads \o ls
                IN  IF Len(all) = 1 THEN all
                    ELSE [i \in DOMAIN all |-> [all[i] EXCEPT !.alone = FALSE]]
    /\ crossed' = (crossed \/ Len(loads \o ls) > 1)
    /\ err' = (err /\ (way.clears # "start" \/ \A i \in DOMAIN ls : ls[i].silent))
Send(l) == SendAll(<<l>>)

Act == acts < MaxActs /\ acts' = acts + 1

\* Mutated form: the effect of the timer does not depend on the query.
TimerKept(q) == timed

\* The timer is set anew, with the closure of the new query.  (Polling starts
\* with an answer; a new query starts its attempts again.)
Retimed(q) == IF timed.at = "query" THEN Asks(q) ELSE timed

\* Mutated form: the load of the render before.
StaleQuery(q) == query.q

\* The query of the load in an effect: that of the render with the new state.
EffectQuery(q) == q

\* The state has changed: the effects run again.
Change(q) ==
    /\ query' = Asks(q)
    /\ timed' = Retimed(q)
    /\ Send(NewLoad(EffectQuery(q)))
    /\ UNCHANGED <<kind, shown, more, armed, polls, answered, row, data, fails>>

-----------------------------------------------------------------------------
(* What the user does.                                                      *)

SetFilter(f) ==
    /\ May("filter") /\ f # query.q.filter /\ Act
    /\ Change([filter |-> f, page |-> 0])

TurnPage(p) ==
    /\ May("page") /\ p # query.q.page /\ (p = 1 => more) /\ Act
    /\ Change([query.q EXCEPT !.page = p])

Refresh ==
    /\ May("refresh") /\ Act
    /\ Send(NewLoad(query.q))
    /\ UNCHANGED <<kind, query, shown, more, timed, armed, polls, answered, row, data, fails>>

\* Logs: setPage(0) and load() in one handler.  The load still has the page
\* that was open, and the effect loads the first one as well if that changed.
RefreshFirst ==
    /\ May("first") /\ Act
    /\ query' = Asks([query.q EXCEPT !.page = 0])
    /\ SendAll(<<NewLoad(query.q)>> \o
               (IF query' = query THEN <<>> ELSE <<NewLoad(query'.q)>>))
    /\ UNCHANGED <<kind, shown, more, timed, armed, polls, answered, row, data, fails>>

SwitchAuto ==
    /\ May("auto") /\ Act
    /\ timed' = IF timed.at = "query" THEN Closed ELSE query
    /\ UNCHANGED <<kind, query, shown, more, loads, armed, polls, err, answered, row,
                   data, fails, crossed>>

\* Logs.toggleRow: opening a row loads its detail.  (Bound: one row, and one
\* load of its detail at a time.)
ToggleDetail ==
    /\ May("detail") /\ shown.at = "rows" /\ Act
    /\ IF row.open = "no"
       THEN ~row.asked /\ row' = [open |-> "loading", asked |-> TRUE]
       ELSE row' = [row EXCEPT !.open = "no"]
    /\ UNCHANGED <<kind, query, shown, more, loads, timed, armed, polls, err, answered,
                   data, fails, crossed>>

\* The detail, or why there is none: it opens a row that was closed meanwhile.
AnswerDetail ==
    /\ row.asked
    /\ row' = [open |-> "yes", asked |-> FALSE]
    /\ UNCHANGED <<kind, query, shown, more, loads, timed, armed, polls, err, answered,
                   data, acts, fails, crossed>>

\* A row that is opened and closed without a load.
OpenRow ==
    /\ May("open") /\ shown.at = "rows" /\ Act
    /\ row' = [row EXCEPT !.open = IF @ = "no" THEN "yes" ELSE "no"]
    /\ UNCHANGED <<kind, query, shown, more, loads, timed, armed, polls, err, answered,
                   data, fails, crossed>>

\* handleInspectProvider forgets the result of the provider before.
Inspect(f) ==
    /\ May("inspect") /\ query.at = "nothing" /\ Act
    /\ query' = Asks([filter |-> f, page |-> 0])
    /\ shown' = Nothing
    /\ Send(NewLoad(query'.q))
    /\ UNCHANGED <<kind, more, timed, armed, polls, answered, row, data, fails>>
CloseInspect ==
    /\ May("inspect") /\ query.at = "query" /\ Act
    /\ query' = Closed
    /\ UNCHANGED <<kind, shown, more, loads, timed, armed, polls, err, answered, row, data,
                   fails, crossed>>

\* ModelsDevPicker: typing, and opening it again, start the debounce timer.
Type(f) ==
    /\ May("type") /\ f # query.q.filter /\ Act
    /\ query' = Asks([filter |-> f, page |-> 0])
    /\ armed' = TRUE
    /\ timed' = Retimed(query'.q) /\ polls' = 0
    /\ UNCHANGED <<kind, shown, more, loads, err, answered, row, data, fails, crossed>>
Debounced ==
    /\ armed
    /\ armed' = FALSE
    /\ Send(NewLoad(query.q))
    /\ UNCHANGED <<kind, query, shown, more, timed, polls, answered, row, data, acts, fails>>

\* Its refresh button: the catalog first, and then the load of this render.
RefreshCatalog ==
    /\ May("catalog") /\ \A i \in DOMAIN loads : ~loads[i].catalog
    /\ Act
    /\ Send([NewLoad(query.q) EXCEPT !.catalog = TRUE])
    /\ UNCHANGED <<kind, query, shown, more, timed, armed, polls, answered, row, data, fails>>

-----------------------------------------------------------------------------
(* Timers and answers.                                                      *)

\* setInterval does not wait for the load before.  (Bound: MaxInFlight.)
Tick ==
    /\ timed.at = "query"
    /\ way.timer = "poll" => polls < MaxPolls
    /\ Send([NewLoad(timed.q) EXCEPT !.silent = @ \/ way.timer = "poll"])
    /\ polls' = IF way.timer = "poll" THEN polls + 1 ELSE polls
    /\ UNCHANGED <<kind, query, shown, more, timed, armed, answered, row, data, acts, fails>>

\* The picker polls as long as the answers say that the catalog is not there.
PollAfter(v) ==
    CASE way.timer # "poll" -> timed
      [] way.timer = "poll" /\ v = MaxData -> Closed
      [] way.timer = "poll" /\ v < MaxData -> query

\* An answer shows what the server had at some time since the load was sent.
Answer(i) ==
    /\ loads' = RemoveAt(loads, i)
    /\ \E v \in loads[i].since .. data :
          /\ shown' = Rows(loads[i].q, v)
          /\ timed' = PollAfter(v)
          /\ polls' = IF timed.at = "nothing" THEN 0 ELSE polls
    /\ more' \in BOOLEAN
    /\ err' = (err /\ way.clears # "answer")
    /\ row' = IF kind = "Logs" THEN [row EXCEPT !.open = "no"] ELSE row
    /\ crossed' = (crossed /\ ~loads[i].alone)
    /\ answered' = TRUE
    /\ UNCHANGED <<kind, query, armed, data, acts, fails>>

AnswerFails(i) ==
    /\ fails < MaxFails /\ fails' = fails + 1
    /\ loads' = RemoveAt(loads, i)
    /\ err' = (err \/ ~loads[i].silent)
    /\ answered' = TRUE
    /\ UNCHANGED <<kind, query, shown, more, timed, armed, polls, row, data, acts, crossed>>

ServerChanges ==
    /\ data < MaxData
    /\ data' = data + 1
    /\ UNCHANGED <<kind, query, shown, more, loads, timed, armed, polls, err, answered, row,
                   acts, fails, crossed>>

-----------------------------------------------------------------------------
UserActs ==
    \/ \E f \in Filters : SetFilter(f) \/ Inspect(f) \/ Type(f)
    \/ \E p \in 0 .. 1 : TurnPage(p)
    \/ Refresh
    \/ RefreshFirst
    \/ SwitchAuto
    \/ ToggleDetail
    \/ OpenRow
    \/ CloseInspect
    \/ RefreshCatalog

Answered == \E i \in DOMAIN loads : Answer(i) \/ AnswerFails(i)

PageLoadsNext ==
    \/ UserActs
    \/ Debounced
    \/ Tick
    \/ Answered
    \/ AnswerDetail
    \/ ServerChanges

\* Timers fire, and requests are answered sooner or later, the first one that
\* is under way included.
OldestAnswered == loads # <<>> /\ (Answer(1) \/ AnswerFails(1))
PageLoadsFairness == WF_loadVars(Tick) /\ WF_loadVars(Debounced) /\ WF_loadVars(OldestAnswered)

\* With nothing under way and no two loads crossed, a page says that something
\* failed or shows the rows of the query it displays: no control leaves the old
\* rows under a new filter, page or heading.  (Info fails in silence.)
QuietPageShowsItsQuery ==
    loads = <<>> /\ ~armed /\ ~crossed /\ query.at = "query" /\ way.clears # "silent"
        => err \/ (shown.at = "rows" /\ shown.q = query.q)

\* A page whose refresh timer stays on ends up showing what the server has for
\* its query and goes on showing it, whatever was crossed, failed or changed
\* before (the effects with setInterval and what they depend on).  The picker's
\* timer gives up instead.
AutoRefreshConverges ==
    <>[](timed.at = "query" /\ way.timer # "poll") => <>[](shown = Rows(query.q, data))
=============================================================================
