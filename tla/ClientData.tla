---------------------------- MODULE ClientData ----------------------------
(***************************************************************************)
(* One tab of the web client (src/web/app.js): which view it shows, which  *)
(* lists it holds, and the requests by which it fills and refreshes them.  *)
(*                                                                         *)
(* Four requests write the same lists: the refresh, the load of a view,    *)
(* the operational refresh of every 30 seconds and, through the refresh    *)
(* they end in, the user's own actions and the notices of other tabs.      *)
(* JavaScript runs one handler at a time, so an action is one handler; any *)
(* handlers may run between a request and its answer.                      *)
(*                                                                         *)
(* What the server holds is a version per list, one more at every change.  *)
(* A request reads each of its paths somewhere between its sending and its *)
(* answer, so it remembers only the versions there were when it was sent.  *)
(* "op" stands for status, reserves and recording, which are only ever     *)
(* asked for together.  refreshVersion appears as the field fresh of a     *)
(* request: no refresh has begun since it was sent.                        *)
(***************************************************************************)
EXTENDS Integers, Sequences

CONSTANTS
  None,        \* no request
  Views,       \* the views of the tab: see AllViews
  MaxWrites,   \* bound: changes of one list, after which none changes
  MaxFails     \* bound: requests that fail or time out

AllViews == {"dashboard", "schedule", "recorded", "reserves", "search",
             "rules", "settings", "status", "logs"}

ASSUME ViewsAssumption == Views \subseteq AllViews /\ Views # {}
ASSUME BoundsAssumption == MaxWrites \in Nat /\ MaxFails \in Nat

VARIABLES
  srv,         \* version of each list on the server
  view,        \* state.currentView
  hidden,      \* document.visibilityState is "hidden"
  data,        \* the version of each list in state
  full,        \* state.recorded holds all recordings, not the latest eight
  loaded,      \* the paths whose programDataLoaded is set
  hasLoaded,   \* state.hasLoaded
  queued,      \* refreshQueued
  lastError,   \* state.lastError is set
  req,         \* the requests in flight
  shown,       \* version of op at the last rendering of the operational lists
  own,         \* the action of the user in flight
  notices,     \* notices of other tabs on their way
  told,        \* newest version of op this tab has been told of
  floor,       \* versions there were when the last applied refresh was sent
  fails        \* requests that have failed

vars == <<srv, view, hidden, data, full, loaded, hasLoaded, queued, lastError, req, shown, own, notices, told, floor, fails>>

Operational == {"dashboard", "schedule", "reserves", "recorded"}

ProgramPaths == {"recorded", "recorded/recent", "schedule", "schedule/broadcasting"}

\* The list a path is read from; nothing is said of what is on the air.
ListOf == [p \in ProgramPaths \cup {"op"} |->
             CASE p \in {"recorded", "recorded/recent"} -> "recorded"
               [] p = "schedule" -> "schedule"
               [] p = "op" -> "op"
               [] OTHER -> "air"]

programDataPathsForView(v) ==
  CASE v = "dashboard" -> {"recorded/recent", "schedule/broadcasting"}
    [] v = "schedule"  -> {"schedule", "schedule/broadcasting"}
    [] v = "recorded"  -> {"recorded"}
    [] OTHER -> {}

\* The lists the views show.
Lists == {"op"} \cup ({ListOf[p] : p \in UNION {programDataPathsForView(v) : v \in Views}} \ {"air"})

LoadViews == {v \in Views : programDataPathsForView(v) # {}}
Slots == {"refresh", "operational"} \cup LoadViews

\* A request for paths, sent in view v.
Send(v, paths) ==
  [view |-> v, paths |-> paths, fresh |-> TRUE,
   since |-> [l \in Lists |-> IF \E p \in paths : ListOf[p] = l THEN srv[l] ELSE 0]]

Fetches(q, l) == \E p \in q.paths : ListOf[p] = l

Requests == [view : Views, paths : SUBSET (ProgramPaths \cup {"op"}), fresh : BOOLEAN,
             since : [Lists -> 0 .. MaxWrites]]

ASSUME NoRequestAssumption == None \notin Requests

-----------------------------------------------------------------------------
(* Parts of handlers.                                                      *)

\* loadProgramDataForView, on the requests rq and the loaded paths ld:
\* nothing to load, or joined to the load in flight, or sent.
loadProgramDataForView(v, force, ld, rq) ==
  LET paths == {p \in programDataPathsForView(v) : force \/ p \notin ld}
  IN  IF paths = {} \/ rq[v] # None THEN rq ELSE [rq EXCEPT ![v] = Send(v, paths)]

\* A refresh begins: every request in flight belongs to an older refreshVersion.
StartRefresh(v, rq) ==
  [s \in Slots |->
     IF s = "refresh" THEN Send(v, {"op"} \cup programDataPathsForView(v))
     ELSE IF rq[s] = None THEN None ELSE [rq[s] EXCEPT !.fresh = FALSE]]

\* Variant: a refresh asked for while one runs is dropped.
CallRefreshJoined ==
  /\ req' = IF req["refresh"] # None THEN req ELSE StartRefresh(view, req)
  /\ lastError' = (req["refresh"] # None /\ lastError)
  /\ UNCHANGED queued

\* refresh(): queued behind the one that runs, or begun.
CallRefresh ==
  IF req["refresh"] # None
  THEN /\ queued' = TRUE
       /\ UNCHANGED <<req, lastError>>
  ELSE /\ req' = StartRefresh(view, req)
       /\ lastError' = FALSE
       /\ UNCHANGED queued

\* programDataLoaded is kept of these paths.
PathsLoaded(q) == q.paths \ {"op"}

\* applyProgramData: got gives the version read of every list asked for, air
\* tells whether what is on the air could be read.
ApplyProgramData(q, got, air) ==
  /\ data' = [l \in Lists |-> IF Fetches(q, l) THEN got[l] ELSE data[l]]
  /\ full' = IF Fetches(q, "recorded") THEN "recorded" \in q.paths ELSE full
  /\ loaded' = (loaded \cup PathsLoaded(q)) \ (IF air THEN {} ELSE {"schedule/broadcasting"})

\* What the answers to q can have read.
Readings(q) == {got \in [Lists -> 0 .. MaxWrites] :
                  \A l \in Lists : got[l] \in q.since[l] .. (IF Fetches(q, l) THEN srv[l] ELSE 0)}

\* On the air may fail alone, its error is swallowed.
AirAnswers(q) == IF "schedule/broadcasting" \in q.paths /\ fails < MaxFails
                 THEN BOOLEAN ELSE {TRUE}

\* render and renderOperationalData: what they show of the operational lists.
Render(when) == shown' = IF when THEN data'["op"] ELSE shown

SpendAir(air) == fails' = IF air THEN fails ELSE fails + 1

Fail == /\ fails < MaxFails
        /\ fails' = fails + 1

-----------------------------------------------------------------------------
(* The page has just been opened: the view of the address, the first       *)
(* refresh sent.                                                           *)

Init ==
  /\ srv = [l \in Lists |-> 0]
  /\ view \in Views
  /\ hidden = FALSE
  /\ data = [l \in Lists |-> 0]
  /\ full = FALSE
  /\ loaded = {}
  /\ hasLoaded = FALSE
  /\ queued = FALSE
  /\ lastError = FALSE
  /\ req = [s \in Slots |-> IF s = "refresh"
                            THEN Send(view, {"op"} \cup programDataPathsForView(view))
                            ELSE None]
  /\ shown = 0
  /\ own = 0
  /\ notices = <<>>
  /\ told = 0
  /\ floor = [l \in Lists |-> 0]
  /\ fails = 0

-----------------------------------------------------------------------------
(* The refresh.                                                            *)

\* The finally of refresh(): the rest of a view entered meanwhile,
\* then the refresh that queued up behind this one.
FinishRefresh(q, ld, hasLd) ==
  LET idle == [req EXCEPT !["refresh"] = None]
      rq   == IF hasLd /\ view \in LoadViews
              THEN loadProgramDataForView(view, view # q.view, ld, idle) ELSE idle
  IN  /\ req' = IF queued THEN StartRefresh(view, rq) ELSE rq
      /\ queued' = FALSE

RefreshAnswers ==
  LET q == req["refresh"]
  IN  /\ q # None
      /\ \E got \in Readings(q), air \in AirAnswers(q) :
           /\ ApplyProgramData(q, got, air)
           /\ Render(TRUE)
           /\ SpendAir(air)
      /\ hasLoaded' = TRUE
      /\ lastError' = FALSE
      /\ FinishRefresh(q, loaded', TRUE)
      /\ floor' = [l \in Lists |-> IF Fetches(q, l) THEN q.since[l] ELSE floor[l]]
      /\ UNCHANGED <<srv, view, hidden, own, notices, told>>

RefreshFails ==
  LET q == req["refresh"]
  IN  /\ q # None
      /\ Fail
      /\ lastError' = ~queued
      /\ FinishRefresh(q, loaded, hasLoaded)
      /\ UNCHANGED <<srv, view, hidden, data, full, loaded, hasLoaded, shown, own,
                     notices, told, floor>>

\* The refresh button, the retry of a list, and the key r, which also works
\* while a refresh runs.
PressRefresh ==
  /\ ~hidden
  /\ CallRefresh
  /\ UNCHANGED <<srv, view, hidden, data, full, loaded, hasLoaded, shown,
                 own, notices, told, floor, fails>>

-----------------------------------------------------------------------------
(* Views.                                                                  *)

\* hashchange: setView.
SetView(v) ==
  /\ ~hidden
  /\ v # view
  /\ view' = v
  /\ UNCHANGED data
  /\ Render(hasLoaded /\ v \in Operational)
  /\ req' = IF hasLoaded /\ v \in LoadViews
            THEN loadProgramDataForView(v, FALSE, loaded, req) ELSE req
  /\ UNCHANGED <<srv, hidden, full, loaded, hasLoaded, queued, lastError, own,
                 notices, told, floor, fails>>

\* Variant: every answer is taken.
AppliesAlways(q) == TRUE

Applies(q) == q.fresh

\* The answer to the load of v: dropped when a refresh has begun meanwhile.
LoadAnswers(v) ==
  LET q == req[v]
  IN  /\ q # None
      /\ req' = [req EXCEPT ![v] = None]
      /\ IF Applies(q)
         THEN /\ \E got \in Readings(q), air \in AirAnswers(q) :
                   ApplyProgramData(q, got, air) /\ SpendAir(air)
              /\ lastError' = FALSE
              /\ Render(view = v)
         ELSE UNCHANGED <<data, full, loaded, lastError, shown, fails>>
      /\ UNCHANGED <<srv, view, hidden, hasLoaded, queued, own,
                     notices, told, floor>>

LoadFails(v) ==
  /\ req[v] # None
  /\ Fail
  /\ req' = [req EXCEPT ![v] = None]
  /\ lastError' = TRUE
  /\ UNCHANGED <<srv, view, hidden, data, full, loaded, hasLoaded, queued, shown, own, notices, told, floor>>

-----------------------------------------------------------------------------
(* Timers and the visibility of the page.                                  *)

\* Variant: with the latest recordings also where all are shown.
OperationalPathsLatest(v) ==
  {"op"} \cup (IF v \in {"dashboard", "recorded"} THEN {"recorded/recent"} ELSE {})

OperationalPaths(v) ==
  {"op"} \cup (IF v = "schedule" THEN {"schedule/broadcasting"}
               ELSE IF v \in {"dashboard", "recorded"} THEN programDataPathsForView(v)
               ELSE {})

\* Variant: nothing more is asked for once there was an error.
RefreshUnlessError(hid) ==
  IF \/ view \notin Operational \/ hid \/ lastError
     \/ req["refresh"] # None \/ req["operational"] # None
  THEN req
  ELSE [req EXCEPT !["operational"] = Send(view, OperationalPaths(view))]

\* refreshOperationalData, with hid the visibility.
RefreshOperationalData(hid) ==
  IF view \notin Operational \/ hid \/ req["refresh"] # None \/ req["operational"] # None
  THEN req
  ELSE [req EXCEPT !["operational"] = Send(view, OperationalPaths(view))]

OperationalTick ==
  /\ req' = RefreshOperationalData(hidden)
  /\ UNCHANGED <<srv, view, hidden, data, full, loaded, hasLoaded, queued, lastError, shown, own, notices, told, floor, fails>>

OperationalOver == req' = [req EXCEPT !["operational"] = None]

\* Applied even when the page is hidden, but then not rendered.
OperationalAnswers ==
  LET q == req["operational"]
  IN  /\ q # None
      /\ OperationalOver
      /\ IF Applies(q)
         THEN /\ \E got \in Readings(q), air \in AirAnswers(q) :
                   ApplyProgramData(q, got, air) /\ SpendAir(air)
              /\ lastError' = FALSE
              /\ Render(~hidden /\ view \in Operational)
         ELSE UNCHANGED <<data, full, loaded, lastError, shown, fails>>
      /\ UNCHANGED <<srv, view, hidden, hasLoaded, queued, own,
                     notices, told, floor>>

OperationalFails ==
  /\ req["operational"] # None
  /\ Fail
  /\ OperationalOver
  /\ lastError' = TRUE
  /\ UNCHANGED <<srv, view, hidden, data, full, loaded, hasLoaded, queued, shown, own, notices, told, floor>>

\* visibilitychange.
Hide ==
  /\ ~hidden
  /\ hidden' = TRUE
  /\ UNCHANGED <<srv, view, data, full, loaded, hasLoaded, queued, lastError, req, shown, own, notices, told, floor, fails>>

Show ==
  /\ hidden
  /\ hidden' = FALSE
  /\ req' = RefreshOperationalData(FALSE)
  /\ UNCHANGED <<srv, view, data, full, loaded, hasLoaded, queued, lastError, shown,
                 own, notices, told, floor, fails>>

-----------------------------------------------------------------------------
(* Changes on the server: by the user of this tab, by another tab of the   *)
(* same browser, by the recorder or another device.                        *)

CanWrite == \A l \in Lists : srv[l] < MaxWrites

\* runAction, once confirmed: the request is sent and the server carries it out ...
OwnWrites ==
  /\ ~hidden
  /\ own = 0
  /\ CanWrite
  /\ srv' = [srv EXCEPT !["op"] = @ + 1]
  /\ own' = srv'["op"]
  /\ UNCHANGED <<view, hidden, data, full, loaded, hasLoaded, queued, lastError, req,
                 shown, notices, told, floor, fails>>

\* ... and its answer calls for a refresh.
OwnAnswers ==
  /\ own > 0
  /\ own' = 0
  /\ told' = IF own > told THEN own ELSE told
  /\ CallRefresh
  /\ UNCHANGED <<srv, view, hidden, data, full, loaded, hasLoaded, shown,
                 notices, floor, fails>>

\* Refused, or carried out and not answered in time: an error, no refresh.
OwnFails ==
  /\ ~hidden \/ own > 0
  /\ Fail
  /\ own' = 0
  /\ lastError' = TRUE
  /\ UNCHANGED <<srv, view, hidden, data, full, loaded, hasLoaded, queued, req, shown, notices, told, floor>>

\* Another tab's action has been answered there: publishRealtime sends the
\* notice twice, over the BroadcastChannel and by a storage event.
OtherTabWrites ==
  /\ CanWrite
  /\ srv' = [srv EXCEPT !["op"] = @ + 1]
  /\ notices' = Append(Append(notices, srv'["op"]), srv'["op"])
  /\ UNCHANGED <<view, hidden, data, full, loaded, hasLoaded, queued, lastError, req, shown, own, told, floor, fails>>

\* subscribeRealtimeRefresh: also while the page is hidden.
Notice ==
  /\ notices # <<>>
  /\ notices' = Tail(notices)
  /\ told' = IF Head(notices) > told THEN Head(notices) ELSE told
  /\ CallRefresh
  /\ UNCHANGED <<srv, view, hidden, data, full, loaded, hasLoaded, shown,
                 own, floor, fails>>

RemoteWrites(l) ==
  /\ CanWrite
  /\ srv' = [srv EXCEPT ![l] = @ + 1]
  /\ UNCHANGED <<view, hidden, data, full, loaded, hasLoaded, queued, lastError, req, shown, own, notices, told, floor, fails>>

-----------------------------------------------------------------------------

Next ==
  \/ RefreshAnswers \/ RefreshFails \/ PressRefresh
  \/ \E v \in Views : SetView(v)
  \/ \E v \in LoadViews : LoadAnswers(v) \/ LoadFails(v)
  \/ OperationalTick \/ OperationalAnswers \/ OperationalFails
  \/ Hide \/ Show
  \/ OwnWrites \/ OwnAnswers \/ OwnFails
  \/ OtherTabWrites \/ Notice
  \/ \E l \in Lists : RemoteWrites(l)

\* Requests are answered or fail (fetchWithTimeout), the timer's ticks
\* arrive; nothing is assumed of the notices, the user and the other writers.
\* It is the weak fairness of each action, with its ENABLED written out, which
\* TLC would otherwise search for at every step: an answer is enabled, and
\* changes req, as long as its request is in flight; a tick changes req or
\* nothing.
Fairness ==
  /\ []<>(req["refresh"] = None) \/ []<><<RefreshAnswers>>_vars
  /\ []<>(req["operational"] = None) \/ []<><<OperationalAnswers>>_vars
  /\ []<>(RefreshOperationalData(hidden) = req) \/ []<><<OperationalTick>>_vars
  /\ \/ []<>(\A v \in LoadViews : req[v] = None)
     \/ []<><<\E v \in LoadViews : LoadAnswers(v)>>_vars

Spec == Init /\ [][Next]_vars /\ Fairness

-----------------------------------------------------------------------------
(* Properties.                                                             *)

\* Type invariant; nothing is held, shown or told of that the server has not
\* had.
TypeOK ==
  /\ srv \in [Lists -> 0 .. MaxWrites]
  /\ view \in Views
  /\ {hidden, full, hasLoaded, queued, lastError} \subseteq BOOLEAN
  /\ data \in [Lists -> 0 .. MaxWrites] /\ \A l \in Lists : data[l] <= srv[l]
  /\ floor \in [Lists -> 0 .. MaxWrites] /\ \A l \in Lists : floor[l] <= srv[l]
  /\ loaded \subseteq ProgramPaths
  /\ req \in [Slots -> Requests \cup {None}]
  /\ {shown, own, told} \subseteq 0 .. srv["op"]
  /\ notices \in Seq(1 .. MaxWrites)
  /\ fails \in 0 .. MaxFails

\* No list goes back behind the last refresh that was shown: an answer older
\* than it, of a view's load or of the 30 seconds' refresh, is dropped, in
\* whatever order the answers arrive.
NoStepBack == \A l \in Lists : data[l] >= floor[l]

\* A refresh waits only behind one that runs, whose end starts it.
QueuedBehindRefresh == queued => req["refresh"] # None

\* The types, the lists never behind what was shown, and every queued refresh
\* behind one that runs.
ListsInOrder == TypeOK /\ NoStepBack /\ QueuedBehindRefresh

\* A change this tab has made or been told of is fetched, or an error shown:
\* a notice that comes while a refresh runs, which may have read before the
\* change, is not lost in it.
ToldIsFetched == \A n \in 1 .. MaxWrites :
  (told >= n /\ req["refresh"] # None) ~> (data["op"] >= n \/ lastError)

\* Who opens the recordings gets all of them, although the dashboard and the
\* refreshes begun for it put the latest eight into the same list.
RecordedFillsUp == (view = "recorded" /\ hasLoaded) ~> (full \/ view # "recorded" \/ hidden)

Watching == ~hidden /\ view \in Operational

\* What changes on the server is shown to who keeps watching a view with
\* operational lists: no failed, dropped or overtaken answer stops the timer's
\* refreshes for good.
WatcherCatchesUp == \A n \in 1 .. MaxWrites :
  (srv["op"] >= n /\ hasLoaded /\ Watching) ~> (shown >= n \/ ~Watching)

=============================================================================
