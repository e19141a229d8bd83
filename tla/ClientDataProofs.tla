-------------------------- MODULE ClientDataProofs --------------------------
(***************************************************************************)
(* The lists of one tab for every set of views and every number of changes *)
(* and failures: the type invariant, that no list goes back behind the     *)
(* last refresh shown, and that no queued refresh is forgotten.            *)
(***************************************************************************)
EXTENDS ClientData, TLAPS

\* The requests rq, with fl for floor.  Nobody has read in advance, and what
\* the answer to a fresh request brings is neither behind the last refresh
\* shown nor behind the one in flight: it was sent after both.
InOrder(rq, fl) ==
  /\ rq \in [Slots -> Requests \cup {None}]
  /\ \A s \in Slots : rq[s] # None => \A l \in Lists : rq[s].since[l] <= srv[l]
  /\ \A s \in Slots \ {"refresh"} : rq[s] # None /\ rq[s].fresh =>
       \A l \in Lists : Fetches(rq[s], l) =>
         /\ rq[s].since[l] >= fl[l]
         /\ rq["refresh"] # None /\ Fetches(rq["refresh"], l) =>
              rq[s].since[l] >= rq["refresh"].since[l]

\* A notice tells of a change there has been.
NoticesKnown == \A i \in DOMAIN notices : notices[i] <= srv["op"]

ClientInvariant == ListsInOrder /\ InOrder(req, floor) /\ NoticesKnown

-----------------------------------------------------------------------------
(* The requests.                                                           *)

Versions == [Lists -> 0 .. MaxWrites]
PathSets == SUBSET (ProgramPaths \cup {"op"})

LEMMA SlotFacts ==
  /\ "op" \in Lists
  /\ LoadViews \subseteq Views
  /\ "refresh" \in Slots /\ "operational" \in Slots /\ LoadViews \subseteq Slots
  /\ "refresh" # "operational"
  /\ \A v \in Views : v # "refresh" /\ v # "operational"
  /\ None \notin Requests
<1>1. "refresh" \notin AllViews /\ "operational" \notin AllViews
  BY DEF AllViews
<1> QED
  BY <1>1, ViewsAssumption, NoRequestAssumption DEF Lists, LoadViews, Slots

LEMMA ProgramPathsOf ==
  \A v : programDataPathsForView(v) \subseteq ProgramPaths
BY DEF programDataPathsForView, ProgramPaths

\* A request remembers what there is when it is sent.
LEMMA SendIs ==
  ASSUME NEW v \in Views, NEW paths \in PathSets, srv \in Versions
  PROVE  LET q == Send(v, paths)
         IN  /\ q \in Requests /\ q # None
             /\ q.fresh /\ q.view = v /\ q.paths = paths
             /\ \A l \in Lists : /\ q.since[l] <= srv[l]
                                 /\ Fetches(q, l) => q.since[l] = srv[l]
<1> DEFINE since == [l \in Lists |-> IF \E p \in paths : ListOf[p] = l THEN srv[l] ELSE 0]
           q == Send(v, paths)
<1>1. since \in Versions
  BY BoundsAssumption DEF Versions
<1>2. \A l \in Lists : /\ since[l] <= srv[l]
                       /\ (\E p \in paths : ListOf[p] = l) => since[l] = srv[l]
  BY DEF Versions
<1>3. q = [view |-> v, paths |-> paths, fresh |-> TRUE, since |-> since]
  BY DEF Send
<1> HIDE DEF since
<1>4. q \in Requests /\ q.fresh /\ q.view = v /\ q.paths = paths /\ q.since = since
  BY <1>1, <1>3 DEF Requests, PathSets, Versions
<1> HIDE DEF q
<1> QED
  BY <1>2, <1>4, SlotFacts DEF Fetches, q

LEMMA RequestFields ==
  ASSUME NEW q \in Requests
  PROVE  /\ q.view \in Views /\ q.paths \in PathSets /\ q.fresh \in BOOLEAN
         /\ q.since \in Versions
         /\ [q EXCEPT !.fresh = FALSE] \in Requests
         /\ ~[q EXCEPT !.fresh = FALSE].fresh
         /\ [q EXCEPT !.fresh = FALSE].since = q.since
         /\ [q EXCEPT !.fresh = FALSE].paths = q.paths
BY DEF Requests, PathSets, Versions

\* A request ends.
LEMMA EndKeepsOrder ==
  ASSUME NEW rq, NEW fl, InOrder(rq, fl), NEW s \in Slots
  PROVE  InOrder([rq EXCEPT ![s] = None], fl)
<1> DEFINE new == [rq EXCEPT ![s] = None]
<1>1. new \in [Slots -> Requests \cup {None}] /\ new[s] = None
      /\ \A x \in Slots : x # s => new[x] = rq[x]
  BY DEF InOrder
<1> HIDE DEF new
<1>2. InOrder(new, fl)
  BY <1>1, SlotFacts DEF InOrder
<1> QED BY <1>2 DEF new

\* A request other than the refresh is sent.
LEMMA SendKeepsOrder ==
  ASSUME NEW rq, NEW fl \in Versions, InOrder(rq, fl), srv \in Versions,
         \A l \in Lists : fl[l] <= srv[l],
         NEW s \in Slots \ {"refresh"}, NEW v \in Views, NEW paths \in PathSets
  PROVE  InOrder([rq EXCEPT ![s] = Send(v, paths)], fl)
<1> DEFINE q == Send(v, paths)
           new == [rq EXCEPT ![s] = q]
<1>1. /\ q \in Requests
      /\ \A l \in Lists : /\ q.since[l] <= srv[l]
                          /\ Fetches(q, l) => q.since[l] = srv[l]
  BY SendIs
<1> HIDE DEF q
<1>2. /\ new \in [Slots -> Requests \cup {None}] /\ new[s] = q
      /\ \A x \in Slots : x # s => new[x] = rq[x]
  BY <1>1 DEF InOrder
<1> HIDE DEF new
<1>3. \A x \in Slots : new[x] # None => \A l \in Lists : new[x].since[l] <= srv[l]
  BY <1>1, <1>2 DEF InOrder
<1>4. ASSUME NEW x \in Slots \ {"refresh"}, new[x] # None, new[x].fresh,
             NEW l \in Lists, Fetches(new[x], l)
      PROVE  /\ new[x].since[l] >= fl[l]
             /\ new["refresh"] # None /\ Fetches(new["refresh"], l) =>
                  new[x].since[l] >= new["refresh"].since[l]
  <2>1. new["refresh"] = rq["refresh"]
    BY <1>2, SlotFacts
  <2>2. CASE x # s
    BY <2>1, <2>2, <1>2, <1>4 DEF InOrder
  <2>3. CASE x = s
    <3>1. srv[l] \in Nat /\ fl[l] \in Nat /\ fl[l] <= srv[l]
      BY DEF Versions
    <3>2. rq["refresh"] # None =>
            rq["refresh"].since[l] <= srv[l] /\ rq["refresh"].since[l] \in Nat
      <4> SUFFICES ASSUME rq["refresh"] # None
                   PROVE  rq["refresh"].since[l] <= srv[l] /\ rq["refresh"].since[l] \in Nat
        OBVIOUS
      <4>1. rq["refresh"] \in Requests /\ rq["refresh"].since[l] <= srv[l]
        BY SlotFacts DEF InOrder
      <4>2. rq["refresh"].since \in Versions
        BY <4>1, RequestFields
      <4> QED
        BY <4>1, <4>2 DEF Versions
    <3>3. new[x].since[l] = srv[l]
      BY <2>3, <1>1, <1>2, <1>4
    <3> QED
      BY <2>1, <3>1, <3>2, <3>3
  <2> QED BY <2>2, <2>3
<1>5. InOrder(new, fl)
  BY <1>2, <1>3, <1>4 DEF InOrder
<1> QED BY <1>5 DEF new, q

\* loadProgramDataForView: a load is sent, or none.
LEMMA LoadKeepsOrder ==
  ASSUME NEW rq, NEW fl \in Versions, InOrder(rq, fl), srv \in Versions,
         \A l \in Lists : fl[l] <= srv[l],
         NEW v \in LoadViews, NEW force, NEW ld
  PROVE  /\ InOrder(loadProgramDataForView(v, force, ld, rq), fl)
         /\ loadProgramDataForView(v, force, ld, rq)["refresh"] = rq["refresh"]
<1> DEFINE paths == {p \in programDataPathsForView(v) : force \/ p \notin ld}
<1>1. /\ v \in Slots \ {"refresh"} /\ v \in Views /\ v # "refresh" /\ "refresh" \in Slots
      /\ paths \in PathSets
  BY SlotFacts, ProgramPathsOf DEF PathSets
<1>2. \/ loadProgramDataForView(v, force, ld, rq) = rq
      \/ loadProgramDataForView(v, force, ld, rq) = [rq EXCEPT ![v] = Send(v, paths)]
  BY DEF loadProgramDataForView
<1> HIDE DEF paths
<1>3. InOrder([rq EXCEPT ![v] = Send(v, paths)], fl)
  BY <1>1, SendKeepsOrder
<1>4. [rq EXCEPT ![v] = Send(v, paths)]["refresh"] = rq["refresh"]
  BY <1>1 DEF InOrder
<1> QED
  BY <1>2, <1>3, <1>4

\* A refresh begins: whatever else is in flight is fresh no longer.
LEMMA RefreshKeepsOrder ==
  ASSUME NEW rq, NEW fl, InOrder(rq, fl), srv \in Versions, NEW v \in Views
  PROVE  InOrder(StartRefresh(v, rq), fl) /\ StartRefresh(v, rq)["refresh"] # None
<1> DEFINE q == Send(v, {"op"} \cup programDataPathsForView(v))
           new == StartRefresh(v, rq)
<1>1. {"op"} \cup programDataPathsForView(v) \in PathSets
  BY ProgramPathsOf DEF PathSets
<1>2. q \in Requests /\ q # None /\ \A l \in Lists : q.since[l] <= srv[l]
  BY <1>1, SendIs
<1> HIDE DEF q
<1>3. new = [s \in Slots |-> IF s = "refresh" THEN q
                             ELSE IF rq[s] = None THEN None ELSE [rq[s] EXCEPT !.fresh = FALSE]]
  BY DEF StartRefresh, q
<1> HIDE DEF new
<1>4. \A s \in Slots : rq[s] # None => rq[s] \in Requests
  BY DEF InOrder
<1>5. new["refresh"] = q
  BY <1>3, SlotFacts
<1>6. ASSUME NEW s \in Slots, s # "refresh"
      PROVE  /\ rq[s] = None => new[s] = None
             /\ rq[s] # None => /\ new[s] \in Requests /\ ~new[s].fresh
                                /\ new[s].since = rq[s].since
  <2>1. new[s] = IF rq[s] = None THEN None ELSE [rq[s] EXCEPT !.fresh = FALSE]
    BY <1>3, <1>6
  <2> QED
    BY <2>1, <1>4, RequestFields
<1>7. new \in [Slots -> Requests \cup {None}]
  <2>1. \A s \in Slots : new[s] \in Requests \cup {None}
    BY <1>2, <1>5, <1>6
  <2>2. new = [s \in Slots |-> new[s]]
    BY <1>3
  <2> QED BY <2>1, <2>2
<1>8. InOrder(new, fl)
  BY <1>2, <1>5, <1>6, <1>7 DEF InOrder
<1> QED
  BY <1>2, <1>5, <1>8 DEF new

-----------------------------------------------------------------------------
(* The parts of handlers.                                                  *)

\* What the invariant says that the lemmas above ask for.
LEMMA Known ==
  ASSUME ClientInvariant
  PROVE  /\ TypeOK /\ InOrder(req, floor)
         /\ srv \in Versions /\ floor \in Versions /\ data \in Versions
         /\ view \in Views /\ loaded \subseteq ProgramPaths /\ fails \in 0 .. MaxFails
         /\ \A l \in Lists : floor[l] <= srv[l] /\ data[l] <= srv[l] /\ data[l] >= floor[l]
         /\ \A s \in Slots : req[s] # None => req[s] \in Requests
BY DEF ClientInvariant, ListsInOrder, TypeOK, NoStepBack, InOrder, Versions

\* What one answer brings: the lists it fetches no older than it was sent, the
\* others as they were.
LEMMA ApplyBrings ==
  ASSUME ClientInvariant, NEW q \in Requests, NEW got \in Readings(q), NEW air,
         ApplyProgramData(q, got, air)
  PROVE  /\ data' \in Versions
         /\ \A l \in Lists : /\ data'[l] <= srv[l]
                             /\ Fetches(q, l) => data'[l] >= q.since[l]
                             /\ ~Fetches(q, l) => data'[l] = data[l]
         /\ full' \in BOOLEAN
         /\ loaded' \subseteq ProgramPaths
<1>1. got \in Versions /\ \A l \in Lists : Fetches(q, l) => got[l] \in q.since[l] .. srv[l]
  BY DEF Readings, Versions
<1>2. /\ srv \in Versions /\ data \in Versions /\ q.since \in Versions
      /\ q.paths \in PathSets /\ loaded \subseteq ProgramPaths
      /\ \A l \in Lists : data[l] <= srv[l]
  BY Known, RequestFields
<1>3. data' = [l \in Lists |-> IF Fetches(q, l) THEN got[l] ELSE data[l]]
  BY DEF ApplyProgramData
<1>4. data' \in Versions
  BY <1>1, <1>2, <1>3 DEF Versions
<1>5. ASSUME NEW l \in Lists
      PROVE  /\ data'[l] <= srv[l]
             /\ Fetches(q, l) => data'[l] >= q.since[l]
             /\ ~Fetches(q, l) => data'[l] = data[l]
  <2>1. data'[l] = IF Fetches(q, l) THEN got[l] ELSE data[l]
    BY <1>3
  <2>2. srv[l] \in Nat /\ q.since[l] \in Nat /\ data[l] \in Nat
    BY <1>2 DEF Versions
  <2> QED
    BY <1>1, <1>2, <2>1, <2>2
<1>6. full' \in BOOLEAN
  <2>1. full \in BOOLEAN
    BY Known DEF TypeOK
  <2>2. ("recorded" \in q.paths) \in BOOLEAN
    OBVIOUS
  <2>3. full' = IF Fetches(q, "recorded") THEN "recorded" \in q.paths ELSE full
    BY DEF ApplyProgramData
  <2> QED BY <2>1, <2>2, <2>3, Zenon
<1>7. loaded' \subseteq ProgramPaths
  BY <1>2 DEF ApplyProgramData, PathsLoaded, PathSets
<1> QED
  BY <1>4, <1>5, <1>6, <1>7

LEMMA AirIsBounded ==
  ASSUME ClientInvariant, NEW q, NEW air \in AirAnswers(q), SpendAir(air)
  PROVE  fails' \in 0 .. MaxFails
<1>1. fails \in 0 .. MaxFails /\ MaxFails \in Nat
  BY Known, BoundsAssumption
<1>2. \/ air = TRUE
      \/ air = FALSE /\ fails < MaxFails
  BY DEF AirAnswers
<1>3. CASE air = TRUE
  BY <1>1, <1>3 DEF SpendAir
<1>4. CASE air = FALSE /\ fails < MaxFails
  BY <1>1, <1>4 DEF SpendAir
<1> QED
  BY <1>2, <1>3, <1>4

LEMMA FailIsBounded ==
  ASSUME ClientInvariant, Fail
  PROVE  fails' \in 0 .. MaxFails
BY Known, BoundsAssumption DEF Fail

\* What is rendered is what is held.
LEMMA RenderShows ==
  ASSUME ClientInvariant, UNCHANGED srv, NEW when, Render(when),
         data' \in Versions, \A l \in Lists : data'[l] <= srv[l]
  PROVE  shown' \in 0 .. srv'["op"]
<1>1. "op" \in Lists /\ shown \in 0 .. srv["op"] /\ srv["op"] \in Nat
  BY Known, SlotFacts DEF TypeOK, Versions
<1>2. data'["op"] \in 0 .. srv["op"]
  BY <1>1 DEF Versions
<1> QED
  BY <1>1, <1>2 DEF Render

\* refresh() queues only behind a refresh, and begins one only when none runs.
LEMMA CallRefreshKeeps ==
  ASSUME ClientInvariant, CallRefresh, UNCHANGED <<srv, floor>>
  PROVE  /\ InOrder(req, floor)' /\ QueuedBehindRefresh'
         /\ queued' \in BOOLEAN /\ lastError' \in BOOLEAN
<1>1. queued \in BOOLEAN /\ lastError \in BOOLEAN /\ InOrder(req, floor) /\ QueuedBehindRefresh
  BY Known DEF TypeOK, ClientInvariant, ListsInOrder
<1>2. CASE req["refresh"] # None
  <2>1. queued' = TRUE /\ req' = req /\ lastError' = lastError
    BY <1>2 DEF CallRefresh
  <2> QED
    BY <1>1, <1>2, <2>1 DEF InOrder, QueuedBehindRefresh
<1>3. CASE req["refresh"] = None
  <2>1. req' = StartRefresh(view, req) /\ lastError' = FALSE /\ queued' = queued
    BY <1>3 DEF CallRefresh
  <2>2. InOrder(req', floor) /\ req'["refresh"] # None
    BY <2>1, Known, RefreshKeepsOrder
  <2> QED
    BY <1>1, <2>1, <2>2 DEF InOrder, QueuedBehindRefresh
<1> QED BY <1>2, <1>3

\* After the end of a refresh, with the requests left in order, the next
\* handlers find them in order, and no refresh waits for one that is over.
LEMMA FinishKeeps ==
  ASSUME ClientInvariant, NEW q, NEW ld, NEW hasLd, NEW fl \in Versions,
         \A l \in Lists : fl[l] <= srv[l],
         InOrder([req EXCEPT !["refresh"] = None], fl),
         FinishRefresh(q, ld, hasLd), UNCHANGED srv
  PROVE  InOrder(req', fl) /\ queued' = FALSE /\ QueuedBehindRefresh'
<1> DEFINE idle == [req EXCEPT !["refresh"] = None]
           rq == IF hasLd /\ view \in LoadViews
                 THEN loadProgramDataForView(view, view # q.view, ld, idle) ELSE idle
<1>1. InOrder(idle, fl) /\ view \in Views /\ srv \in Versions
  BY Known
<1> HIDE DEF idle
<1>2. InOrder(rq, fl)
  BY <1>1, LoadKeepsOrder
<1>3. req' = IF queued THEN StartRefresh(view, rq) ELSE rq
  BY DEF FinishRefresh, idle
<1>4. queued' = FALSE
  BY DEF FinishRefresh
<1> HIDE DEF rq
<1>5. InOrder(req', fl)
  BY <1>1, <1>2, <1>3, RefreshKeepsOrder
<1> QED
  BY <1>4, <1>5 DEF QueuedBehindRefresh

\* The refresh is applied and over: what else is fresh was sent after it.
LEMMA RefreshEndsInOrder ==
  ASSUME ClientInvariant, req["refresh"] # None,
         floor' = [l \in Lists |-> IF Fetches(req["refresh"], l)
                                   THEN req["refresh"].since[l] ELSE floor[l]]
  PROVE  /\ InOrder([req EXCEPT !["refresh"] = None], floor')
         /\ floor' \in Versions
         /\ \A l \in Lists : floor'[l] <= srv[l]
<1> DEFINE q == req["refresh"]
           new == [req EXCEPT !["refresh"] = None]
<1>1. /\ q \in Requests /\ q.since \in Versions
      /\ \A l \in Lists : q.since[l] <= srv[l]
      /\ floor \in Versions /\ \A l \in Lists : floor[l] <= srv[l]
      /\ InOrder(req, floor)
  BY Known, RequestFields, SlotFacts DEF InOrder
<1>2. floor' \in Versions /\ \A l \in Lists : floor'[l] <= srv[l]
  BY <1>1 DEF Versions
<1>3. /\ new \in [Slots -> Requests \cup {None}] /\ new["refresh"] = None
      /\ \A s \in Slots : s # "refresh" => new[s] = req[s]
  BY <1>1, SlotFacts DEF InOrder
<1> HIDE DEF new
<1>4. \A s \in Slots : new[s] # None => \A l \in Lists : new[s].since[l] <= srv[l]
  BY <1>1, <1>3 DEF InOrder
<1>5. ASSUME NEW s \in Slots \ {"refresh"}, new[s] # None, new[s].fresh,
             NEW l \in Lists, Fetches(new[s], l)
      PROVE  new[s].since[l] >= floor'[l]
  <2>1. new[s] = req[s]
    BY <1>3
  <2>2. floor'[l] = IF Fetches(q, l) THEN q.since[l] ELSE floor[l]
    OBVIOUS
  <2> QED
    BY <1>1, <1>5, <2>1, <2>2 DEF InOrder
<1>6. InOrder(new, floor')
  BY <1>3, <1>4, <1>5 DEF InOrder
<1> QED
  BY <1>2, <1>6 DEF new

-----------------------------------------------------------------------------
(* The actions.                                                            *)

\* What a step has to show of itself.
Rest ==
  /\ view' \in Views
  /\ {hidden', hasLoaded', lastError', queued'} \subseteq BOOLEAN
  /\ fails' \in 0 .. MaxFails

LEMMA InvariantFrom ==
  ASSUME ClientInvariant, Rest, UNCHANGED <<srv, own, notices, told>>,
         full' \in BOOLEAN, loaded' \subseteq ProgramPaths, shown' \in 0 .. srv'["op"],
         data' \in Versions, floor' \in Versions,
         \A l \in Lists : data'[l] <= srv[l] /\ floor'[l] <= srv[l] /\ data'[l] >= floor'[l],
         InOrder(req', floor'), QueuedBehindRefresh'
  PROVE  ClientInvariant'
<1>1. {own', told'} \subseteq 0 .. srv'["op"] /\ notices' \in Seq(1 .. MaxWrites) /\ srv' \in Versions
  BY Known DEF TypeOK
<1>2. {hidden', full', hasLoaded', queued', lastError'} \subseteq BOOLEAN
  BY DEF Rest
<1>3. TypeOK'
  BY <1>1, <1>2 DEF Rest, TypeOK, InOrder, Versions
<1>4. NoStepBack'
  BY DEF NoStepBack
<1>5. InOrder(req, floor)'
  BY DEF InOrder
<1>6. NoticesKnown'
  BY DEF ClientInvariant, NoticesKnown
<1> QED
  BY <1>3, <1>4, <1>5, <1>6 DEF ClientInvariant, ListsInOrder

LEMMA RefreshAnswersKeeps ==
  ASSUME ClientInvariant, RefreshAnswers
  PROVE  ClientInvariant'
<1> DEFINE q == req["refresh"]
<1>1. q # None /\ q \in Requests /\ UNCHANGED <<srv, view, hidden, own, notices, told>>
      /\ hasLoaded' = TRUE /\ lastError' = FALSE
  BY Known, SlotFacts DEF RefreshAnswers
<1>2. PICK got \in Readings(q), air \in AirAnswers(q) :
        ApplyProgramData(q, got, air) /\ Render(TRUE) /\ SpendAir(air)
  BY DEF RefreshAnswers
<1>3. /\ data' \in Versions
      /\ \A l \in Lists : /\ data'[l] <= srv[l]
                          /\ Fetches(q, l) => data'[l] >= q.since[l]
                          /\ ~Fetches(q, l) => data'[l] = data[l]
      /\ full' \in BOOLEAN /\ loaded' \subseteq ProgramPaths
  BY <1>1, <1>2, ApplyBrings
<1>4. fails' \in 0 .. MaxFails /\ shown' \in 0 .. srv'["op"]
  BY <1>1, <1>2, <1>3, AirIsBounded, RenderShows
<1>5. floor' = [l \in Lists |-> IF Fetches(q, l) THEN q.since[l] ELSE floor[l]]
      /\ FinishRefresh(q, loaded', TRUE)
  BY DEF RefreshAnswers
<1>6. /\ InOrder([req EXCEPT !["refresh"] = None], floor')
      /\ floor' \in Versions /\ \A l \in Lists : floor'[l] <= srv[l]
  BY <1>1, <1>5, RefreshEndsInOrder
<1>7. \A l \in Lists : data'[l] >= floor'[l]
  BY <1>3, <1>5, Known
<1>8. InOrder(req', floor') /\ queued' = FALSE /\ QueuedBehindRefresh'
  BY <1>1, <1>5, <1>6, FinishKeeps
<1>9. Rest
  BY <1>1, <1>4, <1>8, Known DEF Rest, TypeOK
<1> QED
  BY <1>1, <1>3, <1>4, <1>6, <1>7, <1>8, <1>9, InvariantFrom

LEMMA RefreshFailsKeeps ==
  ASSUME ClientInvariant, RefreshFails
  PROVE  ClientInvariant'
<1> DEFINE q == req["refresh"]
<1>1. /\ UNCHANGED <<srv, view, hidden, data, full, loaded, hasLoaded, shown, own, notices, told, floor>>
      /\ fails' \in 0 .. MaxFails
      /\ FinishRefresh(q, loaded, hasLoaded)
  BY FailIsBounded DEF RefreshFails
<1>2. lastError' \in BOOLEAN
  BY DEF RefreshFails
<1>3. InOrder([req EXCEPT !["refresh"] = None], floor)
  BY Known, EndKeepsOrder, SlotFacts
<1>4. InOrder(req', floor) /\ queued' = FALSE /\ QueuedBehindRefresh'
  BY <1>1, <1>3, Known, FinishKeeps
<1>5. Rest
  BY <1>1, <1>2, <1>4, Known DEF Rest, TypeOK
<1> QED
  BY <1>1, <1>4, <1>5, Known, InvariantFrom DEF TypeOK

\* Everything that changes only the requests.
LEMMA RequestsKeep ==
  ASSUME ClientInvariant,
         UNCHANGED <<srv, data, full, loaded, floor, own, notices, told, queued>>,
         InOrder(req', floor), req'["refresh"] = req["refresh"], Rest,
         shown' \in 0 .. srv["op"]
  PROVE  ClientInvariant'
<1>1. QueuedBehindRefresh'
  BY DEF ClientInvariant, ListsInOrder, QueuedBehindRefresh
<1> QED
  BY <1>1, Known, InvariantFrom DEF TypeOK

LEMMA SetViewKeeps ==
  ASSUME ClientInvariant, NEW v \in Views, SetView(v)
  PROVE  ClientInvariant'
<1>1. /\ UNCHANGED <<srv, hidden, full, loaded, hasLoaded, queued, lastError, own, notices, told, floor, fails>>
      /\ view' = v /\ data' = data /\ Render(hasLoaded /\ v \in Operational)
      /\ req' = IF hasLoaded /\ v \in LoadViews
                THEN loadProgramDataForView(v, FALSE, loaded, req) ELSE req
  BY DEF SetView
<1>2. InOrder(req', floor) /\ req'["refresh"] = req["refresh"]
  <2>1. CASE hasLoaded /\ v \in LoadViews
    <3>1. req' = loadProgramDataForView(v, FALSE, loaded, req)
      BY <1>1, <2>1
    <3>2. /\ InOrder(req, floor) /\ floor \in Versions /\ srv \in Versions
          /\ \A l \in Lists : floor[l] <= srv[l]
      BY Known
    <3>3. /\ InOrder(loadProgramDataForView(v, FALSE, loaded, req), floor)
          /\ loadProgramDataForView(v, FALSE, loaded, req)["refresh"] = req["refresh"]
      BY <2>1, <3>2, LoadKeepsOrder
    <3> QED BY <3>1, <3>3
  <2>2. CASE ~(hasLoaded /\ v \in LoadViews)
    BY <1>1, <2>2, Known
  <2> QED BY <2>1, <2>2
<1>3. shown' \in 0 .. srv["op"]
  BY <1>1, Known, RenderShows
<1>4. Rest
  BY <1>1, Known DEF Rest, TypeOK
<1> QED
  BY <1>1, <1>2, <1>3, <1>4, RequestsKeep

\* An answer other than the refresh's, in slot s, applied or dropped.
LEMMA AnswerKeeps ==
  ASSUME ClientInvariant, NEW s \in Slots \ {"refresh"}, req[s] # None,
         req' = [req EXCEPT ![s] = None],
         NEW when,
         IF Applies(req[s])
         THEN /\ \E got \in Readings(req[s]), air \in AirAnswers(req[s]) :
                   ApplyProgramData(req[s], got, air) /\ SpendAir(air)
              /\ lastError' = FALSE
              /\ Render(when)
         ELSE UNCHANGED <<data, full, loaded, lastError, shown, fails>>,
         UNCHANGED <<srv, view, hidden, hasLoaded, queued, own, notices, told, floor>>
  PROVE  ClientInvariant'
<1> DEFINE q == req[s]
<1>1. q \in Requests
  BY Known
<1>2. InOrder(req', floor)
  BY Known, EndKeepsOrder
<1>3. req'["refresh"] = req["refresh"]
  BY SlotFacts, Known DEF TypeOK
<1>4. CASE ~Applies(q)
  <2>1. UNCHANGED <<data, full, loaded, lastError, shown, fails>>
    BY <1>4
  <2>2. Rest
    BY <2>1, Known DEF Rest, TypeOK
  <2> QED
    BY <1>2, <1>3, <2>1, <2>2, Known, RequestsKeep DEF TypeOK
<1>5. CASE Applies(q)
  <2>1. PICK got \in Readings(q), air \in AirAnswers(q) :
          ApplyProgramData(q, got, air) /\ SpendAir(air)
    BY <1>5
  <2>2. lastError' = FALSE /\ Render(when)
    BY <1>5
  <2>3. /\ data' \in Versions
        /\ \A l \in Lists : /\ data'[l] <= srv[l]
                            /\ Fetches(q, l) => data'[l] >= q.since[l]
                            /\ ~Fetches(q, l) => data'[l] = data[l]
        /\ full' \in BOOLEAN /\ loaded' \subseteq ProgramPaths
    BY <1>1, <2>1, ApplyBrings
  <2>4. fails' \in 0 .. MaxFails /\ shown' \in 0 .. srv'["op"]
    BY <2>1, <2>2, <2>3, AirIsBounded, RenderShows
  <2>5. ASSUME NEW l \in Lists PROVE data'[l] >= floor[l]
    <3>1. CASE ~Fetches(q, l)
      BY <3>1, <2>3, Known
    <3>2. CASE Fetches(q, l)
      <4>1. q.since[l] >= floor[l]
        BY <1>5, <3>2, Known DEF InOrder, Applies
      <4>2. q.since \in Versions /\ floor \in Versions
        BY <1>1, RequestFields, Known
      <4>3. q.since[l] \in Nat /\ floor[l] \in Nat /\ data'[l] \in Nat
        BY <4>2, <2>3 DEF Versions
      <4> QED BY <3>2, <4>1, <4>3, <2>3
    <3> QED BY <3>1, <3>2
  <2>6. Rest
    BY <2>2, <2>4, Known DEF Rest, TypeOK
  <2>7. QueuedBehindRefresh'
    BY <1>3 DEF ClientInvariant, ListsInOrder, QueuedBehindRefresh
  <2> QED
    BY <1>2, <2>3, <2>4, <2>5, <2>6, <2>7, Known, InvariantFrom
<1> QED BY <1>4, <1>5

LEMMA AnswersKeep ==
  ASSUME ClientInvariant, OperationalAnswers \/ \E v \in LoadViews : LoadAnswers(v)
  PROVE  ClientInvariant'
<1>1. CASE OperationalAnswers
  <2>1. "operational" \in Slots \ {"refresh"}
    BY SlotFacts
  <2> QED
    BY <1>1, <2>1, AnswerKeeps DEF OperationalAnswers, OperationalOver
<1>2. ASSUME NEW v \in LoadViews, LoadAnswers(v) PROVE ClientInvariant'
  <2>1. v \in Slots \ {"refresh"}
    BY SlotFacts
  <2> QED
    BY <1>2, <2>1, AnswerKeeps DEF LoadAnswers
<1> QED BY <1>1, <1>2

\* A request that fails, and the timers and events that send one or none.
LEMMA OthersKeep ==
  ASSUME ClientInvariant,
         \/ OperationalFails \/ OperationalTick \/ Show \/ Hide
         \/ \E v \in LoadViews : LoadFails(v)
  PROVE  ClientInvariant'
<1>1. UNCHANGED <<srv, data, full, loaded, floor, own, notices, told, queued, view, hasLoaded, shown>>
  BY DEF OperationalFails, OperationalTick, Show, Hide, LoadFails
<1>2. InOrder(req', floor) /\ req'["refresh"] = req["refresh"]
  <2>1. CASE OperationalFails \/ \E v \in LoadViews : LoadFails(v)
    <3>1. PICK s \in Slots \ {"refresh"} : req' = [req EXCEPT ![s] = None]
      BY <2>1, SlotFacts DEF OperationalFails, OperationalOver, LoadFails
    <3> QED
      <4>1. InOrder(req, floor) /\ req \in [Slots -> Requests \cup {None}]
        BY Known DEF TypeOK
      <4>2. InOrder([req EXCEPT ![s] = None], floor)
        BY <4>1, EndKeepsOrder
      <4>3. [req EXCEPT ![s] = None]["refresh"] = req["refresh"]
        BY <4>1, SlotFacts
      <4> QED
        BY <3>1, <4>2, <4>3
  <2>2. ASSUME NEW hid, req' = RefreshOperationalData(hid)
        PROVE  InOrder(req', floor) /\ req'["refresh"] = req["refresh"]
    <3>1. OperationalPaths(view) \in PathSets
      <4>1. programDataPathsForView(view) \subseteq ProgramPaths /\ "schedule/broadcasting" \in ProgramPaths
        BY ProgramPathsOf DEF ProgramPaths
      <4> QED
        BY <4>1 DEF OperationalPaths, PathSets
    <3>2. "operational" \in Slots \ {"refresh"}
      BY SlotFacts
    <3>3. InOrder([req EXCEPT !["operational"] = Send(view, OperationalPaths(view))], floor)
      BY <3>1, <3>2, Known, SendKeepsOrder
    <3>4. \/ req' = req
          \/ req' = [req EXCEPT !["operational"] = Send(view, OperationalPaths(view))]
      BY <2>2 DEF RefreshOperationalData
    <3>5. CASE req' = req
      BY <3>5, Known
    <3>6. CASE req' = [req EXCEPT !["operational"] = Send(view, OperationalPaths(view))]
      <4>1. req \in [Slots -> Requests \cup {None}]
        BY Known DEF TypeOK
      <4> QED
        BY <4>1, <3>2, <3>3, <3>6, SlotFacts
    <3> QED
      BY <3>4, <3>5, <3>6
  <2>3. CASE OperationalTick \/ Show
    BY <2>2, <2>3 DEF OperationalTick, Show
  <2>4. CASE Hide
    BY <2>4, Known DEF Hide
  <2> QED BY <2>1, <2>3, <2>4
<1>3. hidden' \in BOOLEAN /\ lastError' \in BOOLEAN /\ fails' \in 0 .. MaxFails
  BY Known, FailIsBounded DEF TypeOK, OperationalFails, OperationalTick, Show, Hide, LoadFails
<1>4. Rest
  BY <1>1, <1>3, Known DEF Rest, TypeOK
<1> QED
  BY <1>1, <1>2, <1>4, Known, RequestsKeep DEF TypeOK

\* The entries of a sequence.
LEMMA EntriesOf ==
  ASSUME NEW S, NEW q \in Seq(S)
  PROVE  /\ Len(q) \in Nat /\ DOMAIN q = 1 .. Len(q)
         /\ \A i \in DOMAIN q : q[i] \in S
OBVIOUS

\* What is left of a queue when its first entry is taken.
LEMMA TailIs ==
  ASSUME NEW S, NEW q \in Seq(S), q # <<>>
  PROVE  /\ Head(q) = q[1] /\ 1 \in DOMAIN q /\ Head(q) \in S
         /\ Tail(q) \in Seq(S)
         /\ \A i \in DOMAIN Tail(q) : i + 1 \in DOMAIN q /\ Tail(q)[i] = q[i + 1]
<1>1. Len(q) \in Nat /\ Len(q) # 0 /\ DOMAIN q = 1 .. Len(q)
  OBVIOUS
<1>2. Len(Tail(q)) = Len(q) - 1 /\ Tail(q) \in Seq(S)
  BY <1>1
<1>3. DOMAIN Tail(q) = 1 .. (Len(q) - 1)
  BY <1>2
<1>4. Head(q) = q[1] /\ Head(q) \in S
  BY <1>1
<1>5. \A i \in 1 .. (Len(q) - 1) : Tail(q)[i] = q[i + 1]
  BY <1>1
<1> QED
  BY <1>1, <1>2, <1>3, <1>4, <1>5

\* What the tab is told of, or its own action ends.
LEMMA ToldKeeps ==
  ASSUME ClientInvariant, PressRefresh \/ OwnAnswers \/ OwnFails \/ Notice
  PROVE  ClientInvariant'
<1>1. /\ srv["op"] \in Nat /\ own \in 0 .. srv["op"] /\ told \in 0 .. srv["op"]
      /\ notices \in Seq(1 .. MaxWrites) /\ NoticesKnown
  BY Known, SlotFacts DEF TypeOK, Versions, ClientInvariant
<1>2. UNCHANGED <<srv, view, hidden, data, full, loaded, hasLoaded, shown, floor>>
  BY DEF PressRefresh, OwnAnswers, OwnFails, Notice
<1>3. own' \in 0 .. srv["op"]
  BY <1>1 DEF PressRefresh, OwnAnswers, OwnFails, Notice
<1>4. /\ told' \in 0 .. srv["op"]
      /\ notices' \in Seq(1 .. MaxWrites) /\ NoticesKnown'
  <2>1. CASE PressRefresh \/ OwnAnswers \/ OwnFails
    <3>1. notices' = notices /\ told' \in 0 .. srv["op"]
      BY <2>1, <1>1 DEF PressRefresh, OwnAnswers, OwnFails
    <3> QED
      BY <3>1, <1>1, <1>2 DEF NoticesKnown
  <2>2. CASE Notice
    <3>1. /\ notices # <<>> /\ notices' = Tail(notices)
          /\ told' = IF Head(notices) > told THEN Head(notices) ELSE told
      BY <2>2 DEF Notice
    <3>2. /\ Head(notices) = notices[1] /\ 1 \in DOMAIN notices
          /\ Head(notices) \in 1 .. MaxWrites
          /\ notices' \in Seq(1 .. MaxWrites)
          /\ \A i \in DOMAIN notices' : i + 1 \in DOMAIN notices /\ notices'[i] = notices[i + 1]
      BY <1>1, <3>1, TailIs
    <3>3. Head(notices) <= srv["op"]
      BY <1>1, <3>2 DEF NoticesKnown
    <3>4. told' \in 0 .. srv["op"]
      BY <1>1, <3>1, <3>2, <3>3
    <3>5. NoticesKnown'
      BY <1>1, <1>2, <3>2 DEF NoticesKnown
    <3> QED BY <3>2, <3>4, <3>5
  <2> QED BY <2>1, <2>2
<1>5. /\ InOrder(req, floor)' /\ QueuedBehindRefresh'
      /\ queued' \in BOOLEAN /\ lastError' \in BOOLEAN
  <2>1. CASE OwnFails
    <3>1. req' = req /\ queued' = queued /\ lastError' = TRUE
      BY <2>1 DEF OwnFails
    <3> QED
      BY <3>1, <1>2, Known DEF InOrder, QueuedBehindRefresh, ClientInvariant, ListsInOrder, TypeOK
  <2>2. CASE PressRefresh \/ OwnAnswers \/ Notice
    BY <2>2, <1>2, CallRefreshKeeps DEF PressRefresh, OwnAnswers, Notice
  <2> QED BY <2>1, <2>2
<1>6. fails' \in 0 .. MaxFails
  BY Known, FailIsBounded DEF PressRefresh, OwnAnswers, OwnFails, Notice
<1>7. {own', told', shown'} \subseteq 0 .. srv'["op"]
      /\ {hidden', full', hasLoaded', queued', lastError'} \subseteq BOOLEAN
  BY <1>2, <1>3, <1>4, <1>5, Known DEF TypeOK
<1>8. TypeOK'
  BY <1>2, <1>4, <1>5, <1>6, <1>7, Known DEF TypeOK, InOrder
<1>9. NoStepBack'
  BY <1>2, Known DEF NoStepBack
<1> QED
  BY <1>4, <1>5, <1>8, <1>9 DEF ClientInvariant, ListsInOrder

\* A list changes on the server.
LEMMA WritesKeep ==
  ASSUME ClientInvariant, NEW l \in Lists, CanWrite, srv' = [srv EXCEPT ![l] = @ + 1],
         UNCHANGED <<view, hidden, data, full, loaded, hasLoaded, queued, lastError, req,
                     shown, told, floor, fails>>,
         own' \in 0 .. srv'["op"],
         \/ notices' = notices
         \/ l = "op" /\ notices' = Append(Append(notices, srv'["op"]), srv'["op"])
  PROVE  ClientInvariant'
<1>1. srv \in Versions /\ MaxWrites \in Nat /\ "op" \in Lists
  BY Known, BoundsAssumption, SlotFacts
<1>2. srv' \in Versions /\ \A k \in Lists : srv[k] <= srv'[k]
      /\ (l = "op" => srv'["op"] \in 1 .. MaxWrites)
  BY <1>1 DEF Versions, CanWrite
<1>3. \A k \in Lists : srv[k] \in Nat /\ srv'[k] \in Nat /\ data[k] \in Nat /\ floor[k] \in Nat
  BY <1>1, <1>2, Known DEF Versions
<1>4. \A k \in Lists : data[k] <= srv'[k] /\ floor[k] <= srv'[k] /\ data[k] >= floor[k]
  BY <1>2, <1>3, Known
<1>5. InOrder(req, floor)'
  <2>1. ASSUME NEW s \in Slots, req[s] # None, NEW k \in Lists
        PROVE  req[s].since[k] <= srv'[k]
    <3>1. req[s].since \in Versions /\ req[s].since[k] <= srv[k]
      BY <2>1, Known, RequestFields DEF InOrder
    <3>2. req[s].since[k] \in Nat
      BY <3>1 DEF Versions
    <3> QED BY <3>1, <3>2, <1>2, <1>3
  <2> QED
    BY <2>1, Known DEF InOrder
<1>6. notices \in Seq(1 .. MaxWrites) /\ NoticesKnown
  BY Known DEF TypeOK, ClientInvariant
<1>7. notices' \in Seq(1 .. MaxWrites) /\ NoticesKnown'
  <2>1. \A i \in DOMAIN notices : notices[i] <= srv'["op"]
    <3>1. \A i \in DOMAIN notices : notices[i] \in Nat /\ notices[i] <= srv["op"]
      <4>1. \A i \in DOMAIN notices : notices[i] \in 1 .. MaxWrites
        BY <1>6, EntriesOf
      <4> QED
        BY <1>1, <1>6, <4>1 DEF NoticesKnown
    <3> QED BY <3>1, <1>1, <1>2, <1>3
  <2>2. CASE notices' = notices
    BY <2>1, <2>2, <1>6 DEF NoticesKnown
  <2>3. CASE l = "op" /\ notices' = Append(Append(notices, srv'["op"]), srv'["op"])
    <3>1. /\ notices' \in Seq(1 .. MaxWrites)
          /\ \A i \in DOMAIN notices' : \/ notices'[i] = srv'["op"]
                                        \/ i \in DOMAIN notices /\ notices'[i] = notices[i]
      BY <2>3, <1>2, <1>6
    <3> QED
      BY <3>1, <2>1, <1>1, <1>3 DEF NoticesKnown
  <2> QED BY <2>2, <2>3
<1>8. shown \in 0 .. srv'["op"] /\ told \in 0 .. srv'["op"]
  <2>1. shown \in 0 .. srv["op"] /\ told \in 0 .. srv["op"]
    BY Known DEF TypeOK
  <2> QED BY <2>1, <1>1, <1>2, <1>3
<1>9. {own', told', shown'} \subseteq 0 .. srv'["op"]
      /\ {hidden', full', hasLoaded', queued', lastError'} \subseteq BOOLEAN
  BY <1>8, Known DEF TypeOK
<1>10. TypeOK'
  BY <1>2, <1>4, <1>7, <1>9, Known DEF TypeOK, Versions
<1>11. NoStepBack' /\ QueuedBehindRefresh'
  BY <1>4 DEF NoStepBack, QueuedBehindRefresh, ClientInvariant, ListsInOrder
<1> QED
  BY <1>5, <1>7, <1>10, <1>11 DEF ClientInvariant, ListsInOrder

LEMMA ServerKeeps ==
  ASSUME ClientInvariant, OwnWrites \/ OtherTabWrites \/ \E l \in Lists : RemoteWrites(l)
  PROVE  ClientInvariant'
<1>1. "op" \in Lists /\ srv \in Versions /\ own \in 0 .. srv["op"]
  BY Known, SlotFacts DEF TypeOK
<1>2. ASSUME NEW l \in Lists, srv' = [srv EXCEPT ![l] = @ + 1]
      PROVE  own \in 0 .. srv'["op"] /\ srv'["op"] \in 0 .. srv'["op"]
  BY <1>1, <1>2 DEF Versions
<1>3. CASE OwnWrites
  <2>1. own' \in 0 .. srv'["op"]
    BY <1>1, <1>2, <1>3 DEF OwnWrites
  <2> QED BY <1>1, <1>3, <2>1, WritesKeep DEF OwnWrites
<1>4. CASE OtherTabWrites
  BY <1>1, <1>2, <1>4, WritesKeep DEF OtherTabWrites
<1>5. ASSUME NEW l \in Lists, RemoteWrites(l) PROVE ClientInvariant'
  BY <1>1, <1>2, <1>5, WritesKeep DEF RemoteWrites
<1> QED BY <1>3, <1>4, <1>5

LEMMA ClientInit == Init => ClientInvariant
<1> SUFFICES ASSUME Init PROVE ClientInvariant
  OBVIOUS
<1> DEFINE q == Send(view, {"op"} \cup programDataPathsForView(view))
<1>1. srv \in Versions /\ \A l \in Lists : srv[l] = 0
  BY BoundsAssumption DEF Init, Versions
<1>2. {"op"} \cup programDataPathsForView(view) \in PathSets /\ view \in Views
  BY ProgramPathsOf DEF PathSets, Init
<1>3. q \in Requests /\ q # None /\ \A l \in Lists : q.since[l] <= srv[l]
  BY <1>1, <1>2, SendIs
<1>4. req = [s \in Slots |-> IF s = "refresh" THEN q ELSE None]
  BY DEF Init
<1> HIDE DEF q
<1>5. InOrder(req, floor) /\ req["refresh"] # None
  BY <1>3, <1>4, SlotFacts DEF InOrder
<1>6. TypeOK
  <2>1. data \in Versions /\ floor \in Versions /\ \A l \in Lists : data[l] <= srv[l] /\ floor[l] <= srv[l]
    BY <1>1, BoundsAssumption DEF Init, Versions
  <2>2. {hidden, full, hasLoaded, queued, lastError} \subseteq BOOLEAN
    BY DEF Init
  <2>3. {shown, own, told} \subseteq 0 .. srv["op"] /\ fails \in 0 .. MaxFails
    BY <1>1, BoundsAssumption, SlotFacts DEF Init
  <2>4. notices \in Seq(1 .. MaxWrites) /\ loaded \subseteq ProgramPaths
    BY DEF Init
  <2> QED
    BY <1>1, <1>2, <1>5, <2>1, <2>2, <2>3, <2>4 DEF TypeOK, InOrder, Versions
<1>7. NoStepBack /\ QueuedBehindRefresh /\ NoticesKnown
  BY DEF Init, NoStepBack, QueuedBehindRefresh, NoticesKnown
<1> QED
  BY <1>5, <1>6, <1>7 DEF ClientInvariant, ListsInOrder

LEMMA ClientStep ==
  ASSUME ClientInvariant, [Next]_vars
  PROVE  ClientInvariant'
<1>1. CASE UNCHANGED vars
  <2>1. UNCHANGED <<srv, view, hidden, data, full, loaded, hasLoaded, queued, lastError, req,
                    shown, own, notices, told, floor, fails>>
    BY <1>1 DEF vars
  <2>2. TypeOK' /\ NoStepBack' /\ QueuedBehindRefresh'
    BY <2>1, Known DEF TypeOK, NoStepBack, QueuedBehindRefresh, ClientInvariant, ListsInOrder
  <2>3. InOrder(req, floor)' /\ NoticesKnown'
    BY <2>1 DEF ClientInvariant, InOrder, NoticesKnown
  <2> QED BY <2>2, <2>3 DEF ClientInvariant, ListsInOrder
<1> QED
  BY <1>1, RefreshAnswersKeeps, RefreshFailsKeeps, SetViewKeeps, AnswersKeep, OthersKeep,
     ToldKeeps, ServerKeeps DEF Next

-----------------------------------------------------------------------------
\* Whatever order refreshes, loads and the timer's refreshes are sent and
\* answered in, no list goes back behind the last refresh shown, and a refresh
\* asked for while one runs waits only for that one (refresh, refreshVersion).
THEOREM ListsStayInOrder == Spec => []ListsInOrder
<1>1. ClientInvariant => ListsInOrder
  BY DEF ClientInvariant
<1> QED
  BY <1>1, ClientInit, ClientStep, PTL DEF Spec
=============================================================================
