------------------------------ MODULE HLSProofs ------------------------------
(***************************************************************************)
(* The HLS sessions for every set of ids, handlers and subjects and every  *)
(* limit: the type invariant, the two limits of the table, that no stream, *)
(* process or directory is left without an owner, and that no timer ends a *)
(* session somebody has just asked for.                                    *)
(***************************************************************************)
EXTENDS HLSSessions, FiniteSetTheorems, TLAPS

\* The table and the sessions say the same: a session is in the table, under
\* its id, exactly while it is listed.
TableOK ==
  /\ \A id \in Ids : table[id] # None => ses[table[id]].id = id /\ Listed(table[id])
  /\ \A s \in Sessions : Listed(s) => ses[s].id \in Ids /\ table[ses[s].id] = s

\* What a session's fields say of each other.
LifeOf(s) ==
  /\ ses[s].stage = "unborn" => ~ses[s].armed /\ ~ses[s].fired /\ ses[s].proc = "none"
  /\ ses[s].stage # "unborn" => ses[s].id \in Ids
  /\ ses[s].proc = "reaped" <=> Finished(s)

LivesOK == \A s \in Sessions : LifeOf(s)

\* A handler under way has an id.
HandlersOK == \A c \in Clients : client[c].at # "idle" => client[c].id \in Ids

HLSInvariant == TypeOK /\ TableOK /\ LivesOK /\ HandlersOK /\ NothingLeaks

-----------------------------------------------------------------------------
\* The bounds of the sets used below.
LEMMA SessionsAreNumbers ==
  /\ Sessions \subseteq Nat
  /\ None \notin Sessions
  /\ Clients \cap Sessions = {}
  /\ IsFiniteSet(Sessions)
<1>1. MaxStarts \in Nat
  BY NumbersAssumption
<1> QED
  BY <1>1, NumbersAssumption, FS_Interval DEF Sessions

\* What the types say of one id, one session and one handler.
LEMMA Fields ==
  ASSUME TypeOK
  PROVE  /\ \A id \in Ids : table[id] # None => table[id] \in Sessions
         /\ \A s \in Sessions :
              /\ ses[s] \in Session
              /\ ses[s].id \in Ids \cup {None}
              /\ ses[s].subject \in Subjects \cup {None}
              /\ ses[s].stage \in Stage
              /\ ses[s].idle \in BOOLEAN
              /\ ses[s].armed \in BOOLEAN
              /\ ses[s].fired \in BOOLEAN
              /\ ses[s].proc \in {"none", "running", "exited", "reaped"}
              /\ ses[s].done \in 0..1
         /\ \A c \in Clients :
              /\ client[c] \in Handler
              /\ client[c].at \in {"idle", "open", "start"}
              /\ client[c].id \in Ids \cup {None}
              /\ client[c].subject \in Subjects \cup {None}
BY DEF TypeOK, Session, Handler

-----------------------------------------------------------------------------
(* What the actions do to the table and the sessions.                      *)

\* A session stays a session whichever of its fields a step sets.
LEMMA FieldsSet ==
  ASSUME NEW r \in Session
  PROVE  /\ [r EXCEPT !.idle = TRUE] \in Session
         /\ [r EXCEPT !.idle = FALSE] \in Session
         /\ [r EXCEPT !.armed = TRUE] \in Session
         /\ [r EXCEPT !.armed = FALSE] \in Session
         /\ [r EXCEPT !.fired = TRUE] \in Session
         /\ [r EXCEPT !.fired = FALSE] \in Session
         /\ \A g \in Stage : [r EXCEPT !.stage = g] \in Session
         /\ [r EXCEPT !.proc = "exited"] \in Session
         /\ [r EXCEPT !.proc = "reaped"] \in Session
         /\ [r EXCEPT !.done = 1] \in Session
<1>1. /\ [r EXCEPT !.idle = TRUE] \in Session
      /\ [r EXCEPT !.idle = FALSE] \in Session
      /\ [r EXCEPT !.armed = TRUE] \in Session
      /\ [r EXCEPT !.armed = FALSE] \in Session
      /\ [r EXCEPT !.fired = TRUE] \in Session
      /\ [r EXCEPT !.fired = FALSE] \in Session
  BY DEF Session
<1>2. \A g \in Stage : [r EXCEPT !.stage = g] \in Session
  BY DEF Session
<1>3. [r EXCEPT !.proc = "exited"] \in Session /\ [r EXCEPT !.proc = "reaped"] \in Session
  BY DEF Session
<1>4. [r EXCEPT !.done = 1] \in Session
  BY DEF Session
<1> QED
  BY <1>1, <1>2, <1>3, <1>4

\* Nothing of a session's life changes but the flags of its timer, and a
\* session never started has none.
Flags == /\ ses' \in [Sessions -> Session]
         /\ \A s \in Sessions :
              /\ ses'[s].id = ses[s].id
              /\ ses'[s].subject = ses[s].subject
              /\ ses'[s].stage = ses[s].stage
              /\ ses'[s].proc = ses[s].proc
              /\ ses'[s].done = ses[s].done
              /\ ses[s].stage = "unborn" => ~ses'[s].armed /\ ~ses'[s].fired

\* Session t is taken out of the table, and goes on to stage g.
Leaves(t, g) ==
  /\ Listed(t)
  /\ table' = [table EXCEPT ![ses[t].id] = None]
  /\ ses' \in [Sessions -> Session]
  /\ \A s \in Sessions :
       /\ ses'[s].id = ses[s].id
       /\ ses'[s].subject = ses[s].subject
       /\ ses'[s].stage = IF s = t THEN g ELSE ses[s].stage
       /\ ses'[s].proc = ses[s].proc
       /\ ses'[s].done = ses[s].done
       /\ ses[s].stage = "unborn" => ~ses'[s].armed /\ ~ses'[s].fired

LEMMA UnbornHasNoTimer ==
  ASSUME HLSInvariant
  PROVE  \A s \in Sessions : ses[s].stage = "unborn" => ~ses[s].armed /\ ~ses[s].fired
BY DEF HLSInvariant, LivesOK, LifeOf

LEMMA TouchFlags ==
  ASSUME HLSInvariant, NEW t \in Sessions, Listed(t), Touch(t)
  PROVE  Flags
<1>1. ses \in [Sessions -> Session] /\ ses[t] \in Session
  BY DEF HLSInvariant, TypeOK
<1>2. ses' = [ses EXCEPT ![t] = [[ses[t] EXCEPT !.idle = FALSE] EXCEPT !.armed = TRUE]]
  BY <1>1 DEF Touch
<1>3. ses' \in [Sessions -> Session]
  BY <1>1, <1>2, FieldsSet
<1>4. \A s \in Sessions : s # t => ses'[s] = ses[s]
  BY <1>1, <1>2
<1>5. /\ ses'[t].id = ses[t].id
      /\ ses'[t].subject = ses[t].subject
      /\ ses'[t].stage = ses[t].stage
      /\ ses'[t].proc = ses[t].proc
      /\ ses'[t].done = ses[t].done
  BY <1>1, <1>2 DEF Session
<1>6. \A s \in Sessions : ses[s].stage = "unborn" => ~ses'[s].armed /\ ~ses'[s].fired
  BY <1>4, UnbornHasNoTimer DEF Listed
<1>7. \A s \in Sessions : /\ ses'[s].id = ses[s].id
                          /\ ses'[s].subject = ses[s].subject
                          /\ ses'[s].stage = ses[s].stage
                          /\ ses'[s].proc = ses[s].proc
                          /\ ses'[s].done = ses[s].done
  BY <1>4, <1>5
<1> QED
  BY <1>3, <1>6, <1>7 DEF Flags

LEMMA TakeOutLeaves ==
  ASSUME HLSInvariant, NEW t \in Sessions, Listed(t), TakeOut(t, FALSE)
  PROVE  Leaves(t, "cancel")
<1>1. ses \in [Sessions -> Session] /\ ses[t] \in Session
  BY DEF HLSInvariant, TypeOK
<1>2. ses' = [ses EXCEPT ![t] = [[ses[t] EXCEPT !.stage = "cancel"] EXCEPT !.armed = FALSE]]
  BY <1>1 DEF TakeOut
<1>3. ses' \in [Sessions -> Session]
  BY <1>1, <1>2, FieldsSet DEF Stage
<1>4. \A s \in Sessions : s # t => ses'[s] = ses[s]
  BY <1>1, <1>2
<1>5. /\ ses'[t].id = ses[t].id
      /\ ses'[t].subject = ses[t].subject
      /\ ses'[t].stage = "cancel"
      /\ ses'[t].proc = ses[t].proc
      /\ ses'[t].done = ses[t].done
  BY <1>1, <1>2 DEF Session
<1>6. \A s \in Sessions : ses[s].stage = "unborn" => ~ses'[s].armed /\ ~ses'[s].fired
  BY <1>4, UnbornHasNoTimer DEF Listed
<1>7. \A s \in Sessions : /\ ses'[s].id = ses[s].id
                          /\ ses'[s].subject = ses[s].subject
                          /\ ses'[s].stage = IF s = t THEN "cancel" ELSE ses[s].stage
                          /\ ses'[s].proc = ses[s].proc
                          /\ ses'[s].done = ses[s].done
  BY <1>4, <1>5
<1> QED
  BY <1>3, <1>6, <1>7 DEF Leaves, TakeOut

\* The expiry of one session's timer finds another under the id, or none.
LEMMA ExpireDoes ==
  ASSUME HLSInvariant, NEW s \in Sessions, Expire(s)
  PROVE  \/ UNCHANGED table /\ Flags
         \/ \E t \in Sessions : ses[t].idle /\ Leaves(t, "cancel")
<1> DEFINE t == table[ses[s].id]
           fired == [ses EXCEPT ![s].fired = FALSE]
<1>1. ses \in [Sessions -> Session] /\ ses[s] \in Session
  BY DEF HLSInvariant, TypeOK
<1>2. ses[s].stage # "unborn" /\ ses[s].id \in Ids
  BY DEF HLSInvariant, LivesOK, LifeOf, Expire
<1>3. fired = [ses EXCEPT ![s] = [ses[s] EXCEPT !.fired = FALSE]]
  BY <1>1
<1>4. fired \in [Sessions -> Session]
  BY <1>1, <1>3, FieldsSet
<1>5. \A x \in Sessions : /\ fired[x].id = ses[x].id
                          /\ fired[x].subject = ses[x].subject
                          /\ fired[x].stage = ses[x].stage
                          /\ fired[x].proc = ses[x].proc
                          /\ fired[x].done = ses[x].done
                          /\ ses[x].stage = "unborn" => ~fired[x].armed /\ ~fired[x].fired
  <2>1. \A x \in Sessions : x # s => fired[x] = ses[x]
    BY <1>1, <1>3
  <2>2. /\ fired[s].id = ses[s].id
        /\ fired[s].subject = ses[s].subject
        /\ fired[s].stage = ses[s].stage
        /\ fired[s].proc = ses[s].proc
        /\ fired[s].done = ses[s].done
    BY <1>1, <1>3 DEF Session
  <2>3. \A x \in Sessions : ses[x].stage = "unborn" => ~fired[x].armed /\ ~fired[x].fired
    BY <2>1, <1>2, UnbornHasNoTimer
  <2> HIDE DEF fired
  <2> QED
    BY <2>1, <2>2, <2>3
<1> HIDE DEF fired
<1>6. CASE t = None /\ ses' = fired /\ UNCHANGED table
  BY <1>6, <1>4, <1>5 DEF Flags
<1>7. CASE t # None /\ ~ses[t].idle /\ ses' = [fired EXCEPT ![t].armed = TRUE] /\ UNCHANGED table
  <2>1. t \in Sessions /\ Listed(t) /\ fired[t] \in Session
    BY <1>7, <1>2, <1>4, Fields DEF HLSInvariant, TableOK
  <2>2. ses' = [fired EXCEPT ![t] = [fired[t] EXCEPT !.armed = TRUE]]
    BY <1>7, <1>4, <2>1
  <2>3. ses' \in [Sessions -> Session]
    BY <1>4, <2>1, <2>2, FieldsSet
  <2>4. \A x \in Sessions : x # t => ses'[x] = fired[x]
    BY <1>4, <2>2
  <2>5. /\ ses'[t].id = fired[t].id
        /\ ses'[t].subject = fired[t].subject
        /\ ses'[t].stage = fired[t].stage
        /\ ses'[t].proc = fired[t].proc
        /\ ses'[t].done = fired[t].done
    BY <1>4, <2>1, <2>2 DEF Session
  <2> HIDE DEF t
  <2>6. Flags
    BY <1>5, <2>1, <2>3, <2>4, <2>5 DEF Flags, Listed
  <2> QED BY <1>7, <2>6
<1>8. CASE t # None /\ ses[t].idle /\ table' = [table EXCEPT ![ses[t].id] = None]
           /\ ses' = [fired EXCEPT ![t].stage = "cancel"]
  <2>1. t \in Sessions /\ Listed(t) /\ fired[t] \in Session
    BY <1>8, <1>2, <1>4, Fields DEF HLSInvariant, TableOK
  <2>2. ses' = [fired EXCEPT ![t] = [fired[t] EXCEPT !.stage = "cancel"]]
    BY <1>8, <1>4, <2>1
  <2>3. ses' \in [Sessions -> Session]
    BY <1>4, <2>1, <2>2, FieldsSet DEF Stage
  <2>4. \A x \in Sessions : x # t => ses'[x] = fired[x]
    BY <1>4, <2>2
  <2>5. /\ ses'[t].id = fired[t].id
        /\ ses'[t].subject = fired[t].subject
        /\ ses'[t].stage = "cancel"
        /\ ses'[t].proc = fired[t].proc
        /\ ses'[t].done = fired[t].done
    BY <1>4, <2>1, <2>2 DEF Session
  <2>6. ses[t].idle /\ table' = [table EXCEPT ![ses[t].id] = None]
    BY <1>8
  <2> HIDE DEF t
  <2>7. Leaves(t, "cancel")
    BY <1>5, <2>1, <2>3, <2>4, <2>5, <2>6 DEF Leaves, Listed
  <2> QED BY <2>1, <2>6, <2>7
<1> QED
  BY <1>6, <1>7, <1>8 DEF Expire, fired
-----------------------------------------------------------------------------
(* What they leave of the invariant.                                       *)

\* The handlers: who has a stream is about to start.
HandlersMove ==
  /\ client' \in [Clients -> Handler]
  /\ HandlersOK'
  /\ \A c \in open' \cap Clients : client'[c].at = "start"

SessionsInvariant == TableOK /\ LivesOK /\ NothingLeaks

LEMMA FlagsKeep ==
  ASSUME HLSInvariant, Flags, HandlersMove, UNCHANGED table,
         faults' \in 0..MaxFaults, faults' <= faults,
         open' \cap Sessions \subseteq open,
         dirs' = dirs \/ faults' < faults
  PROVE  SessionsInvariant'
<1>1. TableOK'
  BY Fields DEF HLSInvariant, Flags, TableOK, Listed
<1>2. LivesOK'
  BY DEF HLSInvariant, Flags, LivesOK, LifeOf, Finished
<1>3. StreamsHeld'
  BY DEF HLSInvariant, Flags, NothingLeaks, StreamsHeld, HandlersMove, Finished
<1>4. EncodersOwned'
  BY DEF HLSInvariant, Flags, NothingLeaks, EncodersOwned
<1>5. DirsOwned'
  <2>1. faults \in 0..MaxFaults /\ MaxFaults \in Nat
    BY NumbersAssumption DEF HLSInvariant, TypeOK
  <2>2. CASE faults' < faults
    BY <2>1, <2>2 DEF DirsOwned
  <2>3. CASE dirs' = dirs /\ ~(faults' < faults)
    <3>1. faults' = faults
      BY <2>1, <2>3
    <3> QED
      BY <2>3, <3>1 DEF HLSInvariant, NothingLeaks, DirsOwned, Flags
  <2> QED BY <2>2, <2>3
<1> QED
  BY <1>1, <1>2, <1>3, <1>4, <1>5 DEF SessionsInvariant, NothingLeaks

\* A session that leaves the table was under its id, and no other is.
LEMMA LeavesTable ==
  ASSUME HLSInvariant, NEW t \in Sessions, NEW g \in Stage \ {"listed", "unborn"}, Leaves(t, g)
  PROVE  /\ TableOK' /\ LivesOK'
         /\ ses[t].id \in Ids /\ table[ses[t].id] = t
         /\ table' \in [Ids -> Sessions \cup {None}]
         /\ table'[ses[t].id] = None
         /\ \A id \in Ids : id # ses[t].id => table'[id] = table[id]
<1>1. ses[t].id \in Ids /\ table[ses[t].id] = t
  BY DEF HLSInvariant, TableOK, Leaves
<1>2. /\ table \in [Ids -> Sessions \cup {None}]
      /\ table' \in [Ids -> Sessions \cup {None}]
      /\ table'[ses[t].id] = None
      /\ \A id \in Ids : id # ses[t].id => table'[id] = table[id]
  BY <1>1 DEF HLSInvariant, TypeOK, Leaves
<1>3. TableOK'
  <2>1. ASSUME NEW id \in Ids, table'[id] # None
        PROVE  ses'[table'[id]].id = id /\ ses'[table'[id]].stage = "listed"
    <3>1. id # ses[t].id /\ table'[id] = table[id] /\ table[id] \in Sessions
      BY <1>2, <2>1
    <3>2. ses[table[id]].id = id /\ Listed(table[id]) /\ table[id] # t
      BY <2>1, <3>1 DEF HLSInvariant, TableOK
    <3> QED
      BY <3>1, <3>2 DEF Leaves, Listed
  <2>2. ASSUME NEW s \in Sessions, ses'[s].stage = "listed"
        PROVE  ses'[s].id \in Ids /\ table'[ses'[s].id] = s
    <3>1. Listed(s) /\ s # t
      BY <2>2 DEF Leaves, Listed
    <3>2. ses[s].id \in Ids /\ table[ses[s].id] = s /\ ses[s].id # ses[t].id
      BY <1>1, <3>1 DEF HLSInvariant, TableOK
    <3> QED
      BY <1>2, <3>2 DEF Leaves
  <2> QED BY <2>1, <2>2 DEF TableOK, Listed
<1>4. LivesOK'
  BY DEF HLSInvariant, Leaves, LivesOK, LifeOf, Finished, Listed, Stage
<1> QED
  BY <1>1, <1>2, <1>3, <1>4

LEMMA CancelKeeps ==
  ASSUME HLSInvariant, NEW t \in Sessions, Leaves(t, "cancel"), UNCHANGED <<dirs, open, client, faults>>
  PROVE  SessionsInvariant'
<1>1. /\ TableOK' /\ LivesOK'
      /\ ses[t].id \in Ids /\ table[ses[t].id] = t
      /\ \A id \in Ids : id # ses[t].id => table'[id] = table[id]
  BY LeavesTable DEF Stage
<1>2. StreamsHeld'
  BY DEF HLSInvariant, Leaves, NothingLeaks, StreamsHeld, Finished
<1>3. EncodersOwned'
  <2> SUFFICES ASSUME NEW s \in Sessions, s # t, ses'[s].proc = "running"
               PROVE  \/ table'[ses'[s].id] = s
                      \/ ses'[s].stage = "cancel"
                      \/ ses'[s].stage \in {"wait", "gone"} /\ s \notin open'
    BY DEF EncodersOwned, Leaves
  <2>1. ses[s].proc = "running" /\ ses'[s].id = ses[s].id /\ ses'[s].stage = ses[s].stage
        /\ ses[s].id \in Ids
    BY DEF Leaves, HLSInvariant, LivesOK, LifeOf
  <2>2. table[ses[s].id] = s => ses[s].id # ses[t].id
    BY <1>1
  <2> QED
    BY <1>1, <2>1, <2>2 DEF HLSInvariant, NothingLeaks, EncodersOwned
<1>4. DirsOwned'
  <2> SUFFICES ASSUME faults = MaxFaults, NEW id \in dirs
               PROVE  \/ table'[id] # None
                      \/ \E s \in Sessions : ses'[s].id = id /\ ses'[s].stage \in {"cancel", "wait"}
    BY DEF DirsOwned
  <2>1. CASE id = ses[t].id
    BY <2>1 DEF Leaves
  <2>2. CASE id # ses[t].id
    <3>1. id \in Ids
      BY DEF HLSInvariant, TypeOK
    <3>2. CASE table[id] # None
      BY <1>1, <2>2, <3>1, <3>2
    <3>3. CASE \E s \in Sessions : ses[s].id = id /\ ses[s].stage \in {"cancel", "wait"}
      BY <3>3, <2>2 DEF Leaves
    <3> QED
      BY <3>2, <3>3 DEF HLSInvariant, NothingLeaks, DirsOwned
  <2> QED BY <2>1, <2>2
<1> QED
  BY <1>1, <1>2, <1>3, <1>4 DEF SessionsInvariant, NothingLeaks

\* lookup drops a live session only when its ffmpeg has been reaped, which
\* holds no stream then; the directory goes with it.
LEMMA DropKeeps ==
  ASSUME HLSInvariant, NEW t \in Sessions, Leaves(t, "gone"), Finished(t), HandlersMove,
         dirs' = dirs \ {ses[t].id}, UNCHANGED <<open, faults>>
  PROVE  SessionsInvariant'
<1>1. /\ TableOK' /\ LivesOK'
      /\ ses[t].id \in Ids /\ table[ses[t].id] = t
      /\ \A id \in Ids : id # ses[t].id => table'[id] = table[id]
  BY LeavesTable DEF Stage
<1>2. ses[t].proc = "reaped" /\ t \notin open
  BY SessionsAreNumbers DEF HLSInvariant, LivesOK, LifeOf, NothingLeaks, StreamsHeld
<1>3. StreamsHeld'
  BY <1>2 DEF HLSInvariant, Leaves, NothingLeaks, StreamsHeld, Finished, HandlersMove
<1>4. EncodersOwned'
  <2> SUFFICES ASSUME NEW s \in Sessions, ses'[s].proc = "running"
               PROVE  \/ table'[ses'[s].id] = s
                      \/ ses'[s].stage = "cancel"
                      \/ ses'[s].stage \in {"wait", "gone"} /\ s \notin open'
    BY DEF EncodersOwned
  <2>1. s # t /\ ses[s].proc = "running" /\ ses'[s].id = ses[s].id /\ ses'[s].stage = ses[s].stage
        /\ ses[s].id \in Ids
    BY <1>2 DEF Leaves, HLSInvariant, LivesOK, LifeOf
  <2>2. table[ses[s].id] = s => ses[s].id # ses[t].id
    BY <1>1, <2>1
  <2> QED
    BY <1>1, <2>1, <2>2 DEF HLSInvariant, NothingLeaks, EncodersOwned
<1>5. DirsOwned'
  <2> SUFFICES ASSUME faults = MaxFaults, NEW id \in dirs, id # ses[t].id
               PROVE  \/ table'[id] # None
                      \/ \E s \in Sessions : ses'[s].id = id /\ ses'[s].stage \in {"cancel", "wait"}
    BY DEF DirsOwned
  <2>1. id \in Ids
    BY DEF HLSInvariant, TypeOK
  <2>2. CASE table[id] # None
    BY <1>1, <2>1, <2>2
  <2>3. CASE \E s \in Sessions : ses[s].id = id /\ ses[s].stage \in {"cancel", "wait"}
    BY <2>3 DEF Leaves
  <2> QED
    BY <2>2, <2>3 DEF HLSInvariant, NothingLeaks, DirsOwned
<1> QED
  BY <1>1, <1>3, <1>4, <1>5 DEF SessionsInvariant, NothingLeaks

\* Start: the session is one never started, and its id was free.
LEMMA StartStep ==
  ASSUME HLSInvariant, NEW c \in Clients, Start(c), HandlersMove
  PROVE  /\ table' \in [Ids -> Sessions \cup {None}]
         /\ ses' \in [Sessions -> Session]
         /\ dirs' \subseteq Ids
         /\ open' \subseteq Clients \cup Sessions
         /\ SessionsInvariant'
<1> DEFINE i == client[c].id
           u == client[c].subject
<1>1. i \in Ids /\ u \in Subjects \cup {None} /\ table[i] = None
  BY Fields DEF HLSInvariant, HandlersOK, Start
<1>2. PICK n \in Sessions :
        /\ ses[n].stage = "unborn"
        /\ table' = [table EXCEPT ![i] = n]
        /\ ses' = [ses EXCEPT ![n] =
                      [id |-> i, subject |-> u,
                       stage |-> "listed", idle |-> FALSE, armed |-> TRUE,
                       fired |-> FALSE, proc |-> "running", done |-> 0]]
        /\ open' = IF c \in open THEN (open \ {c}) \cup {n} ELSE open
  BY DEF Start
<1> DEFINE r == [id |-> i, subject |-> u, stage |-> "listed", idle |-> FALSE, armed |-> TRUE,
                 fired |-> FALSE, proc |-> "running", done |-> 0]
<1>3. r \in Session
  BY <1>1 DEF Session, Stage
<1>4. /\ r.id = i /\ r.stage = "listed" /\ r.proc = "running" /\ r.done = 0
  OBVIOUS
<1>5. dirs' = dirs \cup {i} /\ faults' = faults
  BY DEF Start
<1>6. /\ table' \in [Ids -> Sessions \cup {None}] /\ table'[i] = n
      /\ \A id \in Ids : id # i => table'[id] = table[id]
  BY <1>1, <1>2 DEF HLSInvariant, TypeOK
<1> HIDE DEF i, u
<1>7. ses' \in [Sessions -> Session] /\ ses'[n] = r
      /\ \A s \in Sessions : s # n => ses'[s] = ses[s]
  <2> HIDE DEF r
  <2>1. ses' = [ses EXCEPT ![n] = r]
    BY <1>2 DEF r
  <2> QED
    BY <1>3, <2>1 DEF HLSInvariant, TypeOK
<1> HIDE DEF r
<1>8. dirs' \subseteq Ids /\ open' \subseteq Clients \cup Sessions
  BY <1>1, <1>2, <1>5 DEF HLSInvariant, TypeOK
<1>9. \A id \in Ids : table[id] # n
  BY <1>2, SessionsAreNumbers DEF HLSInvariant, TableOK, Listed
<1>10. TableOK'
  <2>1. ASSUME NEW id \in Ids, table'[id] # None
        PROVE  ses'[table'[id]].id = id /\ ses'[table'[id]].stage = "listed"
    <3>1. CASE id = i
      BY <3>1, <1>4, <1>6, <1>7
    <3>2. CASE id # i
      <4>1. table'[id] = table[id] /\ table[id] \in Sessions /\ table[id] # n
        BY <3>2, <2>1, <1>6, <1>9
      <4> QED
        BY <4>1, <2>1, <1>7 DEF HLSInvariant, TableOK, Listed
    <3> QED BY <3>1, <3>2
  <2>2. ASSUME NEW s \in Sessions, ses'[s].stage = "listed"
        PROVE  ses'[s].id \in Ids /\ table'[ses'[s].id] = s
    <3>1. CASE s = n
      BY <3>1, <1>1, <1>4, <1>6, <1>7
    <3>2. CASE s # n
      <4>1. ses'[s] = ses[s] /\ ses[s].id \in Ids /\ table[ses[s].id] = s
        BY <3>2, <2>2, <1>7 DEF HLSInvariant, TableOK, Listed
      <4>2. ses[s].id # i
        BY <4>1, <1>1, SessionsAreNumbers
      <4> QED
        BY <4>1, <4>2, <1>6
    <3> QED BY <3>1, <3>2
  <2> QED BY <2>1, <2>2 DEF TableOK, Listed
<1>11. LivesOK'
  BY <1>1, <1>4, <1>7 DEF HLSInvariant, LivesOK, LifeOf, Finished
<1>12. StreamsHeld'
  BY <1>2, <1>4, <1>7, SessionsAreNumbers
  DEF HLSInvariant, NothingLeaks, StreamsHeld, Finished, HandlersMove
<1>13. EncodersOwned'
  <2> SUFFICES ASSUME NEW s \in Sessions, s # n, ses'[s].proc = "running"
               PROVE  \/ table'[ses'[s].id] = s
                      \/ ses'[s].stage = "cancel"
                      \/ ses'[s].stage \in {"wait", "gone"} /\ s \notin open'
    BY <1>4, <1>6, <1>7 DEF EncodersOwned
  <2>1. ses'[s] = ses[s] /\ ses[s].id \in Ids
    BY <1>7 DEF HLSInvariant, LivesOK, LifeOf
  <2>2. table[ses[s].id] = s => table'[ses[s].id] = s
    BY <1>1, <1>6, <2>1, SessionsAreNumbers
  <2>3. s \notin open => s \notin open'
    BY <1>2, SessionsAreNumbers
  <2> QED
    BY <2>1, <2>2, <2>3 DEF HLSInvariant, NothingLeaks, EncodersOwned
<1>14. DirsOwned'
  <2> SUFFICES ASSUME faults = MaxFaults, NEW id \in dirs'
               PROVE  \/ table'[id] # None
                      \/ \E s \in Sessions : ses'[s].id = id /\ ses'[s].stage \in {"cancel", "wait"}
    BY <1>5 DEF DirsOwned
  <2>1. CASE id = i
    BY <2>1, <1>6, SessionsAreNumbers
  <2> SUFFICES ASSUME id # i, id \in dirs
               PROVE  \/ table'[id] # None
                      \/ \E s \in Sessions : ses'[s].id = id /\ ses'[s].stage \in {"cancel", "wait"}
    BY <2>1, <1>5
  <2>2. CASE table[id] # None
    <3>1. id \in Ids
      BY DEF HLSInvariant, TypeOK
    <3> QED
      BY <3>1, <1>6, <2>2
  <2>3. CASE \E s \in Sessions : ses[s].id = id /\ ses[s].stage \in {"cancel", "wait"}
    BY <2>3, <1>2, <1>7
  <2> QED
    BY <2>2, <2>3 DEF HLSInvariant, NothingLeaks, DirsOwned
<1> QED
  BY <1>6, <1>7, <1>8, <1>10, <1>11, <1>12, <1>13, <1>14 DEF SessionsInvariant, NothingLeaks

\* One session's own step, out of the table or not: its stage may go from
\* cancel to wait and gone, its ffmpeg may end.
LEMMA OwnStep ==
  ASSUME HLSInvariant, NEW t \in Sessions, UNCHANGED <<table, client, faults>>,
         Cancel(t) \/ RemoveDir(t) \/ FFmpegExits(t) \/ Reap(t)
  PROVE  /\ ses' \in [Sessions -> Session]
         /\ dirs' \subseteq Ids
         /\ open' \subseteq Clients \cup Sessions
         /\ SessionsInvariant'
<1>1. ses \in [Sessions -> Session] /\ ses[t] \in Session /\ LifeOf(t)
      /\ ses[t].done \in 0..1 /\ ses[t].stage \in Stage
  BY Fields DEF HLSInvariant, TypeOK, LivesOK
<1>2. PICK r \in Session :
        /\ ses' = [ses EXCEPT ![t] = r]
        /\ r.id = ses[t].id /\ r.subject = ses[t].subject
        /\ r.armed = ses[t].armed /\ r.fired = ses[t].fired
        /\ \/ Cancel(t) /\ r.stage = "wait" /\ r.proc = ses[t].proc /\ r.done = ses[t].done
           \/ RemoveDir(t) /\ r.stage = "gone" /\ r.proc = ses[t].proc /\ r.done = ses[t].done
           \/ FFmpegExits(t) /\ r.stage = ses[t].stage /\ r.proc = "exited" /\ r.done = ses[t].done
           \/ Reap(t) /\ r.stage = ses[t].stage /\ r.proc = "reaped" /\ r.done = 1
  <2>1. CASE Cancel(t)
    <3> DEFINE r == [ses[t] EXCEPT !.stage = "wait"]
    <3>1. r \in Session
      BY <1>1, FieldsSet DEF Stage
    <3>2. ses' = [ses EXCEPT ![t] = r]
      BY <1>1, <2>1 DEF Cancel
    <3>3. /\ r.id = ses[t].id /\ r.subject = ses[t].subject
          /\ r.armed = ses[t].armed /\ r.fired = ses[t].fired
          /\ r.stage = "wait" /\ r.proc = ses[t].proc /\ r.done = ses[t].done
      BY <1>1 DEF Session
    <3> HIDE DEF r
    <3> QED BY <2>1, <3>1, <3>2, <3>3
  <2>2. CASE RemoveDir(t)
    <3> DEFINE r == [ses[t] EXCEPT !.stage = "gone"]
    <3>1. r \in Session
      BY <1>1, FieldsSet DEF Stage
    <3>2. ses' = [ses EXCEPT ![t] = r]
      BY <1>1, <2>2 DEF RemoveDir
    <3>3. /\ r.id = ses[t].id /\ r.subject = ses[t].subject
          /\ r.armed = ses[t].armed /\ r.fired = ses[t].fired
          /\ r.stage = "gone" /\ r.proc = ses[t].proc /\ r.done = ses[t].done
      BY <1>1 DEF Session
    <3> HIDE DEF r
    <3> QED BY <2>2, <3>1, <3>2, <3>3
  <2>3. CASE FFmpegExits(t)
    <3> DEFINE r == [ses[t] EXCEPT !.proc = "exited"]
    <3>1. r \in Session
      BY <1>1, FieldsSet
    <3>2. ses' = [ses EXCEPT ![t] = r]
      BY <1>1, <2>3 DEF FFmpegExits
    <3>3. /\ r.id = ses[t].id /\ r.subject = ses[t].subject
          /\ r.armed = ses[t].armed /\ r.fired = ses[t].fired
          /\ r.stage = ses[t].stage /\ r.proc = "exited" /\ r.done = ses[t].done
      BY <1>1 DEF Session
    <3> HIDE DEF r
    <3> QED BY <2>3, <3>1, <3>2, <3>3
  <2>4. CASE Reap(t)
    <3> DEFINE q == [ses[t] EXCEPT !.proc = "reaped"]
               r == [q EXCEPT !.done = 1]
    <3>1. q \in Session
      BY <1>1, FieldsSet
    <3>2. r \in Session
      <4> HIDE DEF q
      <4> QED BY <3>1, FieldsSet
    <3>3. ses[t].done = 0
      BY <1>1, <2>4 DEF Reap, LifeOf, Finished
    <3>4. ses' = [ses EXCEPT ![t] = r]
      BY <1>1, <2>4, <3>3 DEF Reap, Session
    <3>5. /\ r.id = ses[t].id /\ r.subject = ses[t].subject
          /\ r.armed = ses[t].armed /\ r.fired = ses[t].fired
          /\ r.stage = ses[t].stage /\ r.proc = "reaped" /\ r.done = 1
      BY <1>1 DEF Session
    <3> HIDE DEF q, r
    <3> QED BY <2>4, <3>2, <3>4, <3>5
  <2> QED BY <2>1, <2>2, <2>3, <2>4
<1>3. /\ ses' \in [Sessions -> Session] /\ ses'[t] = r
      /\ \A s \in Sessions : s # t => ses'[s] = ses[s]
  BY <1>1, <1>2
<1>4. /\ open' \subseteq open
      /\ t \in open' => r.proc = "exited" /\ r.stage = ses[t].stage /\ r.done = ses[t].done
  BY <1>2, SessionsAreNumbers
  DEF Cancel, RemoveDir, FFmpegExits, Reap, HLSInvariant, NothingLeaks, StreamsHeld
<1>5. /\ r.stage = "listed" <=> ses[t].stage = "listed"
      /\ r.stage # "unborn" /\ ses[t].stage # "unborn"
  BY <1>1, <1>2 DEF Cancel, RemoveDir, FFmpegExits, Reap, LifeOf
<1>6. dirs' \subseteq Ids /\ open' \subseteq Clients \cup Sessions
  BY <1>2, <1>4 DEF Cancel, RemoveDir, FFmpegExits, Reap, HLSInvariant, TypeOK
<1>7. TableOK'
  <2>1. \A s \in Sessions : /\ ses'[s].id = ses[s].id
                            /\ ses'[s].stage = "listed" <=> ses[s].stage = "listed"
    BY <1>2, <1>3, <1>5
  <2> QED
    BY <2>1, Fields DEF HLSInvariant, TableOK, Listed
<1>8. LivesOK'
  <2>1. LifeOf(t)'
    BY <1>1, <1>2, <1>3, <1>5 DEF LifeOf, Finished, FFmpegExits, RemoveDir, Cancel
  <2>2. ASSUME NEW s \in Sessions, s # t PROVE LifeOf(s)'
    BY <2>2, <1>3 DEF HLSInvariant, LivesOK, LifeOf, Finished
  <2> QED
    BY <2>1, <2>2 DEF LivesOK
<1>9. StreamsHeld'
  <2>1. \A c \in open' \cap Clients : client'[c].at = "start"
    BY <1>4 DEF HLSInvariant, NothingLeaks, StreamsHeld
  <2>2. ASSUME NEW s \in open' \cap Sessions
        PROVE  ses'[s].stage \in {"listed", "cancel"} /\ ses'[s].done = ses[s].done /\ s \in open
    BY <1>3, <1>4 DEF HLSInvariant, NothingLeaks, StreamsHeld
  <2> QED
    BY <2>1, <2>2 DEF HLSInvariant, NothingLeaks, StreamsHeld, Finished
<1>10. EncodersOwned'
  <2>1. ASSUME ses'[t].proc = "running"
        PROVE  ses'[t].stage \in {"wait", "gone"} /\ t \notin open'
    BY <2>1, <1>2, <1>3, <1>4 DEF FFmpegExits, Cancel, RemoveDir, Reap
  <2>2. ASSUME NEW s \in Sessions, s # t, ses'[s].proc = "running"
        PROVE  \/ table'[ses'[s].id] = s
               \/ ses'[s].stage = "cancel"
               \/ ses'[s].stage \in {"wait", "gone"} /\ s \notin open'
    BY <2>2, <1>3, <1>4 DEF HLSInvariant, NothingLeaks, EncodersOwned
  <2> QED
    BY <2>1, <2>2 DEF EncodersOwned
<1>11. DirsOwned'
  <2> SUFFICES ASSUME faults = MaxFaults, NEW id \in dirs'
               PROVE  \/ table'[id] # None
                      \/ \E s \in Sessions : ses'[s].id = id /\ ses'[s].stage \in {"cancel", "wait"}
    BY DEF DirsOwned
  <2>1. id \in dirs /\ (RemoveDir(t) => id # ses[t].id)
    BY <1>2 DEF Cancel, RemoveDir, FFmpegExits, Reap
  <2>2. CASE table[id] # None
    BY <2>2
  <2>3. ASSUME NEW s \in Sessions, ses[s].id = id, ses[s].stage \in {"cancel", "wait"}
        PROVE  ses'[s].id = id /\ ses'[s].stage \in {"cancel", "wait"}
    <3>1. CASE s # t
      BY <3>1, <2>3, <1>3
    <3>2. CASE s = t
      BY <3>2, <2>1, <2>3, <1>2, <1>3
    <3> QED BY <3>1, <3>2
  <2> QED
    BY <2>1, <2>2, <2>3 DEF HLSInvariant, NothingLeaks, DirsOwned
<1> QED
  BY <1>3, <1>6, <1>7, <1>8, <1>9, <1>10, <1>11 DEF SessionsInvariant, NothingLeaks

-----------------------------------------------------------------------------
(* The handlers.                                                           *)

\* A handler that is not about to start holds no stream.
LEMMA HandlerSteps ==
  ASSUME HLSInvariant, NEW c \in Clients
  PROVE  /\ UNCHANGED <<open, client>> => HandlersMove
         /\ Returns(c) /\ open' \cap Clients \subseteq open \ {c} => HandlersMove
         /\ OpenStream(c) => HandlersMove
         /\ \A id \in Ids, at \in {"open", "start"} :
              client[c] = Waiting /\ GoesOn(c, at, id) /\ UNCHANGED open => HandlersMove
<1>1. client \in [Clients -> Handler] /\ client[c] \in Handler /\ Waiting \in Handler
      /\ Waiting.at = "idle"
  BY DEF HLSInvariant, TypeOK, Handler, Waiting
<1>2. ASSUME UNCHANGED <<open, client>> PROVE HandlersMove
  BY <1>1, <1>2 DEF HLSInvariant, HandlersOK, HandlersMove, NothingLeaks, StreamsHeld
<1>3. ASSUME Returns(c), open' \cap Clients \subseteq open \ {c} PROVE HandlersMove
  BY <1>1, <1>3 DEF HLSInvariant, HandlersOK, HandlersMove, NothingLeaks, StreamsHeld, Returns
<1>4. ASSUME OpenStream(c) PROVE HandlersMove
  <2>1. c \notin open /\ client[c].id \in Ids
    BY <1>4 DEF OpenStream, HLSInvariant, HandlersOK, NothingLeaks, StreamsHeld
  <2>2. CASE client' = [client EXCEPT ![c].at = "start"] /\ open' = open \cup {c}
    <3> DEFINE h == [client[c] EXCEPT !.at = "start"]
    <3>1. h \in Handler /\ h.at = "start" /\ h.id = client[c].id
      BY <1>1 DEF Handler
    <3>2. client' = [client EXCEPT ![c] = h]
      BY <1>1, <2>2
    <3> HIDE DEF h
    <3> QED
      BY <1>1, <2>1, <2>2, <3>1, <3>2
      DEF HLSInvariant, HandlersOK, HandlersMove, NothingLeaks, StreamsHeld
  <2>3. CASE client' = [client EXCEPT ![c] = Waiting] /\ UNCHANGED open
    BY <1>1, <2>1, <2>3 DEF HLSInvariant, HandlersOK, HandlersMove, NothingLeaks, StreamsHeld
  <2> QED BY <1>4, <2>2, <2>3 DEF OpenStream
<1>5. ASSUME NEW id \in Ids, NEW at \in {"open", "start"},
             client[c] = Waiting, GoesOn(c, at, id), UNCHANGED open
      PROVE  HandlersMove
  <2>1. PICK u \in Subjects : client' = [client EXCEPT ![c] = [at |-> at, id |-> id, subject |-> u]]
    BY <1>5 DEF GoesOn
  <2> DEFINE h == [at |-> at, id |-> id, subject |-> u]
  <2>2. h \in Handler /\ h.at # "idle" /\ h.id = id /\ c \notin open
    BY <1>1, <1>5 DEF Handler, HLSInvariant, NothingLeaks, StreamsHeld
  <2>3. client' = [client EXCEPT ![c] = h]
    BY <2>1
  <2> HIDE DEF h
  <2> QED
    BY <1>1, <1>5, <2>2, <2>3 DEF HLSInvariant, HandlersOK, HandlersMove, NothingLeaks, StreamsHeld
<1> QED
  BY <1>2, <1>3, <1>4, <1>5

-----------------------------------------------------------------------------
(* The limits.                                                             *)

\* The ids the table has a session for, and those of one subject.
Taken == {id \in Ids : table[id] # None}
TakenFor(u) == {id \in Ids : table[id] # None /\ ses[table[id]].subject = u}

\* However many ids there are, the table holds finitely many.
LEMMA TakenFinite ==
  ASSUME HLSInvariant
  PROVE  /\ IsFiniteSet(Taken)
         /\ \A u : IsFiniteSet(TakenFor(u))
<1> DEFINE f == [id \in Taken |-> table[id]]
<1>1. f \in Injection(Taken, Sessions)
  <2>1. \A id \in Taken : f[id] \in Sessions
    BY Fields DEF HLSInvariant, Taken
  <2>2. \A a, b \in Taken : f[a] = f[b] => a = b
    BY DEF HLSInvariant, TableOK, Taken
  <2>3. f \in [Taken -> Sessions]
    BY <2>1
  <2> HIDE DEF f
  <2> QED
    BY <2>2, <2>3 DEF Injection, IsInjective
<1>2. IsFiniteSet(Taken)
  BY <1>1, SessionsAreNumbers, FS_Injection
<1>3. \A u : TakenFor(u) \subseteq Taken
  BY DEF TakenFor, Taken
<1> QED
  BY <1>2, <1>3, FS_Subset

\* The limits as they are written, over the sets above.
LEMMA LimitsAre ==
  /\ WithinLimits <=> /\ Cardinality(Taken) <= MaxHLSSessions
                      /\ \A u \in Subjects : Cardinality(TakenFor(u)) <= MaxHLSSessionsPerSubject
  /\ \A u : HasRoom(u) <=> /\ Cardinality(Taken) < MaxHLSSessions
                           /\ Cardinality(TakenFor(u)) < MaxHLSSessionsPerSubject
BY DEF WithinLimits, HasRoom, CountFor, Taken, TakenFor

\* A table that gains no session stays within them.
LEMMA FewerIsWithin ==
  ASSUME HLSInvariant, WithinLimits,
         \A id \in Ids : table'[id] # None =>
            table'[id] = table[id] /\ ses'[table[id]].subject = ses[table[id]].subject
  PROVE  WithinLimits'
<1>1. Taken' \subseteq Taken /\ \A u : TakenFor(u)' \subseteq TakenFor(u)
  BY DEF Taken, TakenFor
<1>2. /\ Cardinality(Taken') \in Nat /\ Cardinality(Taken) \in Nat
      /\ Cardinality(Taken') <= Cardinality(Taken)
  BY <1>1, TakenFinite, FS_Subset, FS_CardinalityType
<1>3. ASSUME NEW u \in Subjects
      PROVE  /\ Cardinality(TakenFor(u)') \in Nat /\ Cardinality(TakenFor(u)) \in Nat
             /\ Cardinality(TakenFor(u)') <= Cardinality(TakenFor(u))
  <2>1. IsFiniteSet(TakenFor(u)) /\ TakenFor(u)' \in SUBSET TakenFor(u)
    BY <1>1, TakenFinite
  <2> QED
    BY <2>1, FS_Subset, FS_CardinalityType
<1>4. WithinLimits' <=>
        /\ Cardinality(Taken') <= MaxHLSSessions
        /\ \A u \in Subjects : Cardinality(TakenFor(u)') <= MaxHLSSessionsPerSubject
  BY DEF WithinLimits, CountFor, Taken, TakenFor
<1> QED
  BY <1>2, <1>3, <1>4, LimitsAre, NumbersAssumption

\* A set with at most one element more has at most one element more.
LEMMA OneMore ==
  ASSUME NEW S, IsFiniteSet(S), NEW x, NEW T, T \subseteq S \cup {x}
  PROVE  /\ Cardinality(S) \in Nat /\ Cardinality(T) \in Nat
         /\ Cardinality(T) <= Cardinality(S) + 1
<1>1. Cardinality(S) \in Nat
  BY FS_CardinalityType
<1>2. /\ IsFiniteSet(S \cup {x})
      /\ Cardinality(S \cup {x}) = IF x \in S THEN Cardinality(S) ELSE Cardinality(S) + 1
  BY FS_AddElement
<1>3. IsFiniteSet(T) /\ Cardinality(T) <= Cardinality(S \cup {x})
  BY <1>2, FS_Subset
<1>4. Cardinality(T) \in Nat
  BY <1>3, FS_CardinalityType
<1> QED
  BY <1>1, <1>2, <1>3, <1>4

\* A start takes one more place, of the table and of its subject, and only
\* where there is room.
LEMMA StartIsWithin ==
  ASSUME HLSInvariant, WithinLimits, NEW c \in Clients, Start(c)
  PROVE  WithinLimits'
<1> DEFINE i == client[c].id
           v == client[c].subject
<1>1. i \in Ids /\ HasRoom(v)
  BY Fields DEF HLSInvariant, HandlersOK, Start
<1>2. PICK n \in Sessions :
        /\ ses[n].stage = "unborn"
        /\ table' = [table EXCEPT ![i] = n]
        /\ ses' = [ses EXCEPT ![n] =
                      [id |-> i, subject |-> v,
                       stage |-> "listed", idle |-> FALSE, armed |-> TRUE,
                       fired |-> FALSE, proc |-> "running", done |-> 0]]
  BY DEF Start
<1> DEFINE r == [id |-> i, subject |-> v, stage |-> "listed", idle |-> FALSE, armed |-> TRUE,
                 fired |-> FALSE, proc |-> "running", done |-> 0]
<1>3. r.subject = v
  OBVIOUS
<1> HIDE DEF i, v
<1>4. ses' = [ses EXCEPT ![n] = r]
  BY <1>2
<1> HIDE DEF r
<1>5. ses'[n] = r /\ \A s \in Sessions : s # n => ses'[s] = ses[s]
  BY <1>4 DEF HLSInvariant, TypeOK
<1>6. table'[i] = n /\ \A id \in Ids : id # i => table'[id] = table[id]
  BY <1>1, <1>2 DEF HLSInvariant, TypeOK
<1>7. \A id \in Ids : table[id] # None => table[id] \in Sessions /\ table[id] # n
  BY <1>2, Fields DEF HLSInvariant, TableOK, Listed
<1>8. Taken' \subseteq Taken \cup {i}
  BY <1>6 DEF Taken
<1>9. \A u : /\ TakenFor(u)' \subseteq TakenFor(u) \cup {i}
             /\ u # v => TakenFor(u)' \subseteq TakenFor(u)
  BY <1>3, <1>5, <1>6, <1>7, SessionsAreNumbers DEF TakenFor
<1>10. Cardinality(Taken') <= Cardinality(Taken) + 1 /\ Cardinality(Taken) \in Nat
       /\ Cardinality(Taken') \in Nat
  BY <1>8, TakenFinite, OneMore
<1>11. ASSUME NEW u \in Subjects
       PROVE  /\ Cardinality(TakenFor(u)) \in Nat /\ Cardinality(TakenFor(u)') \in Nat
              /\ Cardinality(TakenFor(u)') <= Cardinality(TakenFor(u)) + 1
              /\ u # v => Cardinality(TakenFor(u)') <= Cardinality(TakenFor(u))
  <2>1. IsFiniteSet(TakenFor(u))
    BY TakenFinite
  <2>2. TakenFor(u)' \subseteq TakenFor(u) \cup {i}
    BY <1>9
  <2>4. /\ Cardinality(TakenFor(u)) \in Nat /\ Cardinality(TakenFor(u)') \in Nat
        /\ Cardinality(TakenFor(u)') <= Cardinality(TakenFor(u)) + 1
    BY <2>1, <2>2, OneMore
  <2>5. u # v => Cardinality(TakenFor(u)') <= Cardinality(TakenFor(u))
    BY <1>9, <2>1, FS_Subset
  <2> QED BY <2>4, <2>5
<1>12. WithinLimits' <=>
         /\ Cardinality(Taken') <= MaxHLSSessions
         /\ \A u \in Subjects : Cardinality(TakenFor(u)') <= MaxHLSSessionsPerSubject
  BY DEF WithinLimits, CountFor, Taken, TakenFor
<1>13. Cardinality(Taken) < MaxHLSSessions /\ Cardinality(TakenFor(v)) < MaxHLSSessionsPerSubject
  BY <1>1, LimitsAre
<1>14. ASSUME NEW u \in Subjects PROVE Cardinality(TakenFor(u)') <= MaxHLSSessionsPerSubject
  <2>1. CASE u = v
    BY <2>1, <1>11, <1>13, NumbersAssumption
  <2>2. CASE u # v
    BY <2>2, <1>11, LimitsAre, NumbersAssumption
  <2> QED BY <2>1, <2>2
<1> QED
  BY <1>10, <1>12, <1>13, <1>14, NumbersAssumption

-----------------------------------------------------------------------------
(* The invariant.                                                          *)

\* Whom a step takes out of the table for terminate: nobody, or one that is
\* idle, or one a request asked it to.
Cancels ==
  \A s \in Sessions :
     Listed(s) /\ ~ses[s].idle /\ ses'[s].stage = "cancel" => requests' # requests

LEMMA InvariantInit == Init => HLSInvariant /\ WithinLimits
<1> SUFFICES ASSUME Init PROVE HLSInvariant /\ WithinLimits
  OBVIOUS
<1>1. TypeOK
  BY NumbersAssumption DEF Init, TypeOK, Session, Handler, Unborn, Waiting, Stage
<1>2. TableOK /\ LivesOK /\ HandlersOK
  BY DEF Init, TableOK, LivesOK, LifeOf, HandlersOK, Unborn, Waiting, Listed, Finished
<1>3. NothingLeaks
  BY DEF Init, NothingLeaks, StreamsHeld, EncodersOwned, DirsOwned, Unborn
<1>4. Taken = {} /\ \A u : TakenFor(u) = {}
  BY DEF Init, Taken, TakenFor
<1>5. WithinLimits
  BY <1>4, FS_EmptySet, LimitsAre, NumbersAssumption
<1> QED
  BY <1>1, <1>2, <1>3, <1>5 DEF HLSInvariant

\* The steps of the handlers and the sessions that start none.
LEMMA FlagsWithin ==
  ASSUME HLSInvariant, WithinLimits, Flags, UNCHANGED table
  PROVE  WithinLimits' /\ Cancels
<1>1. WithinLimits'
  BY FewerIsWithin, Fields DEF HLSInvariant, Flags
<1>2. Cancels
  BY DEF Flags, Cancels, Listed
<1> QED
  BY <1>1, <1>2

LEMMA LeavesWithin ==
  ASSUME HLSInvariant, WithinLimits, NEW t \in Sessions, NEW g \in Stage \ {"listed", "unborn"},
         Leaves(t, g)
  PROVE  /\ WithinLimits'
         /\ g = "gone" \/ ses[t].idle \/ requests' # requests => Cancels
<1>1. /\ ses[t].id \in Ids
      /\ \A id \in Ids : id # ses[t].id => table'[id] = table[id]
      /\ table'[ses[t].id] = None
  BY LeavesTable
<1>2. WithinLimits'
  <2>1. \A id \in Ids : table'[id] # None =>
           table'[id] = table[id] /\ ses'[table[id]].subject = ses[table[id]].subject
    BY <1>1, Fields DEF Leaves, HLSInvariant
  <2> QED BY <2>1, FewerIsWithin
<1>3. g = "gone" \/ ses[t].idle \/ requests' # requests => Cancels
  BY DEF Leaves, Cancels, Listed
<1> QED
  BY <1>2, <1>3

\* What the lookup of an id does, whoever looks.
Lookup(id) == LookupDrops(id) \/ LookupFinds(id) \/ LookupMisses(id)

\* What every step keeps, and what a step has to show of itself for it.
Keeps == HLSInvariant' /\ WithinLimits' /\ Cancels

LEMMA KeepsFrom ==
  ASSUME HLSInvariant, SessionsInvariant', WithinLimits', Cancels,
         table' \in [Ids -> Sessions \cup {None}], ses' \in [Sessions -> Session],
         dirs' \subseteq Ids, open' \subseteq Clients \cup Sessions,
         client' \in [Clients -> Handler], HandlersOK',
         requests' \in 0..MaxRequests, faults' \in 0..MaxFaults
  PROVE  Keeps
<1>1. TypeOK'
  BY DEF TypeOK
<1> QED
  BY <1>1 DEF Keeps, HLSInvariant, SessionsInvariant

LEMMA FlagsStep ==
  ASSUME HLSInvariant, WithinLimits, Flags, HandlersMove, UNCHANGED table,
         faults' \in 0..MaxFaults, faults' <= faults, requests' \in 0..MaxRequests,
         open' \subseteq Clients \cup open,
         dirs' = dirs \/ faults' < faults, dirs' \subseteq Ids
  PROVE  Keeps
<1>1. open' \cap Sessions \subseteq open
  BY SessionsAreNumbers
<1>2. SessionsInvariant' /\ WithinLimits' /\ Cancels
  BY <1>1, FlagsKeep, FlagsWithin
<1> QED
  BY <1>2, KeepsFrom DEF HLSInvariant, TypeOK, Flags, HandlersMove

LEMMA LookupStep ==
  ASSUME HLSInvariant, WithinLimits, NEW id \in Ids, Lookup(id), HandlersMove,
         requests' \in 0..MaxRequests, UNCHANGED <<open, faults>>
  PROVE  Keeps
<1> DEFINE t == table[id]
<1>1. t # None => t \in Sessions /\ Listed(t) /\ ses[t].id = id
  BY Fields DEF HLSInvariant, TableOK
<1>2. /\ open \subseteq Clients \cup Sessions /\ dirs \subseteq Ids
      /\ faults \in 0..MaxFaults /\ MaxFaults \in Nat
      /\ ses \in [Sessions -> Session]
  BY NumbersAssumption DEF HLSInvariant, TypeOK
<1>3. CASE LookupDrops(id)
  <2>1. t # None /\ t \in Sessions /\ ses[t] \in Session
    BY <1>1, <1>2, <1>3 DEF LookupDrops
  <2>2. ses' = [ses EXCEPT ![t] = [[ses[t] EXCEPT !.stage = "gone"] EXCEPT !.armed = FALSE]]
    BY <1>2, <1>3, <2>1 DEF LookupDrops
  <2>3. ses' \in [Sessions -> Session]
    BY <1>2, <2>1, <2>2, FieldsSet DEF Stage
  <2>4. \A s \in Sessions : s # t => ses'[s] = ses[s]
    BY <1>2, <2>2
  <2>5. /\ ses'[t].id = ses[t].id
        /\ ses'[t].subject = ses[t].subject
        /\ ses'[t].stage = "gone"
        /\ ses'[t].proc = ses[t].proc
        /\ ses'[t].done = ses[t].done
    BY <1>2, <2>1, <2>2 DEF Session
  <2>6. /\ table' = [table EXCEPT ![ses[t].id] = None] /\ dirs' = dirs \ {ses[t].id}
        /\ Finished(t) /\ Listed(t)
    BY <1>1, <1>3, <2>1 DEF LookupDrops
  <2> HIDE DEF t
  <2>7. \A s \in Sessions : ses[s].stage = "unborn" => ~ses'[s].armed /\ ~ses'[s].fired
    BY <2>1, <2>4, <2>6, UnbornHasNoTimer DEF Listed
  <2>8. Leaves(t, "gone")
    BY <2>3, <2>4, <2>5, <2>6, <2>7 DEF Leaves
  <2>9. SessionsInvariant' /\ WithinLimits' /\ Cancels
        /\ table' \in [Ids -> Sessions \cup {None}]
    BY <2>1, <2>6, <2>8, DropKeeps, LeavesWithin, LeavesTable DEF Stage
  <2> QED
    BY <1>2, <2>3, <2>6, <2>9, KeepsFrom DEF HandlersMove
<1>4. CASE LookupFinds(id)
  <2>1. Flags
    BY <1>1, <1>4, TouchFlags DEF LookupFinds
  <2> QED
    BY <1>2, <1>4, <2>1, FlagsStep DEF LookupFinds
<1>5. CASE LookupMisses(id)
  <2>1. Flags
    BY <1>2, <1>5, UnbornHasNoTimer DEF LookupMisses, Flags
  <2> QED
    BY <1>2, <1>5, <2>1, FlagsStep DEF LookupMisses
<1> QED
  BY <1>3, <1>4, <1>5 DEF Lookup

LEMMA UnchangedFlags ==
  ASSUME HLSInvariant, UNCHANGED ses
  PROVE  Flags
BY UnbornHasNoTimer DEF HLSInvariant, TypeOK, Flags

LEMMA RequestStep ==
  ASSUME HLSInvariant, WithinLimits, NEW c \in Clients, NEW id \in Ids,
         Segment(c, id) \/ Watch(c, id) \/ Play(c, id) \/ Stop(c, id)
  PROVE  Keeps
<1>1. /\ client[c] = Waiting
      /\ requests' # requests /\ requests' \in 0..MaxRequests
  <2>1. Arrives(c)
    BY DEF Segment, Watch, Play, Stop
  <2>2. requests \in 0..MaxRequests /\ MaxRequests \in Nat
    BY NumbersAssumption DEF HLSInvariant, TypeOK
  <2> QED
    BY <2>1, <2>2 DEF Arrives
<1>2. /\ open \subseteq Clients \cup Sessions /\ dirs \subseteq Ids
      /\ faults \in 0..MaxFaults /\ MaxFaults \in Nat /\ faults' = faults /\ open' = open
  BY NumbersAssumption DEF HLSInvariant, TypeOK, Segment, Watch, Play, Stop
<1>3. CASE Segment(c, id)
  <2>1. HandlersMove /\ Lookup(id)
    BY <1>3, HandlerSteps DEF Segment, Lookup
  <2> QED BY <1>1, <1>2, <2>1, LookupStep
<1>4. CASE Watch(c, id)
  <2>1. Lookup(id)
    BY <1>4 DEF Watch, Lookup
  <2>2. UNCHANGED client \/ GoesOn(c, "open", id)
    BY <1>4 DEF Watch
  <2>3. HandlersMove
    BY <1>1, <1>2, <2>2, HandlerSteps
  <2> QED BY <1>1, <1>2, <2>1, <2>3, LookupStep
<1>5. CASE Play(c, id)
  <2>1. HandlersMove
    BY <1>1, <1>2, <1>5, HandlerSteps DEF Play
  <2>2. Flags /\ UNCHANGED <<table, dirs>>
    BY <1>5, UnchangedFlags DEF Play
  <2> QED BY <1>1, <1>2, <2>1, <2>2, FlagsStep
<1>6. CASE Stop(c, id)
  <2>1. HandlersMove
    BY <1>6, HandlerSteps DEF Stop
  <2>2. CASE table[id] # None /\ TakeOut(table[id], FALSE)
    <3>1. PICK t \in Sessions : t = table[id] /\ Listed(t)
      BY <2>2, Fields DEF HLSInvariant, TableOK
    <3>2. Leaves(t, "cancel")
      BY <2>2, <3>1, TakeOutLeaves
    <3>3. SessionsInvariant' /\ WithinLimits' /\ Cancels
          /\ table' \in [Ids -> Sessions \cup {None}]
      BY <1>1, <1>6, <3>2, CancelKeeps, LeavesWithin, LeavesTable DEF Stop, Stage
    <3> QED
      BY <1>1, <1>2, <1>6, <2>1, <3>2, <3>3, KeepsFrom DEF Stop, Leaves, HandlersMove
  <2>3. CASE UNCHANGED <<table, ses>>
    <3>1. Flags /\ UNCHANGED <<table, dirs>>
      BY <1>6, <2>3, UnchangedFlags DEF Stop
    <3> QED BY <1>1, <1>2, <2>1, <3>1, FlagsStep
  <2> QED BY <1>6, <2>2, <2>3 DEF Stop
<1> QED
  BY <1>3, <1>4, <1>5, <1>6

LEMMA HandlerStepKeeps ==
  ASSUME HLSInvariant, WithinLimits, NEW c \in Clients, HandlerStep(c)
  PROVE  Keeps
<1>1. /\ open \subseteq Clients \cup Sessions /\ dirs \subseteq Ids
      /\ faults \in 0..MaxFaults /\ MaxFaults \in Nat
      /\ requests' \in 0..MaxRequests
  BY NumbersAssumption
  DEF HLSInvariant, TypeOK, HandlerStep, OpenStream, Reuse, Reject, StartFails, Start
<1>2. CASE OpenStream(c)
  <2>1. HandlersMove
    BY <1>2, HandlerSteps
  <2>2. Flags /\ UNCHANGED <<table, dirs, faults>> /\ open' \subseteq Clients \cup open
    BY <1>2, UnchangedFlags DEF OpenStream
  <2> QED BY <1>1, <2>1, <2>2, FlagsStep
<1>3. CASE Reuse(c)
  <2>1. HandlersMove /\ open' \subseteq open
    BY <1>3, HandlerSteps DEF Reuse
  <2>2. client[c].id \in Ids
    BY <1>3 DEF Reuse, HLSInvariant, HandlersOK
  <2>3. PICK t \in Sessions : t = table[client[c].id] /\ Listed(t)
    BY <1>3, <2>2, Fields DEF Reuse, HLSInvariant, TableOK
  <2>4. Touch(t)
    BY <1>3, <2>3 DEF Reuse
  <2>5. Flags /\ UNCHANGED <<table, dirs, faults>>
    BY <1>3, <2>3, <2>4, TouchFlags DEF Reuse
  <2> QED BY <1>1, <2>1, <2>5, FlagsStep
<1>4. CASE Reject(c)
  <2>1. HandlersMove /\ open' \subseteq open
    BY <1>4, HandlerSteps DEF Reject
  <2>2. Flags /\ UNCHANGED <<table, dirs, faults>>
    BY <1>4, UnchangedFlags DEF Reject
  <2> QED BY <1>1, <2>1, <2>2, FlagsStep
<1>5. CASE StartFails(c)
  <2>1. HandlersMove /\ open' \subseteq open
    BY <1>5, HandlerSteps DEF StartFails
  <2>2. Flags /\ UNCHANGED table
    BY <1>5, UnchangedFlags DEF StartFails
  <2>3. faults' < faults /\ faults' <= faults /\ faults' \in 0..MaxFaults
    BY <1>1, <1>5 DEF StartFails
  <2>4. dirs' \subseteq Ids
    BY <1>1, <1>5 DEF StartFails, HLSInvariant, HandlersOK
  <2> QED BY <1>1, <2>1, <2>2, <2>3, <2>4, FlagsStep
<1>6. CASE Start(c)
  <2>1. Returns(c) /\ open' \cap Clients \subseteq open \ {c}
    BY <1>6, SessionsAreNumbers DEF Start
  <2>2. HandlersMove
    BY <2>1, HandlerSteps
  <2>3. /\ table' \in [Ids -> Sessions \cup {None}] /\ ses' \in [Sessions -> Session]
        /\ dirs' \subseteq Ids /\ open' \subseteq Clients \cup Sessions
        /\ SessionsInvariant'
    BY <1>6, <2>2, StartStep
  <2>4. WithinLimits'
    BY <1>6, StartIsWithin
  <2>5. Cancels
    <3>1. PICK n \in Sessions :
            ses' = [ses EXCEPT ![n] = [id |-> client[c].id, subject |-> client[c].subject,
                                       stage |-> "listed", idle |-> FALSE, armed |-> TRUE,
                                       fired |-> FALSE, proc |-> "running", done |-> 0]]
      BY <1>6 DEF Start
    <3>2. \A s \in Sessions : ses'[s].stage = "listed" \/ ses'[s] = ses[s]
      BY <3>1 DEF HLSInvariant, TypeOK
    <3> QED
      BY <3>2 DEF Cancels, Listed
  <2> QED
    BY <1>1, <1>6, <2>2, <2>3, <2>4, <2>5, KeepsFrom DEF Start, HandlersMove
<1> QED
  BY <1>2, <1>3, <1>4, <1>5, <1>6 DEF HandlerStep

LEMMA SessionStepKeeps ==
  ASSUME HLSInvariant, WithinLimits, NEW t \in Sessions, SessionStep(t)
  PROVE  Keeps
<1>1. /\ open \subseteq Clients \cup Sessions /\ dirs \subseteq Ids
      /\ faults \in 0..MaxFaults /\ MaxFaults \in Nat
      /\ requests \in 0..MaxRequests
      /\ ses \in [Sessions -> Session] /\ ses[t] \in Session
      /\ table \in [Ids -> Sessions \cup {None}]
  BY NumbersAssumption DEF HLSInvariant, TypeOK
<1>2. ASSUME UNCHANGED <<open, client>> PROVE HandlersMove
  BY <1>2, HandlerSteps DEF HandlersMove, HLSInvariant, TypeOK, HandlersOK, NothingLeaks, StreamsHeld
<1>3. CASE GoesIdle(t)
  <2>1. ses' = [ses EXCEPT ![t] = [ses[t] EXCEPT !.idle = TRUE]]
    BY <1>1, <1>3 DEF GoesIdle
  <2>2. ses' \in [Sessions -> Session] /\ \A s \in Sessions : s # t => ses'[s] = ses[s]
    BY <1>1, <2>1, FieldsSet
  <2>3. /\ ses'[t].id = ses[t].id /\ ses'[t].subject = ses[t].subject
        /\ ses'[t].stage = ses[t].stage
        /\ ses'[t].proc = ses[t].proc /\ ses'[t].done = ses[t].done
    BY <1>1, <2>1 DEF Session
  <2>4. \A s \in Sessions : ses[s].stage = "unborn" => ~ses'[s].armed /\ ~ses'[s].fired
    BY <1>3, <2>2, UnbornHasNoTimer DEF GoesIdle, Listed
  <2>5. Flags
    BY <2>2, <2>3, <2>4 DEF Flags
  <2> QED BY <1>1, <1>2, <1>3, <2>5, FlagsStep DEF GoesIdle
<1>4. CASE TimerFires(t)
  <2>1. ses' = [ses EXCEPT ![t] = [[ses[t] EXCEPT !.armed = FALSE] EXCEPT !.fired = TRUE]]
    BY <1>1, <1>4 DEF TimerFires
  <2>2. ses' \in [Sessions -> Session] /\ \A s \in Sessions : s # t => ses'[s] = ses[s]
    BY <1>1, <2>1, FieldsSet
  <2>3. /\ ses'[t].id = ses[t].id /\ ses'[t].subject = ses[t].subject
        /\ ses'[t].stage = ses[t].stage
        /\ ses'[t].proc = ses[t].proc /\ ses'[t].done = ses[t].done
    BY <1>1, <2>1 DEF Session
  <2>4. \A s \in Sessions : ses[s].stage = "unborn" => ~ses'[s].armed /\ ~ses'[s].fired
    BY <1>4, <2>2, UnbornHasNoTimer DEF TimerFires
  <2>5. Flags
    BY <2>2, <2>3, <2>4 DEF Flags
  <2> QED BY <1>1, <1>2, <1>4, <2>5, FlagsStep DEF TimerFires
<1>5. CASE Expire(t)
  <2>1. UNCHANGED <<dirs, open, client, requests, faults>> /\ HandlersMove
    BY <1>2, <1>5 DEF Expire
  <2>2. CASE UNCHANGED table /\ Flags
    BY <1>1, <2>1, <2>2, FlagsStep
  <2>3. ASSUME NEW x \in Sessions, ses[x].idle, Leaves(x, "cancel") PROVE Keeps
    <3>1. SessionsInvariant' /\ WithinLimits' /\ Cancels
          /\ table' \in [Ids -> Sessions \cup {None}]
      BY <2>1, <2>3, CancelKeeps, LeavesWithin, LeavesTable DEF Stage
    <3> QED
      BY <1>1, <2>1, <2>3, <3>1, KeepsFrom DEF Leaves, HandlersMove
  <2> QED BY <1>5, <2>2, <2>3, ExpireDoes
<1>6. CASE Cancel(t) \/ RemoveDir(t) \/ FFmpegExits(t) \/ Reap(t)
  <2>1. UNCHANGED <<table, client, requests, faults>>
    BY <1>6 DEF Cancel, RemoveDir, FFmpegExits, Reap
  <2>2. /\ ses' \in [Sessions -> Session] /\ dirs' \subseteq Ids
        /\ open' \subseteq Clients \cup Sessions /\ SessionsInvariant'
    BY <1>6, <2>1, OwnStep
  <2>3. \A s \in Sessions : ses'[s].subject = ses[s].subject
    BY <1>1, <1>6 DEF Cancel, RemoveDir, FFmpegExits, Reap, Session
  <2>4. WithinLimits'
    BY <2>1, <2>3, FewerIsWithin, Fields DEF HLSInvariant
  <2>5. Cancels
    BY <1>1, <1>6 DEF Cancel, RemoveDir, FFmpegExits, Reap, Session, Cancels, Listed
  <2> QED
    BY <1>1, <2>1, <2>2, <2>4, <2>5, KeepsFrom DEF HLSInvariant, TypeOK, HandlersOK
<1> QED
  BY <1>3, <1>4, <1>5, <1>6 DEF SessionStep

LEMMA StepKeeps ==
  ASSUME HLSInvariant, WithinLimits, [Next]_vars
  PROVE  Keeps
<1>1. ASSUME UNCHANGED vars PROVE Keeps
  <2>1. UNCHANGED <<table, ses, dirs, open, client, requests, faults>>
    BY <1>1 DEF vars
  <2>2. Flags
    BY <2>1, UnchangedFlags
  <2>3. HandlersMove
    BY <2>1 DEF HandlersMove, HLSInvariant, TypeOK, HandlersOK, NothingLeaks, StreamsHeld
  <2>4. /\ open \subseteq Clients \cup Sessions /\ dirs \subseteq Ids
        /\ faults \in 0..MaxFaults /\ MaxFaults \in Nat /\ requests \in 0..MaxRequests
    BY NumbersAssumption DEF HLSInvariant, TypeOK
  <2> QED BY <2>1, <2>2, <2>3, <2>4, FlagsStep
<1> QED
  BY <1>1, RequestStep, HandlerStepKeeps, SessionStepKeeps DEF Next

-----------------------------------------------------------------------------
(* The theorems.                                                           *)

\* The invariant the others are read from.
THEOREM InvariantHolds == Spec => [](HLSInvariant /\ WithinLimits)
<1>1. HLSInvariant /\ WithinLimits /\ [Next]_vars => (HLSInvariant /\ WithinLimits)'
  BY StepKeeps DEF Keeps
<1> QED
  BY <1>1, InvariantInit, PTL DEF Spec

\* The state of the sessions has the types the module declares.
THEOREM HLSTypes == Spec => []TypeOK
<1>1. HLSInvariant => TypeOK
  BY DEF HLSInvariant
<1> QED
  BY <1>1, InvariantHolds, PTL

\* However many requests open a stream at the same time, the table is never
\* over its limit, nor any subject over its own (getOrStartSource).
THEOREM LimitsHold == Spec => []WithinLimits
BY InvariantHolds, PTL

\* No tuner stream, ffmpeg process or directory is ever left without a handler,
\* a session or a goroutine that will close, kill or remove it.
THEOREM NothingIsLeft == Spec => []NothingLeaks
<1>1. HLSInvariant => NothingLeaks
  BY DEF HLSInvariant
<1> QED
  BY <1>1, InvariantHolds, PTL

\* The timer of a session never ends one somebody asked for within the 15
\* seconds before, though it looks the session up by its id.
THEOREM TimersSpareTheUsed == Spec => RecentlyUsedStays
<1>1. HLSInvariant /\ WithinLimits /\ [Next]_vars =>
        [\A s \in Sessions : Listed(s) /\ ~ses[s].idle /\ ses'[s].stage = "cancel"
           => requests' # requests]_vars
  BY StepKeeps DEF Keeps, Cancels
<1> QED
  BY <1>1, InvariantHolds, PTL DEF Spec, RecentlyUsedStays
=============================================================================
