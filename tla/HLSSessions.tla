---------------------------- MODULE HLSSessions ----------------------------
(***************************************************************************)
(* The HLS sessions of the web server (internal/wui/hls.go): a table of    *)
(* ffmpeg processes, one per source and quality, shared by the requests    *)
(* that ask for them, limited in number, and ended when nobody has asked   *)
(* for 15 seconds.                                                         *)
(*                                                                         *)
(* m.mu is held for whole actions.  What happens outside it is a step of   *)
(* its own: opening the tuner stream between two looks at the table, the   *)
(* timer's goroutine before it locks, terminate, and the goroutine that    *)
(* waits for ffmpeg.  The handlers that only wait for a file to appear     *)
(* (playlist, segment) change nothing after their look at the table.       *)
(***************************************************************************)
EXTENDS Integers, FiniteSets

CONSTANTS
    Channels, Files,        \* session ids with a tuner stream, with a file
    Clients,                \* request handlers
    Subjects,               \* whom the requests come from
    MaxHLSSessions, MaxHLSSessionsPerSubject,
    None,
    MaxStarts,              \* bound: sessions ever started
    MaxRequests,            \* bound: requests
    MaxFaults               \* bound: session starts that fail

ASSUME IdsAssumption == None \notin Channels \cup Files \cup Subjects
                        /\ Channels \cap Files = {}
ASSUME NumbersAssumption ==
    /\ MaxHLSSessions \in Nat /\ MaxHLSSessionsPerSubject \in Nat
    /\ MaxStarts \in Nat /\ MaxRequests \in Nat /\ MaxFaults \in Nat
    /\ None \notin 1..MaxStarts
    /\ Clients \cap (1..MaxStarts) = {}

Ids      == Channels \cup Files
Sessions == 1..MaxStarts

VARIABLES
    table,      \* m.sessions: the session of an id, or None
    ses,        \* the sessions
    dirs,       \* ids whose directory exists
    open,       \* who holds an open tuner stream: handlers and sessions
    client,     \* the handlers
    requests, faults    \* what is left of the bounds

vars == <<table, ses, dirs, open, client, requests, faults>>

\* A session was never started, is in the table, was taken out and is about
\* to be cancelled, was cancelled, or is done with.
Stage == {"unborn", "listed", "cancel", "wait", "gone"}

Session ==
    [id      : Ids \cup {None},
     subject : Subjects \cup {None},
     stage   : Stage,
     idle    : BOOLEAN,     \* lastAccess is hlsSessionIdleTimeout ago
     armed   : BOOLEAN,     \* the timer runs
     fired   : BOOLEAN,     \* its goroutine is on its way to the mutex
     proc    : {"none", "running", "exited", "reaped"},
     done    : 0..1]        \* how often the channel was closed

\* at: "idle", "open" (looked, found nothing), "start" (about to start)
Handler == [at : {"idle", "open", "start"}, id : Ids \cup {None},
            subject : Subjects \cup {None}]

TypeOK ==
    /\ table \in [Ids -> Sessions \cup {None}]
    /\ ses \in [Sessions -> Session]
    /\ dirs \subseteq Ids
    /\ open \subseteq Clients \cup Sessions
    /\ client \in [Clients -> Handler]
    /\ requests \in 0..MaxRequests /\ faults \in 0..MaxFaults

Unborn == [id |-> None, subject |-> None, stage |-> "unborn", idle |-> FALSE,
           armed |-> FALSE, fired |-> FALSE, proc |-> "none", done |-> 0]
Waiting == [at |-> "idle", id |-> None, subject |-> None]

Init ==
    /\ table = [id \in Ids |-> None]
    /\ ses = [s \in Sessions |-> Unborn]
    /\ dirs = {} /\ open = {}
    /\ client = [c \in Clients |-> Waiting]
    /\ requests = MaxRequests /\ faults = MaxFaults

----------------------------------------------------------------------------
Listed(s) == ses[s].stage = "listed"
Live(s)   == ses[s].id \in Channels

\* finished: the done channel is closed.
Finished(s) == ses[s].done > 0

\* lastAccess = now, timer.Reset.
Touch(s) == ses' = [ses EXCEPT ![s].idle = FALSE, ![s].armed = TRUE]

\* The session leaves the table and goes to terminate, timer stopped or not.
TakeOut(s, armed) ==
    /\ table' = [table EXCEPT ![ses[s].id] = None]
    /\ ses' = [ses EXCEPT ![s].stage = "cancel", ![s].armed = armed]

\* A request arrives at handler c.
Arrives(c) ==
    client[c] = Waiting /\ requests > 0 /\ requests' = requests - 1

\* It goes on from at, and may start a session (the bound leaves one).
GoesOn(c, at, id) ==
    /\ Cardinality({d \in Clients : client[d] # Waiting})
           < Cardinality({s \in Sessions : ses[s].stage = "unborn"})
    /\ \E u \in Subjects :
          client' = [client EXCEPT ![c] = [at |-> at, id |-> id, subject |-> u]]

----------------------------------------------------------------------------
(* The handlers.                                                           *)

\* Variant: any live session is dropped, finished or not.
LookupDropsLive(id) ==
    LET s == table[id] IN
    /\ s # None /\ Live(s)
    /\ table' = [table EXCEPT ![id] = None]
    /\ ses' = [ses EXCEPT ![s].stage = "gone", ![s].armed = FALSE]
    /\ dirs' = dirs \ {id}

\* lookup: a finished live session is dropped on the spot ...
LookupDrops(id) ==
    LET s == table[id] IN
    /\ s # None /\ Live(s) /\ Finished(s)
    /\ table' = [table EXCEPT ![id] = None]
    /\ ses' = [ses EXCEPT ![s].stage = "gone", ![s].armed = FALSE]
    /\ dirs' = dirs \ {id}

\* ... and any other stays for another 15 seconds.
LookupFinds(id) ==
    LET s == table[id] IN
    /\ s # None /\ ~(Live(s) /\ Finished(s))
    /\ Touch(s) /\ UNCHANGED <<table, dirs>>

LookupMisses(id) == table[id] = None /\ UNCHANGED <<table, ses, dirs>>

\* serveHLSSegment.
Segment(c, id) ==
    /\ Arrives(c)
    /\ LookupDrops(id) \/ LookupFinds(id) \/ LookupMisses(id)
    /\ UNCHANGED <<open, client, faults>>

\* handleChannelHLS, GET: what the table has is served; otherwise the handler
\* goes for a tuner stream, without the mutex.
Watch(c, id) ==
    /\ id \in Channels /\ Arrives(c)
    /\ \/ LookupFinds(id) /\ UNCHANGED client
       \/ /\ LookupDrops(id) \/ LookupMisses(id)
          /\ GoesOn(c, "open", id)
    /\ UNCHANGED <<open, faults>>

\* handleRecordedHLS, GET.
Play(c, id) ==
    /\ id \in Files /\ Arrives(c) /\ GoesOn(c, "start", id)
    /\ UNCHANGED <<table, ses, dirs, open, faults>>

\* ServiceStream; the handler answers 503 when it fails.
OpenStream(c) ==
    /\ client[c].at = "open"
    /\ \/ /\ client' = [client EXCEPT ![c].at = "start"]
          /\ open' = open \cup {c}
       \/ client' = [client EXCEPT ![c] = Waiting] /\ UNCHANGED open
    /\ UNCHANGED <<table, ses, dirs, requests, faults>>

CountFor(subject) ==
    Cardinality({id \in Ids : table[id] # None
                                /\ ses[table[id]].subject = subject})

\* Variant: the limit may be exceeded by one.
HasRoomForOneMore(subject) ==
    /\ Cardinality({id \in Ids : table[id] # None}) <= MaxHLSSessions
    /\ CountFor(subject) < MaxHLSSessionsPerSubject

\* Neither limit is reached.
HasRoom(subject) ==
    /\ Cardinality({id \in Ids : table[id] # None}) < MaxHLSSessions
    /\ CountFor(subject) < MaxHLSSessionsPerSubject

Returns(c) == client' = [client EXCEPT ![c] = Waiting]

\* getOrStartSource, somebody started the session meanwhile: it is shared and
\* the stream just opened is closed.
Reuse(c) ==
    LET id == client[c].id IN
    /\ client[c].at = "start" /\ table[id] # None
    /\ Touch(table[id]) /\ Returns(c) /\ open' = open \ {c}
    /\ UNCHANGED <<table, dirs, requests, faults>>

\* ... at the limit: 429, the stream is closed.
Reject(c) ==
    LET id == client[c].id IN
    /\ client[c].at = "start" /\ table[id] = None /\ ~HasRoom(client[c].subject)
    /\ Returns(c) /\ open' = open \ {c}
    /\ UNCHANGED <<table, ses, dirs, requests, faults>>

\* ... no encoder, no directory, no log file or no process: the stream is
\* closed (by the handler at the latest); the directory, once made, stays.
StartFails(c) ==
    LET id == client[c].id IN
    /\ client[c].at = "start" /\ faults > 0 /\ faults' = faults - 1
    /\ Returns(c) /\ open' = open \ {c}
    /\ \/ UNCHANGED dirs
       \/ table[id] = None /\ HasRoom(client[c].subject) /\ dirs' = dirs \cup {id}
    /\ UNCHANGED <<table, ses, requests>>

\* ... or ffmpeg runs, and the session owns the stream.
Start(c) ==
    /\ client[c].at = "start" /\ table[client[c].id] = None
    /\ HasRoom(client[c].subject)
    /\ \E s \in Sessions :
          /\ ses[s].stage = "unborn"
          /\ \A x \in 1..(s - 1) : ses[x].stage # "unborn"
          /\ table' = [table EXCEPT ![client[c].id] = s]
          /\ ses' = [ses EXCEPT ![s] =
                        [id |-> client[c].id, subject |-> client[c].subject,
                         stage |-> "listed", idle |-> FALSE, armed |-> TRUE,
                         fired |-> FALSE, proc |-> "running", done |-> 0]]
          /\ open' = IF c \in open THEN (open \ {c}) \cup {s} ELSE open
    /\ dirs' = dirs \cup {client[c].id}
    /\ Returns(c)
    /\ UNCHANGED <<requests, faults>>

\* DELETE of the playlist: expireNow.
Stop(c, id) ==
    /\ Arrives(c)
    /\ \/ table[id] # None /\ TakeOut(table[id], FALSE)
       \/ table[id] = None /\ UNCHANGED <<table, ses>>
    /\ UNCHANGED <<dirs, open, client, faults>>

----------------------------------------------------------------------------
(* Time, ffmpeg and terminate.                                             *)

\* Fifteen seconds pass without an access.
GoesIdle(s) ==
    /\ Listed(s) /\ ~ses[s].idle
    /\ ses' = [ses EXCEPT ![s].idle = TRUE]
    /\ UNCHANGED <<table, dirs, open, client, requests, faults>>

\* The timer of session s starts the goroutine of expire(id).
TimerFires(s) ==
    /\ ses[s].armed /\ ~ses[s].fired /\ (Listed(s) => ses[s].idle)
    /\ ses' = [ses EXCEPT ![s].armed = FALSE, ![s].fired = TRUE]
    /\ UNCHANGED <<table, dirs, open, client, requests, faults>>

\* Variant: the time of the last access is not looked at.
ExpireUnasked(s) ==
    LET t == table[ses[s].id]
        fired == [ses EXCEPT ![s].fired = FALSE]
    IN  /\ ses[s].fired
        /\ \/ t = None /\ ses' = fired /\ UNCHANGED table
           \/ /\ t # None
              /\ table' = [table EXCEPT ![ses[t].id] = None]
              /\ ses' = [fired EXCEPT ![t].stage = "cancel"]
        /\ UNCHANGED <<dirs, open, client, requests, faults>>

\* Variant: the session is deleted and not terminated.
ExpireWithoutTerminate(s) ==
    LET t == table[ses[s].id]
        fired == [ses EXCEPT ![s].fired = FALSE]
    IN  /\ ses[s].fired
        /\ \/ t = None /\ ses' = fired /\ UNCHANGED table
           \/ /\ t # None /\ ~ses[t].idle
              /\ ses' = [fired EXCEPT ![t].armed = TRUE] /\ UNCHANGED table
           \/ /\ t # None /\ ses[t].idle
              /\ table' = [table EXCEPT ![ses[t].id] = None]
              /\ ses' = fired
        /\ UNCHANGED <<dirs, open, client, requests, faults>>

\* expire has the mutex.  It goes by id: the session it finds may be another
\* one, or one that was asked for since the timer fired.
Expire(s) ==
    LET t == table[ses[s].id]
        fired == [ses EXCEPT ![s].fired = FALSE]
    IN  /\ ses[s].fired
        /\ \/ t = None /\ ses' = fired /\ UNCHANGED table
           \/ /\ t # None /\ ~ses[t].idle
              /\ ses' = [fired EXCEPT ![t].armed = TRUE] /\ UNCHANGED table
           \/ /\ t # None /\ ses[t].idle
              /\ table' = [table EXCEPT ![ses[t].id] = None]
              /\ ses' = [fired EXCEPT ![t].stage = "cancel"]
        /\ UNCHANGED <<dirs, open, client, requests, faults>>

\* terminate: the context is cancelled and the input closed.
Cancel(s) ==
    /\ ses[s].stage = "cancel"
    /\ ses' = [ses EXCEPT ![s].stage = "wait"]
    /\ open' = open \ {s}
    /\ UNCHANGED <<table, dirs, client, requests, faults>>

\* ... ffmpeg is gone, or five seconds are: the directory is removed.
RemoveDir(s) ==
    /\ ses[s].stage = "wait"
    /\ ses' = [ses EXCEPT ![s].stage = "gone"]
    /\ dirs' = dirs \ {ses[s].id}
    /\ UNCHANGED <<table, open, client, requests, faults>>

\* ffmpeg ends: its input ended, it failed, or it was killed.
FFmpegExits(s) ==
    /\ ses[s].proc = "running"
    /\ ses' = [ses EXCEPT ![s].proc = "exited"]
    /\ UNCHANGED <<table, dirs, open, client, requests, faults>>

\* Variant: the goroutine waits again.
ReapAndStay(s) ==
    /\ ses[s].proc = "exited"
    /\ ses' = [ses EXCEPT ![s].done = @ + 1]
    /\ open' = open \ {s}
    /\ UNCHANGED <<table, dirs, client, requests, faults>>

\* cmd.Wait returned: the input is closed, then done.
Reap(s) ==
    /\ ses[s].proc = "exited"
    /\ ses' = [ses EXCEPT ![s].proc = "reaped", ![s].done = @ + 1]
    /\ open' = open \ {s}
    /\ UNCHANGED <<table, dirs, client, requests, faults>>

HandlerStep(c) ==
    OpenStream(c) \/ Reuse(c) \/ Reject(c) \/ StartFails(c) \/ Start(c)

SessionStep(s) ==
    \/ GoesIdle(s) \/ TimerFires(s) \/ Expire(s) \/ Cancel(s) \/ RemoveDir(s)
    \/ FFmpegExits(s) \/ Reap(s)

\* Every session has ended, and nobody asks any more.
Quiet ==
    /\ requests = 0 /\ \A c \in Clients : client[c] = Waiting
    /\ \A s \in Sessions : /\ ses[s].stage \in {"unborn", "gone"}
                            /\ ses[s].proc \in {"none", "reaped"}

Next ==
    \/ \E c \in Clients :
          \/ HandlerStep(c)
          \/ \E id \in Ids :
                Segment(c, id) \/ Watch(c, id) \/ Play(c, id) \/ Stop(c, id)
    \/ \E s \in Sessions : SessionStep(s)
    \/ Quiet /\ UNCHANGED vars

Spec == Init /\ [][Next]_vars

\* Time passes, timers and goroutines run, a killed process exits.
FairSpec ==
    /\ Spec
    /\ \A c \in Clients : WF_vars(HandlerStep(c))
    /\ \A s \in Sessions :
          /\ WF_vars(GoesIdle(s)) /\ WF_vars(TimerFires(s))
          /\ WF_vars(Expire(s)) /\ WF_vars(Cancel(s)) /\ WF_vars(RemoveDir(s))
          /\ WF_vars(ses[s].stage \in {"wait", "gone"} /\ FFmpegExits(s))
          /\ WF_vars(Reap(s))

----------------------------------------------------------------------------
\* Neither limit of the table is ever exceeded, though the handlers open a
\* stream between their look at the table and the start (hls.go:293).
WithinLimits ==
    /\ Cardinality({id \in Ids : table[id] # None}) <= MaxHLSSessions
    /\ \A u \in Subjects : CountFor(u) <= MaxHLSSessionsPerSubject

\* A tuner stream is never left open: its holder is a handler that will pass
\* it on or close it, or a session that is listed or about to be cancelled,
\* and whose ffmpeg has not been reaped.
StreamsHeld ==
    /\ \A c \in open \cap Clients : client[c].at = "start"
    /\ \A s \in open \cap Sessions :
          ses[s].stage \in {"listed", "cancel"} /\ ~Finished(s)

\* An ffmpeg process that is not in the table any more has been cancelled, or
\* terminate is about to do so; lookup drops a session only when it is over.
EncodersOwned ==
    \A s \in Sessions : ses[s].proc = "running" =>
        \/ table[ses[s].id] = s
        \/ ses[s].stage = "cancel"
        \/ ses[s].stage \in {"wait", "gone"} /\ s \notin open

\* A session directory has an owner, unless a start failed after making it.
DirsOwned ==
    faults = MaxFaults => \A id \in dirs :
        \/ table[id] # None
        \/ \E s \in Sessions : ses[s].id = id /\ ses[s].stage \in {"cancel", "wait"}

\* No stream, process or directory is left without somebody to see to it.
NothingLeaks == StreamsHeld /\ EncodersOwned /\ DirsOwned

\* No timer ends a session that was asked for within 15 seconds, not even the
\* timer of an earlier session of the same id.
RecentlyUsedStays ==
    [][\A s \in Sessions :
          Listed(s) /\ ~ses[s].idle /\ ses'[s].stage = "cancel"
             => requests' # requests]_vars

\* Once nobody asks any more a session ends: ffmpeg exits and its stream is
\* closed, whichever of timer, stop and ffmpeg came first.
SessionsEnd ==
    \A s \in Sessions :
        Listed(s) ~> /\ ses[s].stage = "gone" /\ ses[s].proc # "running"
                     /\ s \notin open
=============================================================================
