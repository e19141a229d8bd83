---------------------------- MODULE PlayerProofs ----------------------------
(***************************************************************************)
(* The player for every set of tokens and every length of its queue: the   *)
(* type invariant, what its invariants say of a closed dialog, of the      *)
(* subtitles and of the stops, and that it keeps the safety part of its    *)
(* promise (PlaybackPromise).                                              *)
(***************************************************************************)
EXTENDS Player, TLAPS

Entries == [url : SourceOrNone, next : SourceOrNone]

\* The queue of stops and the source played; every action changes them in one
\* of five ways.
QueueOK ==
  /\ current \in SourceOrNone
  /\ chain \in Seq(Entries)
  /\ QueueShape
  /\ PlaysAfterStops

Stops(next) == chain' = Queued(current, next) /\ current' = None

Voids == chain' = Voided /\ UNCHANGED current

QueueStep ==
  \/ \E s \in Sources : Stops(s) /\ s.token \notin InUse
  \/ Stops(None)
  \/ Voids
  \/ StopAnswered
  \/ StopSettles
  \/ UNCHANGED <<chain, current>>

-----------------------------------------------------------------------------
(* The queue.                                                              *)

\* What voiding leaves of the queue.
LEMMA VoidedIs ==
  ASSUME QueueOK
  PROVE  /\ Voided \in Seq(Entries)
         /\ Len(Voided) = Len(chain)
         /\ \A i \in 1 .. Len(chain) : /\ Voided[i] \in Entries
                                       /\ Voided[i].next = None
                                       /\ Voided[i].url = chain[i].url
<1>1. DOMAIN chain = 1 .. Len(chain) /\ Len(chain) \in Nat
  BY DEF QueueOK
<1>2. \A i \in 1 .. Len(chain) : chain[i] \in Entries
  BY <1>1 DEF QueueOK
<1>3. Voided = [i \in 1 .. Len(chain) |-> [url |-> chain[i].url, next |-> None]]
  BY <1>1 DEF Voided
<1>4. \A i \in 1 .. Len(chain) : /\ Voided[i] \in Entries
                                 /\ Voided[i].next = None
                                 /\ Voided[i].url = chain[i].url
  BY <1>2, <1>3 DEF Entries, SourceOrNone
<1>5. Voided \in [1 .. Len(chain) -> Entries]
  BY <1>3, <1>4
<1>6. Voided \in Seq(Entries) /\ Len(Voided) = Len(chain)
  BY <1>1, <1>5
<1> QED
  BY <1>4, <1>6

\* What a stop queued behind the others makes of the queue.
LEMMA QueuedIs ==
  ASSUME QueueOK, NEW n \in SourceOrNone
  PROVE  LET c == Queued(current, n)
         IN  /\ c \in Seq(Entries)
             /\ Len(c) = Len(chain) + 1
             /\ c[Len(c)].next = n
             /\ c[1].url = Held
             /\ \A i \in 1 .. Len(c) : /\ i < Len(c) => c[i].next = None
                                       /\ i > 1 => c[i].url = None
<1> DEFINE e == [url |-> current, next |-> n]
<1>1. e \in Entries /\ e.url = current /\ e.next = n
  BY DEF QueueOK, Entries
<1>2. /\ Voided \in Seq(Entries) /\ Len(Voided) = Len(chain)
      /\ \A i \in 1 .. Len(chain) : /\ Voided[i].next = None
                                    /\ Voided[i].url = chain[i].url
  BY VoidedIs
<1>3. Len(chain) \in Nat /\ DOMAIN chain = 1 .. Len(chain)
      /\ (chain = <<>> <=> Len(chain) = 0)
  BY DEF QueueOK
<1> DEFINE c == Append(Voided, e)
<1>4. c \in Seq(Entries) /\ Len(c) = Len(chain) + 1 /\ c[Len(c)] = e
      /\ \A i \in 1 .. Len(chain) : c[i] = Voided[i]
  <2> HIDE DEF e
  <2> QED BY <1>1, <1>2, <1>3
<1>5. c[1].url = Held
  <2>1. CASE Len(chain) = 0
    BY <2>1, <1>1, <1>3, <1>4 DEF Held
  <2>2. CASE Len(chain) > 0
    BY <2>2, <1>2, <1>3, <1>4 DEF Held
  <2> QED BY <2>1, <2>2, <1>3
<1>6. ASSUME NEW i \in 1 .. Len(c), i > 1 PROVE c[i].url = None
  <2>1. CASE i <= Len(chain)
    BY <2>1, <1>2, <1>3, <1>4, <1>6 DEF QueueOK, QueueShape
  <2>2. CASE i = Len(chain) + 1
    <3>1. chain # <<>>
      BY <2>2, <1>3, <1>6
    <3>2. current = None
      BY <3>1 DEF QueueOK, PlaysAfterStops
    <3> QED BY <3>2, <2>2, <1>1, <1>4
  <2> QED BY <2>1, <2>2, <1>3, <1>4
<1>7. ASSUME NEW i \in 1 .. Len(c), i < Len(c) PROVE c[i].next = None
  BY <1>2, <1>3, <1>4, <1>7
<1>8. Queued(current, n) = c
  BY DEF Queued
<1> HIDE DEF c, e
<1> QED
  BY <1>1, <1>4, <1>5, <1>6, <1>7, <1>8

-----------------------------------------------------------------------------
(* What each step of the queue does to it and to the promise.              *)

\* The queue has the entries 1 .. Len(chain), each with its two sources.
LEMMA Basics ==
  ASSUME QueueOK
  PROVE  /\ Len(chain) \in Nat /\ DOMAIN chain = 1 .. Len(chain)
         /\ chain = <<>> <=> Len(chain) = 0
         /\ \A i \in 1 .. Len(chain) : chain[i] \in Entries
         /\ \A i \in 1 .. Len(chain) : /\ chain[i].url \in SourceOrNone
                                       /\ chain[i].next \in SourceOrNone
<1>1. Len(chain) \in Nat /\ DOMAIN chain = 1 .. Len(chain) /\ (chain = <<>> <=> Len(chain) = 0)
  BY DEF QueueOK
<1>2. \A i \in 1 .. Len(chain) : chain[i] \in Entries
  BY <1>1 DEF QueueOK
<1>3. \A x \in Entries : x.url \in SourceOrNone /\ x.next \in SourceOrNone
  BY DEF Entries
<1> QED
  BY <1>1, <1>2, <1>3

\* A stop with a source, or nothing, to follow keeps the queue, makes that the
\* source wanted and leaves the one held.
LEMMA StopsStep ==
  ASSUME QueueOK, NEW n \in SourceOrNone, Stops(n)
  PROVE  QueueOK' /\ Wanted' = n /\ Held' = Held /\ current' = None
<1>1. /\ chain' \in Seq(Entries) /\ Len(chain') = Len(chain) + 1
      /\ chain'[Len(chain')].next = n /\ chain'[1].url = Held
      /\ \A i \in 1 .. Len(chain') : /\ i < Len(chain') => chain'[i].next = None
                                     /\ i > 1 => chain'[i].url = None
  BY QueuedIs DEF Stops
<1>2. current' = None /\ Len(chain) \in Nat
  BY Basics DEF Stops
<1>3. chain' # <<>> /\ DOMAIN chain' = 1 .. Len(chain')
  BY <1>1, <1>2
<1>4. QueueOK'
  BY <1>1, <1>2, <1>3 DEF QueueOK, QueueShape, PlaysAfterStops, SourceOrNone
<1>5. Wanted' = n /\ Held' = Held
  BY <1>1, <1>3 DEF Wanted, Held
<1> QED BY <1>2, <1>4, <1>5

\* Voiding keeps the queue; nothing waits for a stop any more.
LEMMA VoidsStep ==
  ASSUME QueueOK, Voids
  PROVE  /\ QueueOK' /\ Held' = Held /\ current' = current
         /\ Wanted' = IF chain = <<>> THEN Wanted ELSE None
<1>1. /\ chain' \in Seq(Entries) /\ Len(chain') = Len(chain)
      /\ \A i \in 1 .. Len(chain) : /\ chain'[i].next = None
                                    /\ chain'[i].url = chain[i].url
      /\ current' = current
  BY VoidedIs DEF Voids
<1>2. Len(chain) \in Nat /\ (chain = <<>> <=> Len(chain) = 0)
      /\ DOMAIN chain = 1 .. Len(chain) /\ DOMAIN chain' = 1 .. Len(chain)
      /\ (chain' = <<>> <=> Len(chain) = 0)
  BY <1>1, Basics
<1>3. QueueShape'
  BY <1>1, <1>2 DEF QueueShape, QueueOK
<1>4. QueueOK'
  BY <1>1, <1>2, <1>3 DEF QueueOK, PlaysAfterStops
<1>5. Held' = Held
  BY <1>1, <1>2 DEF Held
<1>6. Wanted' = IF chain = <<>> THEN Wanted ELSE None
  BY <1>1, <1>2 DEF Wanted
<1> QED BY <1>1, <1>4, <1>5, <1>6

\* An answer releases the source held, if it was held, and changes nothing else.
LEMMA AnsweredStep ==
  ASSUME QueueOK, StopAnswered
  PROVE  /\ QueueOK' /\ Wanted' = Wanted /\ current' = current
         /\ current = None /\ Held' = None
<1> DEFINE e == [url |-> None, next |-> chain[1].next]
<1>1. chain # <<>> /\ current' = current /\ chain' = [chain EXCEPT ![1] = e]
  BY DEF StopAnswered
<1>2. Len(chain) \in Nat /\ Len(chain) > 0 /\ DOMAIN chain = 1 .. Len(chain)
  BY <1>1, Basics
<1>3. e \in Entries /\ e.url = None /\ e.next = chain[1].next
  BY <1>2, Basics DEF Entries, SourceOrNone
<1> HIDE DEF e
<1>4. /\ chain' \in Seq(Entries) /\ Len(chain') = Len(chain) /\ chain'[1] = e
      /\ \A i \in 2 .. Len(chain) : chain'[i] = chain[i]
  BY <1>1, <1>2, <1>3 DEF QueueOK
<1>5. \A i \in 1 .. Len(chain) : chain'[i].next = chain[i].next
  BY <1>2, <1>3, <1>4
<1>6. \A i \in 2 .. Len(chain) : chain'[i].url = chain[i].url
  BY <1>4
<1>7. chain' # <<>> /\ DOMAIN chain' = 1 .. Len(chain)
  BY <1>2, <1>4
<1>8. QueueShape'
  BY <1>2, <1>4, <1>5, <1>6, <1>7 DEF QueueOK, QueueShape
<1>9. current = None
  BY <1>1 DEF QueueOK, PlaysAfterStops
<1>10. QueueOK'
  BY <1>1, <1>4, <1>8, <1>9 DEF QueueOK, PlaysAfterStops
<1>11. Wanted' = Wanted
  BY <1>1, <1>2, <1>4, <1>5, <1>7 DEF Wanted
<1>12. Held' = None
  BY <1>3, <1>4, <1>7 DEF Held
<1> QED BY <1>1, <1>9, <1>10, <1>11, <1>12

\* When a stop has settled, either nothing follows it and the rest of the queue
\* moves up, or it was the last and its source starts, or fails to and is
\* stopped in turn.
LEMMA SettlesStep ==
  ASSUME QueueOK, StopSettles
  PROVE  /\ QueueOK' /\ current = None /\ Held = None
         /\ \/ Wanted' = Wanted /\ current' = None /\ Held' = None
            \/ /\ Wanted \in Sources /\ Held' = Wanted
               /\ \/ Wanted' = Wanted /\ current' = Wanted
                  \/ Wanted' = None /\ current' = None
<1> DEFINE s == chain[1].next
<1>1. chain # <<>> /\ Len(chain) \in Nat /\ Len(chain) > 0 /\ DOMAIN chain = 1 .. Len(chain)
      /\ Head(chain) = chain[1]
  BY Basics DEF StopSettles, QueueOK
<1>2. current = None /\ chain[1].url = None /\ Held = None
  BY <1>1 DEF StopSettles, QueueOK, PlaysAfterStops, Held
<1>3. s \in SourceOrNone /\ (s # None => Len(chain) = 1)
  BY <1>1, Basics DEF QueueOK, QueueShape
<1>4. /\ Tail(chain) \in Seq(Entries) /\ Len(Tail(chain)) = Len(chain) - 1
      /\ DOMAIN Tail(chain) = 1 .. (Len(chain) - 1)
      /\ \A i \in 1 .. (Len(chain) - 1) : Tail(chain)[i] = chain[i + 1]
  BY <1>1 DEF QueueOK
<1>5. CASE s = None /\ chain' = Tail(chain) /\ current' = current
  <2>1. QueueShape'
    BY <1>1, <1>4, <1>5 DEF QueueOK, QueueShape
  <2>2. QueueOK'
    BY <1>2, <1>4, <1>5, <2>1 DEF QueueOK, PlaysAfterStops
  <2>3. CASE Len(chain) = 1
    <3>1. chain' = <<>>
      BY <2>3, <1>4, <1>5
    <3> QED BY <3>1, <2>2, <2>3, <1>1, <1>2, <1>5 DEF Wanted, Held
  <2>4. CASE Len(chain) > 1
    <3>1. chain' # <<>> /\ Len(chain') = Len(chain) - 1
      BY <2>4, <1>1, <1>4, <1>5
    <3>2. chain'[Len(chain')] = chain[Len(chain)] /\ chain'[1] = chain[2] /\ chain[2].url = None
      BY <3>1, <2>4, <1>1, <1>4, <1>5 DEF QueueOK, QueueShape
    <3> QED BY <3>1, <3>2, <2>2, <1>1, <1>2, <1>5 DEF Wanted, Held
  <2> QED BY <2>3, <2>4, <1>1
<1>6. CASE s # None /\ current' = s /\ chain' = Tail(chain)
  <2>1. Len(chain) = 1 /\ chain' = <<>> /\ chain' \in Seq(Entries) /\ DOMAIN chain' = {}
    BY <1>3, <1>4, <1>6
  <2>2. QueueOK'
    BY <2>1, <1>3, <1>6 DEF QueueOK, QueueShape, PlaysAfterStops
  <2>3. Wanted = s /\ s \in Sources
    BY <2>1, <1>1, <1>3, <1>6 DEF Wanted, SourceOrNone
  <2>4. Wanted' = s /\ Held' = s
    BY <2>1, <1>6 DEF Wanted, Held
  <2> QED BY <1>2, <1>6, <2>2, <2>3, <2>4
<1>7. CASE /\ s # None /\ current' = current
           /\ chain' = Append(Tail(chain), [url |-> s, next |-> None])
  <2> DEFINE e == [url |-> s, next |-> None]
  <2>1. e \in Entries /\ e.url = s /\ e.next = None
    BY <1>3 DEF Entries, SourceOrNone
  <2>2. Len(chain) = 1 /\ Tail(chain) = <<>>
    BY <1>3, <1>4, <1>7
  <2>3. chain' = Append(<<>>, e)
    BY <2>2, <1>7
  <2> HIDE DEF e
  <2>4. chain' \in Seq(Entries) /\ DOMAIN chain' = 1 .. 1 /\ Len(chain') = 1 /\ chain'[1] = e
        /\ chain' # <<>>
    BY <2>1, <2>3
  <2>5. QueueOK'
    BY <2>4, <1>2, <1>7 DEF QueueOK, QueueShape, PlaysAfterStops
  <2>6. Wanted = s /\ s \in Sources
    BY <2>2, <1>1, <1>3, <1>7 DEF Wanted, SourceOrNone
  <2>7. Wanted' = None /\ Held' = s
    BY <2>1, <2>4 DEF Wanted, Held
  <2> QED BY <1>2, <1>7, <2>5, <2>6, <2>7
<1> QED BY <1>1, <1>5, <1>6, <1>7 DEF StopSettles

-----------------------------------------------------------------------------
(* The actions.                                                            *)

\* The types of the other variables.
RestTypes ==
  /\ device \in Kinds
  /\ open \in BOOLEAN /\ closing \in BOOLEAN /\ retry \in BOOLEAN
  /\ waiting \in BOOLEAN /\ wantSubs \in BOOLEAN /\ cut \in BOOLEAN
  /\ builder \in Builders \cup {None}
  /\ script \in {"absent", "loading", "loaded"}
  /\ status \in {"", "info", "error"}
  /\ track \in Tokens \cup {Own, None}
  /\ subFetch \in Tokens \cup {None}
  /\ cues \in Tokens \cup {None}
  /\ subStops \subseteq Tokens

\* TypeOK in its two parts.
LEMMA Types == TypeOK <=> QueueOK /\ RestTypes
BY DEF TypeOK, QueueOK, RestTypes, Entries, Sources

\* A source is made for a token not in use, and every builder has a kind.
LEMMA SetSource ==
  ASSUME RestTypes, NEW b \in Builders, setPlayerSource(b)
  PROVE  /\ \E s \in Sources : Stops(s) /\ s.token \notin InUse
         /\ waiting' = FALSE /\ cut' = FALSE
         /\ subFetch' = None /\ cues' = None
         /\ resetPlayerSubtitleTrack
<1>1. PICK t \in Tokens \ InUse : /\ queuePlaybackStop([token |-> t, kind |-> Kind(b)])
                                  /\ resetPlayerSubtitleTrack
                                  /\ stopPlayerLiveSubtitles
  BY DEF setPlayerSource
<1> DEFINE s == [token |-> t, kind |-> Kind(b)]
<1>2. Kind(b) \in Kinds
  BY DEF RestTypes, Builders, Kinds, Kind
<1>3. s \in Sources /\ s.token = t
  BY <1>2 DEF Sources
<1>4. Stops(s) /\ s.token \notin InUse
  BY <1>1, <1>3 DEF Stops, queuePlaybackStop
<1>5. \E x \in Sources : Stops(x) /\ x.token \notin InUse
  BY <1>3, <1>4
<1> QED BY <1>1, <1>5 DEF queuePlaybackStop, stopPlayerLiveSubtitles

\* What stopping the video does beside the queue.
LEMMA StopVideo ==
  ASSUME stopPlayerVideo
  PROVE  /\ Stops(None) /\ waiting' = FALSE /\ cut' = FALSE
         /\ subFetch' = None /\ cues' = None /\ builder' = None /\ wantSubs' = FALSE
         /\ resetPlayerSubtitleTrack
BY DEF stopPlayerVideo, queuePlaybackStop, Stops, stopPlayerLiveSubtitles

\* The steps of the queue, beside stuttering, of which the actions consist.
LEMMA QueueSteps ==
  ASSUME RestTypes, [Next]_vars
  PROVE  QueueStep
<1>0. /\ "recorded" \in Builders /\ "recording" \in Builders /\ "channel" \in Builders
      /\ \A b : b \in Builders \cup {None} /\ b # None => b \in Builders
  BY DEF Builders
<1>1. ASSUME NEW b \in {"recorded", "recording"}, OpenRecording(b) PROVE QueueStep
  BY <1>0, <1>1, SetSource DEF OpenRecording, QueueStep
<1>2. CASE openLiveChannelPlayer
  BY <1>2 DEF openLiveChannelPlayer, QueueStep, Stops
<1>3. CASE retryPlayerSource
  <2>1. CASE chain' = Voided /\ UNCHANGED current
    BY <2>1 DEF QueueStep, Voids
  <2>2. CASE builder # None /\ setPlayerSource(builder)
    <3>1. builder \in Builders
      BY <2>2, <1>0 DEF RestTypes
    <3> QED BY <3>1, <2>2, SetSource DEF QueueStep
  <2> QED BY <1>3, <2>1, <2>2 DEF retryPlayerSource
<1>4. ASSUME AdjustSource PROVE QueueStep
  <2>1. builder \in Builders /\ setPlayerSource(builder)
    BY <1>0, <1>4 DEF RestTypes, AdjustSource
  <2> QED BY <2>1, SetSource DEF QueueStep
<1>5. CASE seekPlayerToRange
  BY <1>4, <1>5 DEF seekPlayerToRange
<1>6. CASE CloseEvent \/ PageHide
  BY <1>6, StopVideo DEF CloseEvent, PageHide, QueueStep
<1>7. CASE LibraryReady
  <2>1. CASE setPlayerSource("channel")
    BY <2>1, <1>0, SetSource DEF QueueStep
  <2>2. CASE UNCHANGED <<current, chain>>
    BY <2>2 DEF QueueStep
  <2> QED BY <1>7, <2>1, <2>2 DEF LibraryReady
<1>8. CASE StopAnswered \/ StopSettles
  BY <1>8 DEF QueueStep
<1>9. CASE \/ changePlayerSubtitle \/ closePlayerDialog
           \/ ScriptLoads \/ ScriptFails \/ MediaEvent \/ CuesArrive
           \/ LiveSubtitlesEnd \/ TrackFails
           \/ \E t \in Tokens : TrackStopHandled(t)
           \/ UNCHANGED vars
  BY <1>9 DEF changePlayerSubtitle, closePlayerDialog, ScriptLoads, ScriptFails, MediaEvent,
     CuesArrive, LiveSubtitlesEnd, TrackFails, TrackStopHandled, vars, QueueStep
<1> QED BY <1>1, <1>2, <1>3, <1>4, <1>5, <1>6, <1>7, <1>8, <1>9 DEF Next

\* Every step keeps the queue in order.
LEMMA QueueKept ==
  ASSUME QueueOK, QueueStep
  PROVE  QueueOK'
<1>1. \A s \in Sources : s \in SourceOrNone
  BY DEF SourceOrNone
<1>2. None \in SourceOrNone
  BY DEF SourceOrNone
<1>3. CASE UNCHANGED <<chain, current>>
  BY <1>3 DEF QueueOK, QueueShape, PlaysAfterStops
<1> QED BY <1>1, <1>2, <1>3, StopsStep, VoidsStep, AnsweredStep, SettlesStep DEF QueueStep

-----------------------------------------------------------------------------
(* The promise.                                                            *)

\* The source held is one whose token is in use.
LEMMA HeldInUse ==
  ASSUME QueueOK
  PROVE  Held \in SourceOrNone /\ (Held # None => Held.token \in InUse)
<1>1. CASE chain = <<>>
  <2>1. Held = current /\ current \in SourceOrNone
    BY <1>1 DEF Held, QueueOK
  <2> QED BY <2>1 DEF InUse
<1>2. CASE chain # <<>>
  <2>1. Held = chain[1].url /\ 1 \in DOMAIN chain /\ Held \in SourceOrNone
    BY <1>2, Basics DEF Held
  <2>2. Held \in {chain[i].url : i \in DOMAIN chain}
    BY <2>1
  <2> QED BY <2>1, <2>2 DEF InUse
<1> QED BY <1>1, <1>2

\* Every step of the queue is a step of the promise or changes nothing of it.
LEMMA PromiseStep ==
  ASSUME QueueOK, QueueStep
  PROVE  [Promise!PromiseNext]_(Promise!promise)
<1> USE DEF Promise!PromiseNext, Promise!promise
<1>1. ASSUME NEW s \in Sources, Stops(s), s.token \notin InUse
      PROVE  Promise!Choose(s)
  <2>1. s \in SourceOrNone /\ s # None
    BY NoneAssumption DEF SourceOrNone
  <2>2. s # Held
    BY <2>1, <1>1, HeldInUse
  <2> QED BY <1>1, <2>1, <2>2, StopsStep DEF Promise!Choose
<1>2. CASE Stops(None)
  <2>1. None \in SourceOrNone
    BY DEF SourceOrNone
  <2> QED BY <1>2, <2>1, StopsStep DEF Promise!Leave
<1>3. CASE Voids
  <2>1. CASE chain = <<>>
    BY <1>3, <2>1, VoidsStep
  <2>2. CASE chain # <<>>
    <3>1. current = None
      BY <2>2 DEF QueueOK, PlaysAfterStops
    <3> QED BY <1>3, <2>2, <3>1, VoidsStep DEF Promise!Leave
  <2> QED BY <2>1, <2>2
<1>4. CASE StopAnswered
  BY <1>4, AnsweredStep DEF Promise!Release
<1>5. CASE StopSettles
  <2>1. None \notin Sources
    BY NoneAssumption
  <2> QED BY <1>5, <2>1, SettlesStep DEF Promise!Start
<1>6. CASE UNCHANGED <<chain, current>>
  BY <1>6 DEF Wanted, Held
<1> QED BY <1>1, <1>2, <1>3, <1>4, <1>5, <1>6 DEF QueueStep

-----------------------------------------------------------------------------
(* The other variables.                                                    *)

\* A reset leaves tokens where there were tokens.
LEMMA ResetTypes ==
  ASSUME RestTypes, resetPlayerSubtitleTrack
  PROVE  track' = None /\ subStops' \subseteq Tokens
BY DEF RestTypes, resetPlayerSubtitleTrack

\* Updating the track for a source receives no other source's subtitles.
LEMMA UpdateTypes ==
  ASSUME RestTypes, NEW c \in SourceOrNone, NEW w \in BOOLEAN, updatePlayerSubtitleTrack(c, w)
  PROVE  /\ track' \in Tokens \cup {Own, None} /\ subStops' \subseteq Tokens
         /\ subFetch' \in Tokens \cup {None} /\ cues' = None
         /\ subFetch' # None => c # None /\ subFetch' = c.token
<1>1. c # None => c.token \in Tokens
  BY DEF SourceOrNone, Sources
<1>2. track' \in Tokens \cup {Own, None} /\ subStops' \subseteq Tokens
  BY <1>1, ResetTypes DEF updatePlayerSubtitleTrack, RestTypes
<1>3. /\ subFetch' \in Tokens \cup {None} /\ cues' = None
      /\ subFetch' # None => c # None /\ subFetch' = c.token
  BY <1>1 DEF updatePlayerSubtitleTrack
<1> QED BY <1>2, <1>3

\* Every step keeps the types of the other variables.
LEMMA RestTypesKept ==
  ASSUME QueueOK, RestTypes, [Next]_vars
  PROVE  RestTypes'
<1>0. /\ Builders = {"channel", "recorded", "recording"}
      /\ None \in SourceOrNone /\ current \in SourceOrNone
      /\ \A b : b \in Builders \cup {None} /\ b # None => b \in Builders
  BY DEF Builders, SourceOrNone, QueueOK
<1>1. ASSUME NEW b \in {"recorded", "recording"}, OpenRecording(b) PROVE RestTypes'
  <2>1. b \in Builders
    BY <1>0
  <2> QED BY <1>1, <2>1, SetSource, ResetTypes DEF OpenRecording, RestTypes
<1>2. CASE openLiveChannelPlayer
  BY <1>2, ResetTypes DEF openLiveChannelPlayer, start, stopPlayerLiveSubtitles, RestTypes
<1>3. CASE retryPlayerSource
  <2>1. CASE start /\ UNCHANGED <<cut, track, subStops, subFetch, cues>>
    BY <1>3, <2>1 DEF retryPlayerSource, start, RestTypes
  <2>2. CASE builder # None /\ setPlayerSource(builder) /\ status' = "" /\ UNCHANGED script
    <3>1. builder \in Builders
      BY <1>0, <2>2 DEF RestTypes
    <3> QED BY <1>3, <2>2, <3>1, SetSource, ResetTypes DEF retryPlayerSource, RestTypes
  <2> QED BY <1>3, <2>1, <2>2 DEF retryPlayerSource
<1>4. ASSUME AdjustSource PROVE RestTypes'
  <2>1. builder \in Builders
    BY <1>0, <1>4 DEF RestTypes, AdjustSource
  <2> QED BY <1>4, <2>1, SetSource, ResetTypes DEF AdjustSource, RestTypes
<1>5. CASE seekPlayerToRange
  BY <1>4, <1>5 DEF seekPlayerToRange
<1>6. CASE changePlayerSubtitle
  <2>1. wantSubs' \in BOOLEAN /\ updatePlayerSubtitleTrack(current, wantSubs')
    BY <1>6 DEF changePlayerSubtitle
  <2> QED BY <1>0, <1>6, <2>1, UpdateTypes DEF changePlayerSubtitle, RestTypes
<1>7. CASE CloseEvent \/ PageHide
  BY <1>7, StopVideo, ResetTypes DEF CloseEvent, PageHide, RestTypes
<1>8. CASE StopSettles
  <2> DEFINE s == Head(chain).next
  <2>1. chain # <<>> => s \in SourceOrNone
    BY Basics DEF QueueOK
  <2>2. CASE updatePlayerSubtitleTrack(s, wantSubs) /\ UNCHANGED status
    <3>1. wantSubs \in BOOLEAN
      BY DEF RestTypes
    <3> HIDE DEF s
    <3> QED BY <1>8, <2>1, <2>2, <3>1, UpdateTypes DEF StopSettles, RestTypes
  <2>3. CASE status' \in {status, "error"} /\ UNCHANGED <<track, subFetch, cues, subStops>>
    <3>1. UNCHANGED <<device, open, closing, builder, retry, script, waiting, wantSubs, cut>>
      BY <1>8 DEF StopSettles
    <3>2. status' \in {"", "info", "error"}
      BY <2>3 DEF RestTypes
    <3> QED BY <2>3, <3>1, <3>2 DEF RestTypes
  <2> QED BY <1>8, <2>2, <2>3 DEF StopSettles
<1>9. CASE LibraryReady
  BY <1>0, <1>9, SetSource, ResetTypes DEF LibraryReady, RestTypes
<1>10. CASE StopAnswered \/ closePlayerDialog \/ ScriptLoads \/ CuesArrive \/ UNCHANGED vars
  <2>1. CASE StopAnswered \/ closePlayerDialog
    BY <2>1 DEF StopAnswered, closePlayerDialog, RestTypes
  <2>2. CASE ScriptLoads
    BY <2>2 DEF ScriptLoads, RestTypes
  <2>3. CASE CuesArrive
    BY <2>3 DEF CuesArrive, RestTypes
  <2>4. CASE UNCHANGED vars
    <3>1. UNCHANGED <<device, open, closing, builder, retry, script, waiting, status, cut,
                      wantSubs, track, subFetch, cues, subStops>>
      BY <2>4 DEF vars
    <3>2. /\ open' \in BOOLEAN /\ closing' \in BOOLEAN /\ retry' \in BOOLEAN
          /\ waiting' \in BOOLEAN /\ wantSubs' \in BOOLEAN /\ cut' \in BOOLEAN
      BY <3>1 DEF RestTypes
    <3> QED BY <3>1, <3>2 DEF RestTypes
  <2> QED BY <1>10, <2>1, <2>2, <2>3, <2>4
<1>11. CASE ScriptFails \/ MediaEvent \/ LiveSubtitlesEnd \/ TrackFails
  <2>1. status' \in {"", "info", "error"}
    BY <1>11 DEF ScriptFails, ToldOfFailure, MediaEvent, LiveSubtitlesEnd, TrackFails, RestTypes
  <2> QED BY <1>11, <2>1 DEF ScriptFails, ToldOfFailure, MediaEvent, LiveSubtitlesEnd, TrackFails,
                             RestTypes
<1>12. ASSUME NEW t \in Tokens, TrackStopHandled(t) PROVE RestTypes'
  <2>1. cut' \in BOOLEAN
    <3> DEFINE hit == current # None /\ current.token = t /\ current.kind # "hls"
    <3>1. cut' \in {cut, cut \/ hit}
      BY <1>12 DEF TrackStopHandled
    <3>2. cut \in BOOLEAN
      BY DEF RestTypes
    <3> HIDE DEF hit
    <3> QED BY <3>1, <3>2, Zenon
  <2>2. /\ subStops' = subStops \ {t}
        /\ UNCHANGED <<device, open, closing, builder, retry, script, waiting, status,
                       wantSubs, track, subFetch, cues>>
    BY <1>12 DEF TrackStopHandled
  <2>3. subStops' \subseteq Tokens
    BY <2>2 DEF RestTypes
  <2>4. /\ open' \in BOOLEAN /\ closing' \in BOOLEAN /\ retry' \in BOOLEAN
        /\ waiting' \in BOOLEAN /\ wantSubs' \in BOOLEAN
    BY <2>2 DEF RestTypes
  <2> QED BY <2>1, <2>2, <2>3, <2>4 DEF RestTypes
<1> QED BY <1>1, <1>2, <1>3, <1>4, <1>5, <1>6, <1>7, <1>8, <1>9, <1>10, <1>11, <1>12 DEF Next

\* Every step keeps live subtitles with their source.
LEMMA SubtitlesKept ==
  ASSUME QueueOK, RestTypes, SubtitlesOfCurrent, [Next]_vars
  PROVE  SubtitlesOfCurrent'
<1>0. /\ current \in SourceOrNone
      /\ Builders = {"channel", "recorded", "recording"}
      /\ \A b : b \in Builders \cup {None} /\ b # None => b \in Builders
  BY DEF QueueOK, Builders
<1>1. CASE subFetch' = None /\ cues' = None
  BY <1>1 DEF SubtitlesOfCurrent
<1>2. CASE {subFetch', cues'} \subseteq {subFetch, cues, None} /\ UNCHANGED current
  BY <1>2 DEF SubtitlesOfCurrent
<1>3. ASSUME NEW b \in {"recorded", "recording"}, OpenRecording(b) PROVE SubtitlesOfCurrent'
  BY <1>0, <1>1, <1>3, SetSource DEF OpenRecording
<1>4. ASSUME AdjustSource PROVE SubtitlesOfCurrent'
  <2>1. builder \in Builders
    BY <1>0, <1>4 DEF RestTypes, AdjustSource
  <2> QED BY <1>1, <1>4, <2>1, SetSource DEF AdjustSource
<1>5. CASE retryPlayerSource
  <2>1. CASE UNCHANGED <<current, subFetch, cues>>
    BY <1>2, <2>1
  <2>2. CASE builder # None /\ setPlayerSource(builder)
    <3>1. builder \in Builders
      BY <1>0, <2>2 DEF RestTypes
    <3> QED BY <1>1, <2>2, <3>1, SetSource
  <2> QED BY <1>5, <2>1, <2>2 DEF retryPlayerSource
<1>6. CASE changePlayerSubtitle
  <2>1. wantSubs' \in BOOLEAN /\ updatePlayerSubtitleTrack(current, wantSubs') /\ current' = current
    BY <1>6 DEF changePlayerSubtitle
  <2> QED BY <1>0, <2>1, UpdateTypes DEF SubtitlesOfCurrent
<1>7. CASE StopSettles
  <2> DEFINE s == Head(chain).next
  <2>1. s \in SourceOrNone
    BY <1>7, Basics DEF QueueOK, StopSettles
  <2>2. CASE current' = s /\ updatePlayerSubtitleTrack(s, wantSubs)
    <3>1. wantSubs \in BOOLEAN
      BY DEF RestTypes
    <3> HIDE DEF s
    <3> QED BY <2>1, <2>2, <3>1, UpdateTypes DEF SubtitlesOfCurrent
  <2>3. CASE UNCHANGED <<current, subFetch, cues>>
    BY <1>2, <2>3
  <2> QED BY <1>7, <2>2, <2>3 DEF StopSettles
<1>8. CASE LibraryReady
  <2>1. CASE UNCHANGED <<current, subFetch, cues>>
    BY <1>2, <2>1
  <2>2. CASE setPlayerSource("channel")
    BY <1>0, <1>1, <2>2, SetSource
  <2> QED BY <1>8, <2>1, <2>2 DEF LibraryReady
<1>9. CASE openLiveChannelPlayer \/ CloseEvent \/ PageHide
  BY <1>1, <1>9, StopVideo DEF openLiveChannelPlayer, stopPlayerLiveSubtitles, CloseEvent, PageHide
<1>10. CASE \/ StopAnswered \/ closePlayerDialog \/ ScriptLoads \/ ScriptFails
            \/ MediaEvent \/ CuesArrive \/ LiveSubtitlesEnd \/ TrackFails
            \/ (\E t \in Tokens : TrackStopHandled(t))
            \/ UNCHANGED vars
  BY <1>2, <1>10 DEF StopAnswered, closePlayerDialog, ScriptLoads, ScriptFails,
     MediaEvent, CuesArrive, LiveSubtitlesEnd, TrackFails, TrackStopHandled, vars
<1>11. CASE seekPlayerToRange
  BY <1>4, <1>11 DEF seekPlayerToRange
<1> QED BY <1>3, <1>4, <1>5, <1>6, <1>7, <1>8, <1>9, <1>10, <1>11 DEF Next

-----------------------------------------------------------------------------
(* A closed dialog.                                                        *)

\* While it is closed no source follows a stop, so that settling one starts
\* nothing, and no action asks for a source, for the library or for subtitles.
LEMMA ClosedKept ==
  ASSUME QueueOK, RestTypes, NothingPlaysClosed, [Next]_vars
  PROVE  NothingPlaysClosed'
<1> DEFINE closed == ~open /\ ~closing
<1>0. None \in SourceOrNone
  BY DEF SourceOrNone
<1>1. CASE open' \/ closing'
  BY <1>1 DEF NothingPlaysClosed
<1>2. CASE closed /\ UNCHANGED <<current, chain, waiting, track, subFetch, cues>>
  BY <1>2 DEF NothingPlaysClosed, Wanted
<1>3. CASE CloseEvent \/ PageHide
  <2>1. stopPlayerVideo
    BY <1>3 DEF CloseEvent, PageHide
  <2>2. current' = None /\ Wanted' = None
    BY <1>0, <2>1, StopVideo, StopsStep
  <2>3. waiting' = FALSE /\ track' = None /\ subFetch' = None /\ cues' = None
    BY <2>1, StopVideo, ResetTypes
  <2> QED BY <2>2, <2>3 DEF NothingPlaysClosed
<1>4. CASE closed /\ StopAnswered
  <2>1. Wanted' = Wanted /\ current' = current
    BY <1>4, AnsweredStep
  <2> QED BY <1>4, <2>1 DEF StopAnswered, NothingPlaysClosed
<1>5. CASE closed /\ StopSettles
  <2>1. Wanted = None
    BY <1>5 DEF NothingPlaysClosed
  <2>2. Wanted' = None /\ current' = None
    BY <1>5, <2>1, SettlesStep, NoneAssumption
  <2>3. Head(chain).next = None
    <3>1. chain # <<>> /\ Len(chain) \in Nat /\ Len(chain) > 0 /\ DOMAIN chain = 1 .. Len(chain)
          /\ Head(chain) = chain[1]
      BY <1>5, Basics DEF StopSettles, QueueOK
    <3>2. CASE Len(chain) = 1
      BY <2>1, <3>1, <3>2 DEF Wanted
    <3>3. CASE Len(chain) > 1
      BY <3>1, <3>3 DEF QueueOK, QueueShape
    <3> QED BY <3>1, <3>2, <3>3
  <2>4. UNCHANGED <<waiting, track, subFetch, cues>>
    BY <1>5, <2>3 DEF StopSettles
  <2> QED BY <1>5, <2>2, <2>4 DEF NothingPlaysClosed
<1>6. CASE closed /\ (CuesArrive \/ LiveSubtitlesEnd \/ LibraryReady)
  BY <1>6 DEF CuesArrive, LiveSubtitlesEnd, LibraryReady, NothingPlaysClosed
<1>7. ASSUME NEW b \in {"recorded", "recording"}, OpenRecording(b) PROVE NothingPlaysClosed'
  BY <1>1, <1>7 DEF OpenRecording
<1>8. CASE openLiveChannelPlayer \/ closePlayerDialog
  BY <1>1, <1>8 DEF openLiveChannelPlayer, closePlayerDialog
<1>9. ASSUME AdjustSource PROVE NothingPlaysClosed'
  BY <1>1, <1>9 DEF AdjustSource
<1>10. CASE retryPlayerSource \/ changePlayerSubtitle
  <2>1. open /\ open' = open
    BY <1>10 DEF retryPlayerSource, changePlayerSubtitle
  <2> QED BY <1>1, <2>1
<1>11. CASE seekPlayerToRange
  BY <1>9, <1>11 DEF seekPlayerToRange
<1>12. CASE closed /\ (MediaEvent \/ TrackFails \/ ScriptLoads)
  BY <1>2, <1>12 DEF MediaEvent, TrackFails, ScriptLoads
<1>13. CASE closed /\ ScriptFails
  <2>1. UNCHANGED <<current, chain, track, subFetch, cues>> /\ waiting' = FALSE
    BY <1>13 DEF ScriptFails, ToldOfFailure
  <2> QED BY <1>13, <2>1 DEF NothingPlaysClosed, Wanted
<1>14. CASE closed /\ (UNCHANGED vars \/ \E t \in Tokens : TrackStopHandled(t))
  BY <1>2, <1>14 DEF TrackStopHandled, vars
<1>15. CASE ~closed /\ UNCHANGED <<open, closing>>
  BY <1>1, <1>15 DEF RestTypes
<1>16. \/ StopAnswered \/ StopSettles \/ CuesArrive \/ LiveSubtitlesEnd \/ LibraryReady
       \/ MediaEvent \/ TrackFails \/ ScriptLoads \/ ScriptFails \/ UNCHANGED vars
       \/ (\E t \in Tokens : TrackStopHandled(t))
       => UNCHANGED <<open, closing>>
  BY DEF StopAnswered, StopSettles, CuesArrive, LiveSubtitlesEnd, LibraryReady, MediaEvent,
     TrackFails, ScriptLoads, ScriptFails, vars, TrackStopHandled
<1> HIDE DEF closed
<1> QED
  BY <1>3, <1>4, <1>5, <1>6, <1>7, <1>8, <1>9, <1>10, <1>11, <1>12, <1>13, <1>14, <1>15, <1>16
  DEF Next

-----------------------------------------------------------------------------
(* The invariant and the theorems.                                         *)

\* The four invariants together are inductive.
PlayerInv == QueueOK /\ RestTypes /\ SubtitlesOfCurrent /\ NothingPlaysClosed

\* It holds at the start: nothing is open, queued or played.
LEMMA PlayerInvInit == Init => PlayerInv
<1> SUFFICES ASSUME Init PROVE PlayerInv
  OBVIOUS
<1>1. QueueOK
  <2>1. chain = <<>> /\ current = None
    BY DEF Init
  <2>2. DOMAIN chain = {} /\ chain \in Seq(Entries)
    BY <2>1
  <2> QED BY <2>1, <2>2 DEF QueueOK, QueueShape, PlaysAfterStops, SourceOrNone
<1>2. RestTypes
  BY DEF Init, RestTypes
<1>3. SubtitlesOfCurrent /\ NothingPlaysClosed
  BY DEF Init, SubtitlesOfCurrent, NothingPlaysClosed, Wanted
<1> QED BY <1>1, <1>2, <1>3 DEF PlayerInv

\* Every step keeps it.
LEMMA PlayerInvNext == PlayerInv /\ [Next]_vars => PlayerInv'
BY QueueSteps, QueueKept, RestTypesKept, SubtitlesKept, ClosedKept DEF PlayerInv

\* The inductive invariant holds in every state.
THEOREM PlayerInvariant == Spec => []PlayerInv
BY PlayerInvInit, PlayerInvNext, PTL DEF Spec

\* All variables have their types and the queue of stops its shape: a source
\* only after the last stop, something to stop only in the first, and nothing
\* plays while one is unanswered.
THEOREM PlayerTypes == Spec => []TypeOK
<1>1. PlayerInv => TypeOK
  BY Types DEF PlayerInv
<1> QED BY <1>1, PlayerInvariant, PTL

\* Nothing starts behind a closed dialog, whatever was awaited when it closed.
THEOREM ClosedIsQuiet == Spec => []NothingPlaysClosed
<1>1. PlayerInv => NothingPlaysClosed
  BY DEF PlayerInv
<1> QED BY <1>1, PlayerInvariant, PTL

\* No live subtitles of another source are received or shown.
THEOREM SubtitlesBelong == Spec => []SubtitlesOfCurrent
<1>1. PlayerInv => SubtitlesOfCurrent
  BY DEF PlayerInv
<1> QED BY <1>1, PlayerInvariant, PTL

\* The player implements the safety part of its promise: it asks for a stream
\* only when the one before has been given up, and plays only the last choice.
THEOREM PlayerKeepsPromise == Spec => Promise!PromiseSafe
<1>1. Init => Promise!PromiseInit
  BY DEF Init, Promise!PromiseInit, Wanted, Held
<1>2. PlayerInv /\ [Next]_vars => [Promise!PromiseNext]_(Promise!promise)
  BY QueueSteps, PromiseStep DEF PlayerInv
<1> QED BY <1>1, <1>2, PlayerInvariant, PTL DEF Spec, Promise!PromiseSafe

=============================================================================
