------------------------------ MODULE Player ------------------------------
(***************************************************************************)
(* The player dialog of the web client (src/web/app.js): the source it     *)
(* plays, the DELETE requests that end the streams of earlier sources, the *)
(* library it loads for live channels, and the subtitles.                  *)
(*                                                                         *)
(* A source is a playback session token and the way it is played: an HLS   *)
(* playlist, an MP4 stream or an MPEG-TS stream fed to mpegts.js.  Tokens  *)
(* are drawn at random in the code, here from a set of which those in use  *)
(* are left out.                                                           *)
(*                                                                         *)
(* playerSourceGeneration guards whatever was begun for an earlier source. *)
(* What it has made void does nothing when its turn comes, so a change of  *)
(* the generation removes it here: the continuation of a queued stop       *)
(* (next) and the wait for the library (waiting).                          *)
(***************************************************************************)
EXTENDS Integers, Sequences

CONSTANTS
  None,      \* no source, no token, no builder
  Tokens,    \* playback session tokens
  Own,       \* stands for a token drawn for a subtitle track alone
  MaxQueue   \* bound: queued stops

Kinds == {"hls", "mp4", "mse"}
Builders == {"channel", "recorded", "recording"}
Sources == [token : Tokens, kind : Kinds]

ASSUME NoneAssumption == None \notin Sources \cup Tokens \cup Builders \cup {Own}
ASSUME TokensAssumption == Own \notin Tokens
ASSUME QueueAssumption == MaxQueue \in Nat

VARIABLES
  device,    \* how this browser plays live channels
  open,      \* dialog.open
  closing,   \* the dialog's close event is on its way
  builder,   \* playerSourceBuilder: what it builds URLs of
  retry,     \* playerLiveLoadRetry is set
  script,    \* mpegts.js: "absent", "loading" or "loaded"
  waiting,   \* the live channel chosen waits for the library
  current,   \* playerCurrentURL and playerPlaybackToken
  chain,     \* playerSourceStopPromise: the stops queued, and what follows each
  status,    \* playerStatus: "", "info" or "error"
  wantSubs,  \* the subtitle select says "ja"
  track,     \* token in the src of the subtitle track
  subFetch,  \* token of the live subtitles being received
  cues,      \* token of the live subtitles shown
  subStops,  \* tokens in the DELETEs of subtitle tracks on their way
  cut        \* the server has ended the stream of the current source on request

vars == <<device, open, closing, builder, retry, script, waiting, current, chain,
          status, wantSubs, track, subFetch, cues, subStops, cut>>

\* liveChannelPlaybackURL, recordedPlaybackURL, recordingWatchURL.
Kind(b) == CASE b = "channel" -> device
             [] b = "recorded" -> IF device = "hls" THEN "hls" ELSE "mp4"
             [] b = "recording" -> "mp4"

\* newPlaybackSessionToken never gives a token twice.
InUse == {track, subFetch, cues} \cup subStops
         \cup {s.token : s \in ({current} \cup {chain[i].url : i \in DOMAIN chain}
                                 \cup {chain[i].next : i \in DOMAIN chain}) \ {None}}

\* Promise reactions run before any other event.
Microtasks == \/ chain # <<>> /\ Head(chain).url = None
              \/ waiting /\ (device = "hls" \/ script = "loaded")

\* The user does something; bounded by what is queued and by the tokens left.
Handler == ~Microtasks /\ Len(chain) < MaxQueue /\ Tokens \ InUse # {}

\* The generation has changed: nothing follows the stops queued so far.
Voided == [i \in DOMAIN chain |-> [url |-> chain[i].url, next |-> None]]

-----------------------------------------------------------------------------
(* Parts of handlers.                                                      *)

\* Variant: a stop does not wait for those before it.
AtOnce(url, next) == <<[url |-> url, next |-> next]>>

\* A stop waits for those before it.
Queued(url, next) == Append(Voided, [url |-> url, next |-> next])

\* Variant: the source goes on playing while it is stopped.
queuePlaybackStopPlaying(next) ==
  /\ chain' = Queued(current, next)
  /\ UNCHANGED <<current, cut>>
  /\ waiting' = FALSE

\* queuePlaybackStop of the current URL, followed by the start of next.
queuePlaybackStop(next) ==
  /\ chain' = Queued(current, next)
  /\ current' = None
  /\ cut' = FALSE
  /\ waiting' = FALSE

\* resetPlayerSubtitleTrack: the DELETE is sent at once.
resetPlayerSubtitleTrack ==
  /\ track' = None
  /\ subStops' = IF track \in Tokens THEN subStops \cup {track} ELSE subStops

\* Variant: the cues shown stay.
stopPlayerLiveFetch == subFetch' = None /\ UNCHANGED cues

stopPlayerLiveSubtitles == subFetch' = None /\ cues' = None

setPlayerSource(b) ==
  \E t \in Tokens \ InUse :
    /\ queuePlaybackStop([token |-> t, kind |-> Kind(b)])
    /\ resetPlayerSubtitleTrack
    /\ stopPlayerLiveSubtitles

\* Variant: what was begun is not made void.
stopPlayerVideoOnly ==
  /\ chain' = Append(chain, [url |-> current, next |-> None])
  /\ current' = None /\ cut' = FALSE
  /\ UNCHANGED waiting
  /\ resetPlayerSubtitleTrack
  /\ stopPlayerLiveSubtitles
  /\ builder' = None
  /\ wantSubs' = FALSE

stopPlayerVideo ==
  /\ queuePlaybackStop(None)
  /\ resetPlayerSubtitleTrack
  /\ stopPlayerLiveSubtitles
  /\ builder' = None
  /\ wantSubs' = FALSE

\* updatePlayerSubtitleTrack for source c, with w what the select says.
updatePlayerSubtitleTrack(c, w) ==
  LET live == c # None /\ c.kind = "mse"
  IN  /\ cues' = None
      /\ subFetch' = IF live /\ w THEN c.token ELSE None
      /\ IF live \/ ~w
         THEN resetPlayerSubtitleTrack
         ELSE /\ track' = IF track # None THEN track ELSE IF c = None THEN Own ELSE c.token
              /\ UNCHANGED subStops

-----------------------------------------------------------------------------

Init ==
  /\ device \in Kinds
  /\ open = FALSE
  /\ closing = FALSE
  /\ builder = None
  /\ retry = FALSE
  /\ script = "absent"
  /\ waiting = FALSE
  /\ current = None
  /\ chain = <<>>
  /\ status = ""
  /\ wantSubs = FALSE
  /\ track = None
  /\ subFetch = None
  /\ cues = None
  /\ subStops = {}
  /\ cut = FALSE

-----------------------------------------------------------------------------
(* The user.  The dialog is modal: nothing is opened while it is open, and *)
(* its close event comes before the next click.                            *)

\* openAdjustablePlayer, openPlayerDialog.
OpenRecording(b) ==
  /\ Handler
  /\ ~open /\ ~closing
  /\ open' = TRUE
  /\ builder' = b
  /\ retry' = FALSE
  /\ setPlayerSource(b)
  /\ status' = IF b = "recording" THEN "info" ELSE ""
  /\ UNCHANGED <<device, closing, script, wantSubs>>

\* start of openLiveChannelPlayer; ensureMPEGTSLoaded shares one load.
start ==
  /\ waiting' = TRUE
  /\ status' = "info"
  /\ script' = IF device # "hls" /\ script = "absent" THEN "loading" ELSE script

openLiveChannelPlayer ==
  /\ Handler
  /\ ~open /\ ~closing
  /\ open' = TRUE
  /\ retry' = TRUE
  /\ chain' = Queued(current, None)
  /\ current' = None /\ cut' = FALSE
  /\ resetPlayerSubtitleTrack
  /\ stopPlayerLiveSubtitles
  /\ builder' = None /\ wantSubs' = FALSE
  /\ start
  /\ UNCHANGED <<device, closing>>

\* The button of an error message.
retryPlayerSource ==
  /\ Handler
  /\ open /\ status = "error"
  /\ \/ /\ retry
        /\ start
        /\ chain' = Voided
        /\ UNCHANGED <<current, cut, track, subStops, subFetch, cues>>
     \/ /\ ~retry /\ builder # None
        /\ setPlayerSource(builder)
        /\ status' = ""
        /\ UNCHANGED script
  /\ UNCHANGED <<device, open, closing, builder, retry, wantSubs>>

\* changePlayerQuality, changePlayerAudio.
AdjustSource ==
  /\ Handler
  /\ open /\ builder # None
  /\ setPlayerSource(builder)
  /\ status' = ""
  /\ UNCHANGED <<device, open, closing, builder, retry, script, wantSubs>>

\* Other players seek in the source they have.
seekPlayerToRange == builder = "recorded" /\ AdjustSource

changePlayerSubtitle ==
  /\ Handler
  /\ open /\ builder # None
  /\ wantSubs' = ~wantSubs
  /\ updatePlayerSubtitleTrack(current, wantSubs')
  /\ UNCHANGED <<device, open, closing, builder, retry, script, waiting, current,
                 chain, status, cut>>

\* The button, a click beside the dialog or the Escape key.
closePlayerDialog ==
  /\ ~Microtasks
  /\ open
  /\ open' = FALSE
  /\ closing' = TRUE
  /\ UNCHANGED <<device, builder, retry, script, waiting, current, chain, status,
                 wantSubs, track, subFetch, cues, subStops, cut>>

-----------------------------------------------------------------------------
(* Events and answers.                                                     *)

CloseEvent ==
  /\ ~Microtasks
  /\ closing
  /\ closing' = FALSE
  /\ retry' = FALSE
  /\ stopPlayerVideo
  /\ UNCHANGED <<device, open, script, status>>

\* pagehide; the page may come back as it was left.
PageHide ==
  /\ Handler
  /\ retry' = FALSE
  /\ stopPlayerVideo
  /\ UNCHANGED <<device, open, closing, script, status>>

\* The DELETE at the head of the queue is answered or fails.
StopAnswered ==
  /\ ~Microtasks
  /\ chain # <<>>
  /\ chain' = [chain EXCEPT ![1] = [url |-> None, next |-> chain[1].next]]
  /\ UNCHANGED <<device, open, closing, builder, retry, script, waiting, current,
                 status, wantSubs, track, subFetch, cues, subStops, cut>>

\* What follows it: the source is started, or could not be (startPlayerMSE
\* throws) and is stopped again.
StopSettles ==
  /\ chain # <<>> /\ Head(chain).url = None
  /\ LET s == Head(chain).next
     IN  \/ /\ s = None
            /\ chain' = Tail(chain)
            /\ UNCHANGED <<current, status, track, subFetch, cues, subStops>>
         \/ /\ s # None
            /\ current' = s
            /\ chain' = Tail(chain)
            /\ updatePlayerSubtitleTrack(s, wantSubs)
            /\ UNCHANGED status
         \/ /\ s # None /\ s.kind = "mse"
            /\ chain' = Append(Tail(chain), [url |-> s, next |-> None])
            /\ status' = "error"
            /\ UNCHANGED <<current, track, subFetch, cues, subStops>>
  /\ UNCHANGED <<device, open, closing, builder, retry, script, waiting, wantSubs, cut>>

ScriptLoads ==
  /\ ~Microtasks
  /\ script = "loading"
  /\ script' = "loaded"
  /\ UNCHANGED <<device, open, closing, builder, retry, waiting, current, chain, status,
                 wantSubs, track, subFetch, cues, subStops, cut>>

\* Variant: the failure ends the wait and is not shown.
ToldToNobody == waiting' = FALSE /\ UNCHANGED status

ToldOfFailure ==
  /\ waiting' = FALSE
  /\ status' = IF waiting /\ open THEN "error" ELSE status

\* An error or 15 seconds: the next start loads it again.
ScriptFails ==
  /\ ~Microtasks
  /\ script = "loading"
  /\ script' = "absent"
  /\ ToldOfFailure
  /\ UNCHANGED <<device, open, closing, builder, retry, current, chain,
                 wantSubs, track, subFetch, cues, subStops, cut>>

\* The continuation of start.
LibraryReady ==
  /\ waiting
  /\ device = "hls" \/ script = "loaded"
  /\ IF open
     THEN /\ builder' = "channel"
          /\ retry' = FALSE
          /\ setPlayerSource("channel")
          /\ status' = ""
     ELSE /\ waiting' = FALSE
          /\ UNCHANGED <<builder, retry, current, chain, status, track, subFetch, cues, subStops, cut>>
  /\ UNCHANGED <<device, open, closing, script, wantSubs>>

\* play() rejected, an error of the media element or of mpegts.js; or it plays.
MediaEvent ==
  /\ ~Microtasks
  /\ current # None
  /\ status' \in {"", "error"}
  /\ UNCHANGED <<device, open, closing, builder, retry, script, waiting, current, chain,
                 wantSubs, track, subFetch, cues, subStops, cut>>

\* appendPlayerLiveVTTBlock.
CuesArrive ==
  /\ ~Microtasks
  /\ subFetch # None
  /\ cues' = subFetch
  /\ UNCHANGED <<device, open, closing, builder, retry, script, waiting, current, chain,
                 status, wantSubs, track, subFetch, subStops, cut>>

\* The live subtitles end, are not there, or fail.
LiveSubtitlesEnd ==
  /\ ~Microtasks
  /\ subFetch # None
  /\ subFetch' = None
  /\ status' \in {status, "error"}
  /\ UNCHANGED <<device, open, closing, builder, retry, script, waiting, current, chain,
                 wantSubs, track, cues, subStops, cut>>

\* The track cannot be loaded.
TrackFails ==
  /\ ~Microtasks
  /\ track # None
  /\ status' = "error"
  /\ UNCHANGED <<device, open, closing, builder, retry, script, waiting, current, chain,
                 wantSubs, track, subFetch, cues, subStops, cut>>

\* The server ends all requests that carry the token: the subtitles and the
\* video, unless its own request has not got there yet or it is HLS.
TrackStopHandled(t) ==
  /\ ~Microtasks
  /\ t \in subStops
  /\ subStops' = subStops \ {t}
  /\ cut' \in {cut, cut \/ (current # None /\ current.token = t /\ current.kind # "hls")}
  /\ UNCHANGED <<device, open, closing, builder, retry, script, waiting, current, chain,
                 status, wantSubs, track, subFetch, cues>>

-----------------------------------------------------------------------------

Next ==
  \/ \E b \in {"recorded", "recording"} : OpenRecording(b)
  \/ openLiveChannelPlayer \/ retryPlayerSource \/ AdjustSource
  \/ seekPlayerToRange \/ changePlayerSubtitle
  \/ closePlayerDialog \/ CloseEvent \/ PageHide
  \/ StopAnswered \/ StopSettles
  \/ ScriptLoads \/ ScriptFails \/ LibraryReady
  \/ MediaEvent \/ CuesArrive \/ LiveSubtitlesEnd \/ TrackFails
  \/ \E t \in Tokens : TrackStopHandled(t)

Fairness ==
  /\ WF_vars(StopSettles) /\ WF_vars(LibraryReady) /\ WF_vars(CloseEvent)
  /\ WF_vars(StopAnswered)
  /\ WF_vars(ScriptLoads \/ ScriptFails)

Spec == Init /\ [][Next]_vars /\ Fairness

-----------------------------------------------------------------------------
(* Properties.                                                             *)

SourceOrNone == Sources \cup {None}

\* Of the stops queued only the last is followed by a source, only the first
\* is of one.
QueueShape ==
  \A i \in DOMAIN chain : /\ i < Len(chain) => chain[i].next = None
                          /\ i > 1 => chain[i].url = None

\* A source plays only when every stop asked for has been answered; so when
\* the page is left its DELETE goes out at once and not behind others.
PlaysAfterStops == current # None => chain = <<>>

\* Type invariant, with the shape of the queue of stops: a source only after the
\* last, something to stop only in the first, nothing playing beside it.
TypeOK ==
  /\ device \in Kinds
  /\ open \in BOOLEAN /\ closing \in BOOLEAN /\ retry \in BOOLEAN
  /\ waiting \in BOOLEAN /\ wantSubs \in BOOLEAN /\ cut \in BOOLEAN
  /\ builder \in Builders \cup {None}
  /\ script \in {"absent", "loading", "loaded"}
  /\ current \in SourceOrNone
  /\ chain \in Seq([url : SourceOrNone, next : SourceOrNone])
  /\ QueueShape /\ PlaysAfterStops
  /\ status \in {"", "info", "error"}
  /\ track \in Tokens \cup {Own, None}
  /\ subFetch \in Tokens \cup {None}
  /\ cues \in Tokens \cup {None}
  /\ subStops \subseteq Tokens

\* The source that is to be played: it plays, or follows the stops queued.
Wanted == IF chain # <<>> THEN chain[Len(chain)].next ELSE current

\* The source whose stream the server may still be sending.
Held == IF chain # <<>> THEN chain[1].url ELSE current

\* Once the dialog is closed nothing plays or will: neither a source whose
\* stop was still awaited nor a live channel whose library was still loading
\* starts behind the user's back, and no subtitles are received.
NothingPlaysClosed ==
  ~open /\ ~closing => /\ current = None /\ Wanted = None /\ ~waiting
                       /\ track = None /\ subFetch = None /\ cues = None

\* Live subtitles are received and shown only with the source they belong to,
\* also when sources are changed while their text arrives.
SubtitlesOfCurrent ==
  \A t \in {subFetch, cues} \ {None} : current # None /\ current.token = t

Promise == INSTANCE PlaybackPromise WITH wanted <- Wanted, playing <- current, held <- Held

\* However fast sources are chosen, closed and retried, and however long the
\* DELETEs take: the stream of a source is asked for only when the one before
\* has been given up, only the last choice is played, and it is started.
KeepsPromise == Promise!PromiseSpec

Choosing == waiting \/ (current = None /\ Wanted # None)

\* What the user has chosen is played or an error is shown, unless he closes
\* the player or leaves the page (after which there is neither a source to
\* build nor a load to retry): no failure of the library or of a start ends
\* the choice in silence.
ChoiceSettles ==
  (open /\ Choosing) ~>
    (current # None \/ status = "error" \/ ~open \/ (builder = None /\ ~retry))

\* Turning the subtitles off ends the subtitles and not the video.
SubtitlesKeepVideo == ~cut

=============================================================================
