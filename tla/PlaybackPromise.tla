-------------------------- MODULE PlaybackPromise --------------------------
(***************************************************************************)
(* What the player dialog of the web client promises the server and the    *)
(* user: however fast sources are chosen, it asks for the stream of one    *)
(* only when it has been told that the stream before is over, it plays     *)
(* nothing but the last choice, and that one it does start.                *)
(***************************************************************************)
CONSTANTS None, Sources

VARIABLES
  wanted,   \* the last choice of the user, if it is to be played
  playing,  \* the source being played
  held      \* the source whose stream the server may still be sending

promise == <<wanted, playing, held>>

PromiseTypeOK == {wanted, playing, held} \subseteq Sources \cup {None}

PromiseInit == wanted = None /\ playing = None /\ held = None

\* Another source is chosen; the one playing stops, its stream stays held.
Choose(s) ==
  /\ s # held
  /\ wanted' = s
  /\ playing' = None
  /\ UNCHANGED held

Leave ==
  /\ wanted' = None
  /\ playing' = None
  /\ UNCHANGED held

\* The server has answered that the stream is over, or cannot be reached.
Release ==
  /\ playing = None
  /\ held # None
  /\ held' = None
  /\ UNCHANGED <<wanted, playing>>

Start ==
  /\ wanted # None
  /\ held = None
  /\ held' = wanted
  /\ \/ playing' = wanted /\ UNCHANGED wanted
     \/ playing' = None /\ wanted' = None     \* it could not be started

PromiseNext == (\E s \in Sources : Choose(s)) \/ Leave \/ Release \/ Start

PromiseSafe == PromiseInit /\ [][PromiseNext]_promise

PromiseSpec == PromiseSafe /\ WF_promise(Release) /\ WF_promise(Start)

=============================================================================
