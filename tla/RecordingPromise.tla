------------------------- MODULE RecordingPromise -------------------------
(***************************************************************************)
(* What the operator promises of a program's recording to whoever reads    *)
(* the lists: what is being recorded is dropped or finished, and nothing   *)
(* the system aborted is finished; once finishing it cannot be lost any    *)
(* more, nor marked; it gets its file; it is listed with the mark it was   *)
(* finished with; and it is not recorded again.                            *)
(***************************************************************************)
CONSTANT Programs

VARIABLES
  phase,    \* "none", "recording", "finishing" or "recorded", per program
  mark,     \* the abort mark: "none", "system" or "user", per program
  file      \* the finished file is there, per program

promise == <<phase, mark, file>>

Init ==
  /\ phase = [p \in Programs |-> "none"]
  /\ mark = [p \in Programs |-> "none"]
  /\ file = [p \in Programs |-> FALSE]

Moves(p, from, to) == phase[p] = from /\ phase'[p] = to
KeepsMark(p) == mark'[p] = mark[p]
KeepsFile(p) == file'[p] = file[p]

Start(p) ==
  /\ Moves(p, "none", "recording")
  /\ mark'[p] = "none"
  /\ ~file[p] /\ KeepsFile(p)

Mark(p) ==
  /\ Moves(p, "recording", "recording")
  /\ mark'[p] \in {"system", "user"}
  /\ KeepsFile(p)

Drop(p) ==
  /\ Moves(p, "recording", "none")
  /\ mark'[p] = "none"
  /\ KeepsFile(p)

Finish(p) ==
  /\ Moves(p, "recording", "finishing")
  /\ mark[p] # "system" /\ KeepsMark(p)
  /\ KeepsFile(p)

\* The file may come before the listing or after it.
Promote(p) ==
  /\ phase[p] \in {"finishing", "recorded"} /\ phase'[p] = phase[p]
  /\ KeepsMark(p)
  /\ file'[p]

List(p) ==
  /\ Moves(p, "finishing", "recorded")
  /\ KeepsMark(p)
  /\ KeepsFile(p)

Stays(p) == phase'[p] = phase[p] /\ KeepsMark(p) /\ KeepsFile(p)

Step(p) == Start(p) \/ Mark(p) \/ Drop(p) \/ Finish(p) \/ Promote(p) \/ List(p)

\* A start-up drops several programs at once.
Next == \A p \in Programs : Step(p) \/ Stays(p)

Spec == Init /\ [][Next]_promise
=============================================================================
