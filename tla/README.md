# A verification of Strata PVR

TLA+ models of the parts of Strata PVR whose correctness depends on the order
of events, the TLC configurations that check them on small instances, and
theorems about them whose proofs TLAPS checks. File and line references are to
this repository.

## 1. The system

Strata PVR records television programmes received by an external Mirakurun
server. Its processes share one SQLite database and the recording directory.

| Component | State | Operations | Interacts with |
|---|---|---|---|
| operator (`internal/operator`) | goroutines, three retry queues, the locals of a pass | tick, record, finish, retry, start up | tables, files, Mirakurun, post-process commands |
| program and reservation tables (`programstore`, `reservationstore`, `database`) | rows of `program_collections` and `reservations` | one transaction per function | written by operator, web server, command line and scheduler |
| scheduler (`internal/scheduler`) | none; plans from guide, rules and reservations | build reservations, replace schedule and reservations | started by timer, web server, command line |
| rules (`domain/rules.go`, `rulestore`) | ordered table of rules | append, update, delete by position; match | web server, command line, scheduler |
| web server (`internal/wui`) | scheduler gate, encoder slots, HLS, live and playback sessions, login sessions, preview cache | HTTP handlers | tables, ffmpeg, Mirakurun, operator wake-up |
| operator control | socket, wake-up channel of capacity one | notify, listen | web server and command line to operator |
| command line (`internal/cli`) | none | the handlers' operations, initialisation, migration | tables, files |
| logging, process lock, atomic JSON write | log files, lock and PID files | append and rotate, acquire | all |
| web client (`web/app.js`) | in each tab: copies of the lists, the search, the player dialog, forms and a confirmation dialog | loads, refreshes, user actions, timers, notices of other tabs | the API of the web server |
| configuration, Mirakurun client | - | - | - |

What is hard: several processes read a row, decide, and write later; a pass of
the operator works on lists it read several calls earlier; a recording is
described by a file, an active row, a recorded row and a reservation, and no
transaction covers more than two of them; any of those calls can fail and the
process can die between any two; users stop, skip and delete meanwhile. In the
web server, requests, timers and exiting processes end the same sessions. The web
client is one thread, but each of its answers, timers and events may come when the
state it was asked for has been replaced: older answers overtake newer ones, a
DELETE is awaited while three other sources are chosen, a dialog is closed by the
event of the one before. The hazards are listed one by one, with the properties that cover them, in
`PROJECT.json`.

What makes each component correct:

- operator and tables: nothing recorded is lost from the lists, nothing listed
  lacks its file, nothing is recorded twice at once, a stop is obeyed, whatever
  was begun ends.
- scheduler: no two unconflicted reservations need one tuner; manual and
  skipped reservations survive a run.
- rules: positions stay a gap-free order.
- web server: limits hold, every ffmpeg process and tuner stream ends, a
  request is answered.
- web client: lists never go back in time and catch up with the server, the items
  shown answer the controls shown, one stream is received at a time and nothing
  behind a closed dialog, a rule named by its position is the one that was meant,
  input is not lost, a question is seen.
- control, logging, lock: no wake-up is lost, no line is lost in a rotation, one
  operator runs.

## 2. The modules

| Module | Models | Extends |
|---|---|---|
| `ProgramStore` | the transactions on `recording`, `recorded` and `reserve` | - |
| `Operator` | the polling loop, the recording goroutines, the queues, the process | `ProgramStore` |
| `RecordingSystem` | the operator with the handlers of web server and command line and with scheduler runs; the properties | `Operator`, instance of `RecordingPromise` |
| `RecordingPromise` | what the operator promises of a recording, an abstract specification | - |
| `MCRecording` | instances for TLC | `RecordingSystem` |
| `RecordingTypes` | the type invariant of the recording | `RecordingSystem`, `TLAPS` |
| `RecordingProofs` | theorems that hold whatever fails: fresh starts, claims, owners of rows | `RecordingTypes` |
| `RowProofs` | theorems that hold while certain calls do not fail: files, lists, marks, the promise | `RecordingProofs` |
| `HLSSessions` | the HLS session table of the web server | - |
| `MCHLS` | instances for TLC | `HLSSessions` |
| `HLSProofs` | theorems | `HLSSessions`, `TLAPS` |
| `ClientData` | the lists of the web client, their loads, refreshes and timers | - |
| `ClientDataProofs` | theorems | `ClientData`, `TLAPS` |
| `SearchView`, `MCSearchView` | the search view; an instance | - |
| `SearchProofs` | theorems | `SearchView`, `TLAPS` |
| `PlaybackPromise` | what the player promises, an abstract specification | - |
| `Player` | the player dialog, shown to implement `PlaybackPromise` | instance of `PlaybackPromise` |
| `PlayerProofs` | theorems | `Player`, `TLAPS` |
| `Forms`, `MCForms` | rules, settings, cleanup and the confirmation dialog; an instance | - |
| `FormsProofs` | theorems | `Forms`, `TLAPS` |

Operators named "Variant" in a comment are not part of the model: each is a
definition with a plausible mistake, and the property named with it in
`PROJECT.json` (`mutants`) fails when the mistake is put in.

### Recording

A program is its id. Of a row of the collection `recording` the model keeps
what the transactions decide on: the abort mark with its reason, whether
`Recorded` names a file, `PID` (0 or -1), and the completion token, which is the
goroutine that claimed the row. Of a row of `recorded` it keeps the abort mark;
of a reservation, `IsSkip`. Each function of `programstore` and
`reservationstore` that writes is one operator, because SQLite makes it atomic.

`loop` is the place where `startPendingRecordings` stands and `todo` what is left
of the slice it ranges over; its local lists are `recordingIDs`, `recordedIDs`,
`due` and `pending`. Every store or file call is a step, so anything may happen
between two of them. `rec[r].pc` is the place where goroutine `r` stands in
`finishRecording` and `recordProgramWithLog`:

    stream -> mark -> create -> copy -> stopCheck -> abortCheck -> claim
           -> promote -> complete -> forget -> post -> done
    errors: (rollback -> clear ->) unlink -> remove (-> release) -> done

`recordingStateMu` is held by a goroutine for single store calls only; it is
enough that those do not happen while the loop holds it (`LoopHoldsMutex`).
`ProcessEnds` forgets goroutines, queues and locals, and `Restart`, `InitRead`
and `InitWrite` are `initializeRuntimeState`. A handler of the web server or the
command line that reads and then writes is two steps with `handler` in between;
a scheduler run is two steps with `plan` in between.

`RecordingPromise` has, for each program, a phase (none, recording, finishing,
recorded), the abort mark and whether the file is there. `PhaseOf` and `MarkOf` map
the two collections to it: a claimed row is a recording that finishes, and the mark
is that of the row, active or recorded. The promise forbids to lose or mark what
finishes, to finish what the system aborted, to record again what is recorded and
to list what was not claimed; queues, passes and goroutines do not occur in it.

Abstractions: `air[p] = "after"` stands both for the end of the programme and for
the end of its margin; the six tests that follow `io.Copy` on the answer of
`userStopRequested` are one step, since they read nothing else that changes; a
failed log write is not modelled (it ends a pass like a failed store call); two
passes never overlap, as in `Run`. `RunOnce` is called by tests only and is left
out. File names are left out, and of the end timer the arithmetic.

The end of a recording. `SetDeadline` is the first look of the end controller at the
clock. `ZeroEndMargin` says whether `RecordingEndMargin` is zero (it is unless
configured): then an end that has passed sets no timer and ends nothing
(operator.go:1032, 1049), and `EndReached` never comes for that goroutine. A change of
the programme's end while it is recorded (`Update`) is not modelled, since the model
knows of an end only whether it has passed.

Recordings are deleted in the steps of `deleteRecordedProgram`: the file is staged
away, the row removed, and the file renamed back when the row could not be
(`RestoreStaged`); `DeleteFile` removes the file and leaves the row. A shutdown may
also come while `Run` waits for its goroutines after a failed pass; a reservation may
be made of a programme that is over.

### HLS sessions

`m.mu` is held for whole actions. Opening the tuner stream, the timer's
goroutine before it has the mutex, `terminate` and the goroutine that waits for
ffmpeg are steps of their own. `open` names the holder of each open tuner stream,
a handler before `getOrStartSource` and the session after it. The loops in which a
handler waits for a playlist or a segment only read, and are left out. The
process ends without touching its sessions, so a restart is not modelled.

### The web client

JavaScript runs to completion, so a handler with all it calls is one action, and
so is a promise reaction. Between them any answer, timer, event or click may come,
in any order; reactions run before all others (`Microtasks` in `Player`). The
modules are separate because the parts share only the refresh, of which `SearchView`
and `Forms` keep the end.

`ClientData`: a list is a version, which the server counts up. `req` holds for each
request that can be in flight (the first load, the refresh, the operational refresh
and each load a view makes on demand) what it asks for and, once the server has
read, what it answers. `full` tells whether `state.recorded` is the whole list or
the latest eight. `floor`, `shown`, `own` and `told` only record what the
properties speak of.

`SearchView`: a filter is a text, a category and a channel; `current` in a search
under way says that its `searchRequestVersion` is still the last. `unasked` marks
that a link has changed the filter without a search (section 6). An answer offers any
set of categories: those of the programmes that have not ended at that moment. What
binds them to the items is `Offers`: a category that is not offered has no programmes.
An answer without the category it was asked for is taken, and then clears that
category of the filter (app.js:4240); `ItemsAnswerControls` says what the view
shows from then on. A failed refresh asks the search again and renders nothing
(`RefreshFailed`).

`Player`: a source is its token and the way it is played. `chain` is
`playerSourceStopPromise` with what waits for it, one entry per queued stop: the
URL that gets the DELETE (`url`) and the source started afterwards (`next`). What a
change of `playerSourceGeneration` makes void is removed by the change (`Voided`).
`PlaybackPromise` has three variables: the source wanted, the one playing, and the
one whose stream the server may still be sending; `Wanted`, `current` and `Held`
map the player to it.

`Forms`: rules have an identity, which the code does not know; client and server
name them by position. `missed` records that a change reached another rule than
the one shown. `Press` is what a user can do at any time, by the keys 1 to 7 and
r, which work while a dialog is open (app.js:1920); `Click` needs the dialog closed.
`RetrySettings` is the button of a failed load. A confirmation (`asking`) is what is
done when the user agrees; `confirmAction` and `closeConfirmDialog` answer a pending one with no and leave a
`close` event on its way (`closes`).

## 3. The runs

Deadlock is checked, except in `SearchView` and `Forms`, where the user may stop
and the bounds on what he does end.

| Run | Instance | What it shows |
|---|---|---|
| `RecRace` | one program, two goroutines, two of stop/skip/unskip, one scheduler run | a claim fixes the mark; what was aborted is not listed; files and lists agree; no `.part` file is left; data is discarded only for a reason |
| `RecStoreFaults` | two store calls fail, one kill or shutdown, low storage stops recordings | finished files stay listed over restarts, one writer per file, a goroutine completes its own row, the promise |
| `RecFaults` | three store or file calls fail, a kill or shutdown, one stop | every row has something that takes it away; a retried rollback spares a newer row; a restart does not take up what was stopped |
| `RecLibrary` | manual reservations, delete with and without the file, clean-up, removal for space, one failed call | fresh starts under the operations on finished recordings |
| `LiveRecovery` | one failed call, one kill, one stop or skip, no end margin; fairness | rows and reservations go away, marks take effect, due programmes start, what has a timer ends |
| `HLSTable` | a channel, two files, three viewers, two handlers, three requests | limits, streams, processes, directories, idle timers |
| `HLSEnds` | a channel, a file; fairness | every session ends |
| `ClientData` | two views, one change, one failed request; fairness | lists keep their order and catch up |
| `SearchView` | five user actions, two pages, one category that comes and goes; fairness | the items answer the controls; typing is searched for |
| `Player` | four tokens, three queued stops; fairness | the queue, the closed dialog, the subtitles, the promise, every choice plays or ends in an error |
| `Forms` | two rules; seven clicks of a careful user, three of another, one other tab, one failure; fairness | rules by position, the dialog, edits, the lists |
| `StopThenPostProcess` | smallest instance | the code does not do what a document says (section 6) |

Bounds. Two goroutines of one program are enough for an old and a new recording
of it to meet. Three hazards need a third goroutine, all after a failed rename
(section 4); the runs do not reach them. `MaxFaults`
reaches three because a rollback is queued only after two failed calls and its
retry may fail too. One crash is enough: start-up restores a state that is
reachable without it, and a second one meets the same states. One or two user
operations and one scheduler run reach every pair of a stale decision and a
change. `ZeroEndMargin` is TRUE in `RecRace`, `RecFaults`, `LiveRecovery` and
`StopThenPostProcess`, where goroutines with a timer and without one occur, and FALSE
in the two others. Three HLS requests let an expired timer meet a new session of its id.
One change of each list on the server is enough to tell old answers from new, and one list of
each kind to mix the latest recordings with all of them. Four tokens and three
queued stops let two further choices be made while the first stop is unanswered.
Seven clicks reach two changes of rules with a load and an edit between them.

Fairness. In the recording (`FairSpec`) `Run` ticks for ever, so the loop is
weakly fair; `contrib/systemd/strata-pvr-operator.service` restarts a failed
operator; a goroutine runs on, and gets the mutex if it waits for it (strong
fairness: `sync.Mutex` hands itself to a starving waiter). A read of the stream
need only return once the context is cancelled, which closes the body. Nothing
makes a user, the scheduler or the clock move. `SkipTakesEffect` excepts an
operator that waits for its goroutines after a failed pass: it looks at no
reservation then. `RecordingEnds` excepts a goroutine that reads without a timer
(`ReadsWithoutTimer`): nothing in the code ends it before the stream, a mark or a
shutdown does, and Mirakurun is not assumed to end streams. For HLS, time passes,
timers and goroutines run, and a killed process exits; an ffmpeg that was not killed need never exit. In the web client
timers and events arrive and requests are answered or fail: `fetchWithTimeout`
bounds the wait for the headers of all but the DELETEs of the player, for which
the assumption is that of the browser's own limits. Nothing is assumed of the user
or of the other tabs. `ClientData` states the weak fairness of its actions with their
ENABLED written out as a condition on the requests, which halves the run's time.

The careful user. `ActsOnRuleMeant`, `ShowsWhatIsStored` and `RulesCatchUp` speak of
a user who waits until what he began is over, refreshes after an error, presses no
key while a dialog is open, finishes with the rule form before he turns to the list,
and has one tab. For any other the
code gives no such guarantee, since a position says nothing about the rule there;
the instances contain that user too, and the other properties hold for both.

## 4. What is proved

For every set of programs and goroutines, of ids, views, tokens and rules, every
bound and every choice of the other constants. The theorems rest on the named
assumptions of the modules: sets and ranges of the constants, and that the
values for "nothing" (`None`, `NoRequestAssumption`) are none of the things they
stand in for. Each inductive invariant was checked by TLC on the instances above
before it was proved.

### Recording, whatever fails

- `RecordingTypes!TypeCorrect`: `Spec => []TypeOK`. One lemma per group of
  actions; later proofs use it for the domains of the functions. No run repeats it.
- `RecordingProofs!StartsAreFresh`: `StartIsFresh`. It is not inductive, since
  the lists were read long before. `SnapshotsHold` adds what makes the lists
  usable while a pass still needs them: no program outside `recordingIDs` has an
  active row (only the pass inserts rows), and from the reading of `recordedIDs`
  on none outside both lists has a recorded one (a program gets into `recorded`
  only by completing a row, which was then in `recordingIDs`). `LoopStep` shows
  that what a pass is about to start is on neither list.
- `RecordingProofs!ClaimExcludesAbort` and `ClaimIsFinal`: `ClaimedNotAborted` is
  inductive with `TypeOK`; the action property follows step by step.
- `RecordingProofs!RowsHaveOwners`: `RowHasOwner`. `RowsOwned` counts only owners
  that will still act on the row: a goroutine that has not yet removed or
  completed it, the pass that is about to start one, a pending completion, a
  queued removal, a queued rollback that still matches the row.
  `LoopMatchesProcess` says which place of the loop goes with which state of the
  process, and that the start-up keeps only rows with a pending completion.

### Recording, under assumptions on the world

Nothing in the database binds a row, a `.part` file or a final file to the
goroutine it belongs to; only the order of the calls does, and some failures
break it. The theorems of `RowProofs` name, as assumptions on the constants, what
must not happen: `FilesWork` (no call of the file system fails), `NothingDeleted`
(no removal for space, no delete or clean-up by a user), `NeverKilled` (nor shut down),
`NothingFails` (no call fails), `NoSchedulerRuns`.

| Theorem | Property | Assumes |
|---|---|---|
| `PartsAreDropped` | `NoOrphanPart` | `FilesWork`, `NeverKilled` |
| `WritersAreAlone` | `OneWriter` | `FilesWork`, `NothingDeleted` |
| `AbortedAreNotListed` | `AbortedNotRecorded` | `FilesWork`, `NothingDeleted` |
| `FinalsAreListed` | `FinalIsListed` | `FilesWork`, `NothingDeleted` |
| `CompletionsAreOwn` | `CompletesOwnRow` | `FilesWork`, `NothingDeleted` |
| `RecorderKeepsPromise` | `KeepsPromise` | `FilesWork`, `NothingDeleted` |
| `FilesAndListsAgree` | `FilesMatchLists` | `FilesWork`, `NothingDeleted`, `NeverKilled` |
| `DiscardsAreJustified` | `DiscardJustified` | `NothingFails`, `NothingDeleted`, `NeverKilled` |
| `StoppedStays` | `StoppedNotRestarted` | `NoSchedulerRuns` |

Failed store calls, kills, restarts, stops, skips, reservations and scheduler runs
are allowed wherever the table does not exclude them. No assumption of the table
is idle; without it TLC finds a violation:

- `FilesWork`. A failed rename makes `rollbackCompletionClaim` remove the row, so
  the second removal of the goroutine hits the row of the next recording
  (`OneWriter`, `FinalIsListed`, `RecordedHasFile`, the promise, and with three
  goroutines `AbortedNotRecorded` and `CompletesOwnRow`); a failed unlink leaves a
  `.part` file.
- `NothingDeleted`. A recording deleted after a pass completed its row is renamed or
  completed by its goroutine all the same (all but `NoOrphanPart` and
  `StoppedNotRestarted`).
- `NeverKilled`. A kill before the rename leaves a claimed row without file, which
  start-up lists (`RecordedHasFile`), and a `.part` file (`NoOrphanPart`); a shutdown
  cancels recordings that bear no mark (`DiscardJustified`).
- `NothingFails`. One failed read of the row throws the recording away.
- `NoSchedulerRuns`. See `StoppedNotRestarted` in section 6.

The argument. `HeldOnce` is the core, inductive with the invariants above
(`RowsSafe`, lemma `HeldInvariant`). `RowsHeld`: the goroutine that owns a row has it,
open, until it claims it; one that renames or completes finds its claimed row or a
recorded one; and no two goroutines of a program do either. That needs
`QueuesApart` (what is queued for removal, and what a pass is about to start, belongs
to no goroutine: a retried removal comes before the next start), `NoRollback`,
`PartsThere`, `RowsApart` and `ListsTrue`, which says that what the loop has listed is
still so. `GoroutineStep` sorts the nineteen actions of a goroutine into five kinds
(it goes on, claims, gives up, completes, has no row any more) and the preservation
is proved per kind. From there:

- `CompletesClaimed`: a program gets into `recorded` only with a claimed row, hence
  unaborted; `PendingStays`: a claimed row goes only where its program is listed;
  `FinalStays`: a file appears only with the rename of a goroutine that finishes.
- `ClaimsOwn` follows the token: the claim a goroutine finds at the rename and after
  it is its own, since a claimed row is not claimed again (`ClaimsFirst`).
- `RecorderKeepsPromise` is step by step: `UnlistedStep` reads `RowStep`, the seven
  things a step may do to a row, as `Start`, `Mark`, `Drop`, `Finish` or nothing, and
  excludes that a claim is dropped; a changed `recorded` is `List`, a changed file
  `Promote`.
- `FileComes` adds the goroutine at the rename (`PromotionStays`, `ClaimStep`).
- `MarksExplain` says that a goroutine cancelled before its end has a mark on its
  row, which stays (`MarksStay`); `UnlinkReasons` lists why one unlinks.
- `StopHolds` says that the reservation of a stopped program is absent or skipped,
  and that a pass which still has it among the due ones has it among the recording
  ones too, so it is not started (`DueStep`).

### HLS sessions

`HLSProofs`: `TypeOK` (among the types, that `done` is closed at most once),
`WithinLimits`, `NothingLeaks` and the action property `RecentlyUsedStays` (theorems
`HLSTypes`, `LimitsHold`, `NothingIsLeft`, `TimersSpareTheUsed`). `HLSInvariant` adds
to the first and the third that the table and the sessions name each other
(`TableOK`), which stage of a session goes with which state of its process and its
timer (`LivesOK`), and that a handler under way has an id (`HandlersOK`). The limits
hold although the stream is opened without the mutex, because they are counted by
the step that inserts.

### The web client

- `PlayerProofs`: `TypeOK`, `NothingPlaysClosed` and `SubtitlesOfCurrent`, for every
  set of tokens and every length of the queue. Each action changes `chain` and
  `current` in one of five ways (`QueueStep`): a stop is queued with or without a
  source to follow, what waits is made void, a stop is answered, a stop settles.
  `QueueSteps` assigns the actions to them, and one lemma for each
  says what becomes of the queue, of the source wanted and of the one held.
  `PlayerInv`, the conjunction of the four invariants, is inductive: that a closed
  dialog starts nothing needs the shape of the queue, which says that a source
  follows only the last stop.
- `PlayerProofs!PlayerKeepsPromise`: `Spec => Promise!PromiseSafe`, the safety part of
  the refinement. A token not in use is not that of the source held, so a choice
  maps to `Choose`; the other steps map to `Leave`, `Release`, `Start` or a stutter.
- `ClientDataProofs!ListsStayInOrder`: `ListsInOrder`. That a list shown is never
  behind the last refresh is not inductive: `InOrder` says of every request in flight
  that what it brings is behind neither the lists shown by the last refresh nor, if
  it is fresh, the refresh in flight; `NoticesKnown`, that a notice tells of a change
  there has been.
- `SearchProofs!SearchStaysInOrder`: `SearchInOrder`, for any categories an answer may
  offer: the items answer the controls, or are the empty answer for a category the
  controls have lost by it. `RequestAsks` adds that the last
  request asks for the controls shown, unless a key is waited for or a link has
  changed them; answers of the others are dropped by their version.
- `FormsProofs`: `DialogStaysInOrder` and `InputIsKept` for every user, `RightRule`
  (`ActsOnRuleMeant`) and `StoredIsShown` (`ShowsWhatIsStored`) for the careful one.
  `CarefulInvariant` says that of his one thing at a time is under way, that a list
  behind the server's goes with an error, a refresh or an answer just received, and
  that each place taken is that of the rule meant in the server's list.

### Only model-checked

- Every liveness property, since TLAPS proves neither fairness nor ENABLED:
  `RecordingEnds`, `RecordedReleases`, `MarkedEnds`, `SkipTakesEffect`, `DueStarts`,
  `SessionsEnd`, `ToldIsFetched`, `RecordedFillsUp`, `WatcherCatchesUp`,
  `TypingIsAnswered`, `ChoiceSettles`, `RulesCatchUp`, and the fair part of
  `PlaybackPromise`.
- `RollbackSparesNewRow`, which holds for two goroutines and three failed calls (a
  rollback needs two) but not for every instance. With three goroutines and four
  failed calls TLC finds: the second removal after a failed rename takes the row of
  the next goroutine (the hazard at operator.go:302), that one goes on without a row
  and shares the row of the third, and the rollback of either takes it from both.

## 5. What is not modelled

Planning of reservations and rule matching, table positions, the wake-up socket,
scheduler gate and encoder slots, live and playback sessions, login sessions,
preview cache, migration, log rotation and process lock are planned (section 7).
Configuration, password hashing and the Mirakurun client are left out: no state of
theirs interacts with another part. Of the search of the server `SearchView` keeps what
an answer may offer.

Of the web client: rendering, the guide and the cards, the status metrics and logs,
access tokens and users (one request each), the logo queue, the arithmetic of the
player's timeline, its keyboard and volume, `player-orientation.js`, and the
fallback for browsers without the `dialog` element. `mpegts.js` is vendored; of it
the player sees that it loads, plays or fails.

## 6. Where code and documents differ

- A recording that a user stopped is post-processed (`StopThenPostProcess`);
  README.md:231 excludes interrupted recordings.

Of the following the modules state what the document says, as a property that is
not among the runs and that TLC finds violated. The instances are those of
`StopThenPostProcess`, with one user operation, and with two goroutines for the
second and third.

- `StopKeepsPartial`: a stop between the two looks at the row discards the
  recording; cli.go:1314 promises to keep it.
- `StoppedNotRestarted`, with `MaxSchedules = 1`: a stop before the first byte deletes
  the reservation with its skip mark, and the next scheduler run reserves the
  program again; program_collections.go:177 says it is not started again.
- `CompletesOwnRow`, with `UserOps = {"delete"}` (it holds in `RecStoreFaults`, where
  nothing is deleted): a goroutine whose row is gone promotes the row of another
  recording; program_collections.go:238.
- `SubtitlesKeepVideo`, in the instance of `Player`: turning the subtitles of an MP4
  source off sends a DELETE with the token of the video (app.js:2907), for which the
  server cancels every request of that token (server.go:2712); TASKS.md:42 makes it
  an acceptance criterion that switching subtitles works consistently.
- `NoConditionFindsPrograms`, in the instance of `SearchView` with two categories: the
  answer for a category that has left the guide is taken, empty, and then clears the
  category (app.js:4240) without a further search, so the view shows no programmes under
  no condition. It says that it searches for the programmes that meet the conditions
  (web/index.html:208). Reloading the page with a saved filter is enough to get there;
  `SearchInOrder` and `TypingIsAnswered` except it.

Met while modelling the recorder, not the subject of a run: a pass can complete a
row under its goroutine, which then neither deletes the reservation nor
post-processes; low storage turns a user stop into an abort; after a failed rename
the row is removed twice, and the second removal can hit a newer row; a recording begun
after its end with no end margin reads for as long as the stream does; an HLS session
started while an earlier one of its id is being terminated loses its directory.

In the web client: a DELETE that is never answered keeps every later source from
starting (app.js:3428); the close event of a replaced confirmation answers the next
one with no (7612); a link by channel, an old link and the key "/" change the search
filter without a search (3645, 4239, 1808), though README.md:129 says that old links
work; loading the rules or the status empties
`state.apiTokens` (1634), so that the settings show no tokens; the answer of a save
discards what was typed since (5888); an answer whose body never ends leaves
`isLoading` set (488); a deletion confirmed in another view, which a key has opened,
leaves the list of rules old although it counts as loaded (1921, 1606); a load of the
settings begun by the key r while their saving is being asked about can put the old
document over the saved one (1925, 1625). Those that endanger a property are listed as hazards.

## 7. Plan

1. Recording: done, with the theorems of section 4 and `RecordingPromise`. Open:
   a promise that has failed renames and deletions as steps, and from it what a
   goroutine that lost its row can still do.
2. `OrderedRows`: positions of reservations, program rows and rules under insert
   and delete, with the theorem that they stay an order without gaps.
3. `ReservePlan`: `BuildReserves`, duplicates and tuner assignment as functions,
   checked against a definition of a conflict-free plan over bounded inputs.
4. `WebGates`: scheduler gate and its four waiters, encoder slots in total and
   per subject, media streams, the post-process limiter; theorems on the limits.
5. `HLSSessions`: done, with theorems. `LiveSessions`: MSE fan-out, subtitles,
   playback sessions, composed with `Player`.
6. `OperatorControl`: wake-ups are not lost; a programme whose end changes while it is
   recorded.
7. The preview cache, configuration update,
   migration, log rotation, process lock, login tickets.
8. The web client: an abstract list that `ClientData` implements; the composition of
   `Forms` with `ClientData`.
