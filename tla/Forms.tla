------------------------------- MODULE Forms -------------------------------
(***************************************************************************)
(* What one tab of the web client (src/web/app.js) changes by its forms:   *)
(* the rules view, the settings view, the cleanup of the recordings, and   *)
(* the dialog in which all of them ask for confirmation.                   *)
(*                                                                         *)
(* Rules are told apart by identity; the server and the client name them   *)
(* by their place in the list.  The settings are one document, a version   *)
(* stands for it.  Of the refresh (see ClientData) only its end matters    *)
(* here: it reloads what the view shows.  The page has been loaded once.   *)
(*                                                                         *)
(* A careful user waits until what was begun is over, refreshes after an   *)
(* error, presses no key while a dialog is open, finishes with the rule    *)
(* form before turning to the list, and has one tab only.  Of any other    *)
(* user, another tab of the browser may delete rules and save settings.    *)
(***************************************************************************)
EXTENDS Integers, Sequences, SequencesExt

CONSTANTS
  None,
  Sent,       \* a request the server has not read yet
  Edited,     \* a settings form with input of the user
  Rules,      \* rules there can be
  FirstRules, \* the rules at first, in order
  MaxClicks,  \* bound: what a careful user does
  MaxHasty,   \* bound: what any other user does
  MaxOthers,  \* bound: changes by another tab
  MaxFails    \* bound: requests that fail or time out

ASSUME RulesAssumption == FirstRules \in Seq(Rules) /\ None \notin Rules
ASSUME FormsBoundsAssumption == {MaxClicks, MaxHasty} \subseteq Nat /\ MaxOthers \in Nat /\ MaxFails \in Nat

VARIABLES
  careful,    \* the user is careful
  srvRules,   \* the rules of the server
  srvConfig,  \* version of its settings
  others,     \* changes by the other tab
  view,       \* state.currentView: "rules", "settings" or "elsewhere"
  rules,      \* state.rules
  config,     \* version of state.config
  loaded,     \* the views whose rulesLoaded, configLoaded is set
  load,       \* state.viewDataRequests: not sent, sent or read by the server
  refreshing, \* "no", "running" or "queued" behind the one that runs
  error,      \* an error is shown
  notice,     \* a notice of the other tab is on its way
  editing,    \* the rule in the rule form, with editingRuleFormIndex
  form,       \* the settings form: the version it was filled from, or edited
  saving,     \* the PUT of the settings: None, Sent or the version made
  asking,     \* pendingConfirmResolve: what is done when the user agrees
  dialog,     \* confirmDialog is open
  closes,     \* close events of the dialog on their way
  cleanup,    \* the cleanup: "idle", "checking", "asking" or "applying"
  sent,       \* changes of rules sent and not answered
  missed,     \* a change of this tab has met another rule than the one shown
  clicks, fails

vars == <<careful, srvRules, srvConfig, others, view, rules, config, loaded, load, refreshing,
          error, notice, editing, form, saving, asking, dialog, closes, cleanup,
          sent, missed, clicks, fails>>

server   == <<careful, srvRules, srvConfig, others, missed>>
lists    == <<rules, config, loaded, load>>
confirms == <<asking, dialog, closes, cleanup>>
settings == <<form, saving>>

\* A change of rules: what it does, to which place, and to which rule it is meant.
Change(kind, place) == [kind |-> kind, index |-> place.index, rule |-> place.rule,
                        state |-> "sent"]

NoPlace == [index |-> 0, rule |-> None]

Changes == [kind : {"toggle", "delete", "add", "save", "config", "clear", "cleanup"},
            index : Nat, rule : Rules \cup {None}, state : {"sent", "done", "refused"}]

ASSUME NoRequestAssumption == None # Sent /\ None \notin Changes /\ None \notin [version : Nat]

\* Variant: the place in a list shown in reverse.
PlaceInSortedList(i) == [index |-> Len(rules) + 1 - i, rule |-> rules[i]]

\* Rule i as the list shows it.
Place(i) == [index |-> i, rule |-> rules[i]]

-----------------------------------------------------------------------------
(* Parts of handlers.                                                      *)

\* Variant: a view is loaded only once.
LoadsOnce(v, force, ld, rq) == v \in {"rules", "settings"} /\ v \notin ld /\ rq[v] = None

\* loadViewData on loaded ld and requests rq: joined to a load in flight.
Loads(v, force, ld, rq) == v \in {"rules", "settings"} /\ (force \/ v \notin ld) /\ rq[v] = None

loadViewData(v, force) ==
  IF Loads(v, force, loaded, load)
  THEN loaded' = loaded \ {v} /\ load' = [load EXCEPT ![v] = Sent]
  ELSE UNCHANGED <<loaded, load>>

\* Variant: an edited form is filled again.
renderConfigFormAnyway == form' = config'

\* An edited form is left alone.
renderConfigForm == form' = IF form # Edited THEN config' ELSE form

\* With ld the views loaded.
renderSettings(ld) == IF "settings" \in ld THEN renderConfigForm ELSE UNCHANGED form

refresh ==
  /\ refreshing' = IF refreshing = "no" THEN "running" ELSE "queued"
  /\ error' = IF refreshing = "no" THEN FALSE ELSE error

Fail == fails < MaxFails /\ fails' = fails + 1

\* A promise of confirmAction resolved with no: only the cleanup cares.
Declined(op, now) == IF op # None /\ op.kind = "cleanup" THEN "idle" ELSE now

\* confirmAction, with now the state of the cleanup: a dialog still open is
\* answered with no and closed first.
confirmAction(op, now) ==
  /\ asking' = op
  /\ dialog' = TRUE
  /\ closes' = IF asking # None THEN closes + 1 ELSE closes
  /\ cleanup' = Declined(asking, now)

\* Nothing that was begun is under way.
Quiet == /\ refreshing = "no" /\ saving = None /\ cleanup = "idle" /\ sent = {}
         /\ \A v \in DOMAIN load : load[v] = None

\* The user presses a key, which an open dialog does not prevent; the careful
\* user waits, and answers the dialog first.
Press ==
  /\ careful => Quiet /\ ~dialog
  /\ clicks < (IF careful THEN MaxClicks ELSE MaxHasty)
  /\ clicks' = clicks + 1

\* He clicks on something, which can only be the dialog while it is open.
Click == Press /\ ~dialog /\ closes = 0 /\ (careful => ~error)

-----------------------------------------------------------------------------

Init ==
  /\ careful \in BOOLEAN
  /\ srvRules = FirstRules
  /\ srvConfig = 0
  /\ others = 0
  /\ view = "elsewhere"
  /\ rules = <<>>
  /\ config = 0
  /\ loaded = {}
  /\ load = [v \in {"rules", "settings"} |-> None]
  /\ refreshing = "no"
  /\ error = FALSE
  /\ notice = FALSE
  /\ editing = None
  /\ form = 0
  /\ saving = None
  /\ asking = None
  /\ dialog = FALSE
  /\ closes = 0
  /\ cleanup = "idle"
  /\ sent = {}
  /\ missed = FALSE
  /\ clicks = 0
  /\ fails = 0

-----------------------------------------------------------------------------
(* Views, loads and the refresh.                                           *)

\* A link to the view, or one of the keys 1 to 7.
SetView(v) ==
  /\ Press /\ (careful => ~error)
  /\ v # view
  /\ view' = v
  /\ UNCHANGED config
  /\ IF v = "settings" THEN renderSettings(loaded) ELSE UNCHANGED form
  /\ loadViewData(v, FALSE)
  /\ UNCHANGED <<server, rules, refreshing, error, notice, editing, saving, confirms, sent, fails>>

LoadRead(v) ==
  /\ load[v] = Sent
  /\ load' = [load EXCEPT ![v] = IF v = "rules" THEN [list |-> srvRules]
                                                ELSE [version |-> srvConfig]]
  /\ UNCHANGED <<server, view, rules, config, loaded, refreshing, error, notice, editing,
                 settings, confirms, sent, clicks, fails>>

LoadAnswers(v) ==
  /\ load[v] \notin {None, Sent}
  /\ load' = [load EXCEPT ![v] = None]
  /\ loaded' = loaded \cup {v}
  /\ rules' = IF v = "rules" THEN load[v].list ELSE rules
  /\ config' = IF v = "settings" THEN load[v].version ELSE config
  /\ IF v = "settings" /\ view = v THEN renderSettings(loaded') ELSE UNCHANGED form
  /\ UNCHANGED <<server, view, refreshing, error, notice, editing, saving, confirms, sent, clicks, fails>>

LoadFails(v) ==
  /\ Fail
  /\ load[v] # None
  /\ load' = [load EXCEPT ![v] = None]
  /\ error' = TRUE
  /\ UNCHANGED <<server, view, rules, config, loaded, refreshing, notice, editing, settings,
                 confirms, sent, clicks>>

\* Everything is rendered, then what the view shows is loaded again.
RefreshAnswers ==
  /\ refreshing # "no"
  /\ refreshing' = IF refreshing = "queued" THEN "running" ELSE "no"
  /\ error' = FALSE
  /\ UNCHANGED <<rules, config>>
  /\ renderSettings(loaded)
  /\ loadViewData(view, TRUE)
  /\ UNCHANGED <<server, view, notice, editing, saving, confirms, sent, clicks, fails>>

RefreshFails ==
  /\ Fail
  /\ refreshing # "no"
  /\ refreshing' = IF refreshing = "queued" THEN "running" ELSE "no"
  /\ error' = (refreshing # "queued")
  /\ UNCHANGED <<server, view, lists, notice, editing, settings, confirms, sent, clicks>>

\* The button of a failed load of the settings.
RetrySettings ==
  /\ Press /\ ~dialog /\ closes = 0
  /\ view = "settings" /\ "settings" \notin loaded /\ load["settings"] = None
  /\ loadViewData("settings", TRUE)
  /\ UNCHANGED <<server, view, rules, config, refreshing, error, notice, editing, settings,
                 confirms, sent, fails>>

\* The refresh button, or the key r.
PressRefresh ==
  /\ Press
  /\ refresh
  /\ UNCHANGED <<server, view, lists, notice, editing, settings, confirms, sent, fails>>

-----------------------------------------------------------------------------
(* The rules view.  The careful user finishes the form first.              *)

Listed == view = "rules" /\ "rules" \in loaded /\ (careful => editing = None)

\* Enable or disable: not asked about.
ToggleRule ==
  /\ Click
  /\ Listed
  /\ \E i \in DOMAIN rules : sent' = sent \cup {Change("toggle", Place(i))}
  /\ UNCHANGED <<server, view, lists, refreshing, error, notice, editing, settings, confirms, fails>>

DeleteRule ==
  /\ Click
  /\ Listed
  /\ \E i \in DOMAIN rules : confirmAction(Change("delete", Place(i)), cleanup)
  /\ UNCHANGED <<server, view, lists, refreshing, error, notice, editing, settings, sent, fails>>

fillRuleFormFromRule ==
  /\ Click
  /\ view = "rules" /\ "rules" \in loaded
  /\ \E i \in DOMAIN rules : editing' = Place(i)
  /\ UNCHANGED <<server, view, lists, refreshing, error, notice, settings, confirms, sent, fails>>

\* readRuleForm finds the form at fault.
FormRefused == error' = TRUE /\ UNCHANGED confirms

addBasicRule ==
  /\ Click
  /\ view = "rules" /\ (careful => editing = None)
  /\ \/ confirmAction(Change("add", NoPlace), cleanup) /\ UNCHANGED error
     \/ FormRefused
  /\ UNCHANGED <<server, view, lists, refreshing, notice, editing, settings, sent, fails>>

saveBasicRule ==
  /\ Click
  /\ view = "rules" /\ editing # None
  /\ \/ confirmAction(Change("save", NoPlace), cleanup) /\ UNCHANGED error
     \/ FormRefused
  /\ UNCHANGED <<server, view, lists, refreshing, notice, editing, settings, sent, fails>>

\* resetRuleForm in the rules view; fillRuleFormFromProgram in the dialog of a
\* program, which then changes the address.
LeaveRule ==
  /\ Click
  /\ editing # None
  /\ editing' = None
  /\ UNCHANGED <<server, view, lists, refreshing, error, notice, settings, confirms, sent, fails>>

-----------------------------------------------------------------------------
(* The settings view and the cleanup.                                      *)

EditSettings ==
  /\ Click
  /\ view = "settings" /\ "settings" \in loaded
  /\ form' = Edited
  /\ UNCHANGED <<server, view, lists, refreshing, error, notice, editing, saving, confirms, sent, fails>>

saveStrataConfigFromForm ==
  /\ Click
  /\ view = "settings" /\ "settings" \in loaded
  /\ confirmAction(Change("config", NoPlace), cleanup)
  /\ UNCHANGED <<server, view, lists, refreshing, error, notice, editing, settings, sent, fails>>

\* clearStrataPreviewCache, clearStrataLogoCache: no list is refreshed.
ClearCache ==
  /\ Click
  /\ view = "settings"
  /\ confirmAction(Change("clear", NoPlace), cleanup)
  /\ UNCHANGED <<server, view, lists, refreshing, error, notice, editing, settings, sent, fails>>

cleanupRecorded ==
  /\ Click
  /\ view = "elsewhere"
  /\ cleanup = "idle"
  /\ cleanup' = "checking"
  /\ UNCHANGED <<server, view, lists, refreshing, error, notice, editing, settings, asking,
                 dialog, closes, sent, fails>>

\* Nothing to remove, or the user is asked, whatever else is being asked.
CleanupChecked ==
  /\ cleanup = "checking"
  /\ \/ cleanup' = "idle" /\ UNCHANGED <<asking, dialog, closes>>
     \/ confirmAction(Change("cleanup", NoPlace), "asking")
  /\ UNCHANGED <<server, view, lists, refreshing, error, notice, editing, settings, sent, clicks, fails>>

CleanupApplied ==
  /\ cleanup = "applying"
  /\ cleanup' = "idle"
  /\ refresh
  /\ UNCHANGED <<server, view, lists, notice, editing, settings, asking, dialog, closes, sent, clicks, fails>>

CleanupFails ==
  /\ Fail
  /\ cleanup \in {"checking", "applying"}
  /\ cleanup' = "idle"
  /\ error' = TRUE
  /\ UNCHANGED <<server, view, lists, refreshing, notice, editing, settings, asking, dialog,
                 closes, sent, clicks>>

-----------------------------------------------------------------------------
(* The dialog.                                                             *)

\* What is done when op is agreed to; the place of a save is read only now.
Agreed(op) ==
  /\ sent' = IF op.kind \in {"delete", "add", "clear"} THEN sent \cup {op}
             ELSE IF op.kind = "save"
             THEN sent \cup {Change("save", IF editing = None THEN NoPlace ELSE editing)} ELSE sent
  /\ saving' = IF op.kind = "config" THEN Sent ELSE saving
  /\ cleanup' = IF op.kind = "cleanup" THEN "applying" ELSE cleanup

closeConfirmDialog == dialog' = FALSE /\ closes' = 1 /\ asking' = None

\* A button, a click beside the dialog, the Escape key; they come after the
\* close events there are.
AnswerDialog ==
  /\ dialog /\ closes = 0
  /\ closeConfirmDialog
  /\ \/ asking # None /\ Agreed(asking)
     \/ cleanup' = Declined(asking, cleanup) /\ UNCHANGED <<sent, saving>>
  /\ UNCHANGED <<server, view, lists, refreshing, error, notice, editing, form, clicks, fails>>

\* Variant: the close event answers nobody.
AnsweredByNobody == asking' = None /\ UNCHANGED cleanup

\* What is being asked, if anything, is answered with no.
AnsweredNo == asking' = None /\ cleanup' = Declined(asking, cleanup)

\* The dialog's close event, also of a dialog that has been opened again.
CloseEvent ==
  /\ closes > 0
  /\ closes' = closes - 1
  /\ AnsweredNo
  /\ UNCHANGED <<server, view, lists, refreshing, error, notice, editing, settings, dialog,
                 sent, clicks, fails>>

-----------------------------------------------------------------------------
(* Changes reach the server and are answered.                              *)

\* handleRules and handleRule of the server: the place in the list counts.
RuleHandled(c) ==
  /\ c \in sent /\ c.state = "sent"
  /\ LET there == c.kind \in {"add", "clear"} \/ c.index \in DOMAIN srvRules
     IN  /\ sent' = (sent \ {c}) \cup {[c EXCEPT !.state = IF there THEN "done" ELSE "refused"]}
         /\ missed' = (missed \/ (c.index \in DOMAIN srvRules /\ srvRules[c.index] # c.rule))
         /\ CASE c.kind = "delete" /\ there -> srvRules' = RemoveAt(srvRules, c.index)
              [] c.kind = "add" /\ Rules \ ToSet(srvRules) # {} ->
                   \E r \in Rules \ ToSet(srvRules) : srvRules' = Append(srvRules, r)
              [] OTHER -> UNCHANGED srvRules
  /\ UNCHANGED <<careful, srvConfig, others, view, lists, refreshing, error, notice, editing,
                 settings, confirms, clicks, fails>>

\* Variant: no refresh after a change.
AfterChangeOnly(c) == UNCHANGED <<refreshing, error>>

\* All but the clearing of a cache ends in a refresh.
AfterChange(c) == IF c.kind = "clear" THEN UNCHANGED <<refreshing, error>> ELSE refresh

\* An added or saved rule leaves the form.
RuleAnswered(c) ==
  /\ c \in sent /\ c.state = "done"
  /\ sent' = sent \ {c}
  /\ editing' = IF c.kind \in {"add", "save"} THEN None ELSE editing
  /\ AfterChange(c)
  /\ UNCHANGED <<server, view, lists, notice, settings, confirms, clicks, fails>>

\* Refused, or the answer is lost.
RuleFails(c) ==
  /\ c \in sent
  /\ IF c.state = "refused" THEN UNCHANGED fails ELSE Fail
  /\ sent' = sent \ {c}
  /\ error' = TRUE
  /\ UNCHANGED <<server, view, lists, refreshing, notice, editing, settings, confirms, clicks>>

ConfigHandled ==
  /\ saving = Sent
  /\ srvConfig' = srvConfig + 1
  /\ saving' = [version |-> srvConfig']
  /\ UNCHANGED <<careful, srvRules, others, missed, view, lists, refreshing, error, notice, editing, form,
                 confirms, sent, clicks, fails>>

\* The answer is what was saved; the form is no longer an edited one.
ConfigAnswered ==
  /\ saving \notin {None, Sent}
  /\ saving' = None
  /\ config' = saving.version
  /\ form' = IF "settings" \in loaded THEN config' ELSE 0
  /\ UNCHANGED <<server, view, rules, loaded, load, refreshing, error, notice, editing,
                 confirms, sent, clicks, fails>>

ConfigFails ==
  /\ Fail
  /\ saving # None
  /\ saving' = None
  /\ error' = TRUE
  /\ UNCHANGED <<server, view, lists, refreshing, notice, editing, form, confirms, sent, clicks>>

\* Another tab deletes a rule or saves the settings, and tells this one.
OtherTab ==
  /\ ~careful
  /\ others < MaxOthers
  /\ others' = others + 1
  /\ \/ \E i \in DOMAIN srvRules : srvRules' = RemoveAt(srvRules, i) /\ UNCHANGED srvConfig
     \/ srvConfig' = srvConfig + 1 /\ UNCHANGED srvRules
  /\ notice' = TRUE
  /\ UNCHANGED <<careful, missed, view, lists, refreshing, error, editing, settings, confirms, sent, clicks, fails>>

Notice ==
  /\ notice
  /\ notice' = FALSE
  /\ refresh
  /\ UNCHANGED <<server, view, lists, editing, settings, confirms, sent, clicks, fails>>

-----------------------------------------------------------------------------

Next ==
  \/ \E v \in {"rules", "settings", "elsewhere"} : SetView(v)
  \/ \E v \in {"rules", "settings"} : LoadRead(v) \/ LoadAnswers(v) \/ LoadFails(v)
  \/ RefreshAnswers \/ RefreshFails \/ PressRefresh \/ RetrySettings
  \/ ToggleRule \/ DeleteRule \/ fillRuleFormFromRule
  \/ addBasicRule \/ saveBasicRule \/ LeaveRule
  \/ EditSettings \/ ClearCache \/ saveStrataConfigFromForm
  \/ cleanupRecorded \/ CleanupChecked \/ CleanupApplied \/ CleanupFails
  \/ AnswerDialog \/ CloseEvent
  \/ \E c \in sent : RuleHandled(c) \/ RuleAnswered(c) \/ RuleFails(c)
  \/ ConfigHandled \/ ConfigAnswered \/ ConfigFails
  \/ OtherTab \/ Notice

Fairness ==
  /\ \A v \in {"rules", "settings"} : WF_vars(LoadRead(v)) /\ WF_vars(LoadAnswers(v))
  /\ WF_vars(RefreshAnswers) /\ WF_vars(Notice) /\ WF_vars(CloseEvent)
  /\ WF_vars(CleanupChecked) /\ WF_vars(CleanupApplied)
  /\ WF_vars(\E c \in sent : RuleHandled(c) \/ RuleAnswered(c) \/ RuleFails(c))
  /\ WF_vars(ConfigHandled) /\ WF_vars(ConfigAnswered)

Spec == Init /\ [][Next]_vars /\ Fairness

-----------------------------------------------------------------------------
(* Properties.                                                             *)

\* Type invariant; the places in the list of rules count from one.
TypeOK ==
  /\ srvRules \in Seq(Rules) /\ rules \in Seq(Rules)
  /\ {srvConfig, config, others, clicks, fails} \subseteq Nat
  /\ view \in {"rules", "settings", "elsewhere"}
  /\ loaded \subseteq {"rules", "settings"}
  /\ refreshing \in {"no", "running", "queued"}
  /\ {careful, error, notice, dialog, missed} \subseteq BOOLEAN
  /\ editing = None \/ (editing.index \in 1 .. Len(FirstRules) + clicks /\ editing.rule \in Rules)
  /\ form = Edited \/ form \in Nat
  /\ closes \in 0 .. 2
  /\ cleanup \in {"idle", "checking", "asking", "applying"}

\* A user who waits for what was begun, refreshes after an error and has one
\* tab deletes, switches and saves the very rule the list or the form showed,
\* although rules are named by their place: every deletion reloads the list
\* before the next click, also one that failed after the server made it.
ActsOnRuleMeant == careful => ~missed

\* For that user, once nothing is under way and no error is shown, the list
\* of rules and the settings form are those of the server.
ShowsWhatIsStored ==
  careful /\ Quiet /\ ~error =>
    /\ "rules" \in loaded => rules = srvRules
    /\ "settings" \in loaded /\ view = "settings" => form \in {srvConfig, Edited}

\* What waits for the user's answer can be answered: its dialog is open.
NothingAskedUnseen == asking # None => dialog

\* The cleanup, whose button is disabled until it is over, waits for an
\* answer only while the dialog asks for it: a confirmation that replaces
\* another, or the late close event of the one replaced, never leaves it stuck.
CleanupNotStuck == cleanup = "asking" => dialog /\ asking # None /\ asking.kind = "cleanup"

\* The dialog in order, with the types: every question can be answered, and
\* confirmations that follow or replace each other leave none behind.
DialogInOrder == TypeOK /\ NothingAskedUnseen /\ CleanupNotStuck

\* Whatever is loaded, refreshed or told by other tabs, the input in the
\* settings form goes only when a save is answered.
EditsKept == [][form = Edited /\ form' # Edited => saving # None /\ saving' = None]_vars

\* A rule the careful user has deleted leaves the list he looks at, or an
\* error is shown.
RulesCatchUp == \A r \in Rules :
  (careful /\ view = "rules" /\ r \in ToSet(rules) \ ToSet(srvRules))
    ~> (r \notin ToSet(rules) \ ToSet(srvRules) \/ error \/ view # "rules")

=============================================================================
