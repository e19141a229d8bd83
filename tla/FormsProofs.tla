---------------------------- MODULE FormsProofs ----------------------------
(***************************************************************************)
(* The forms and confirmations of a tab for every list of rules and every  *)
(* number of clicks, failures and changes by others.                       *)
(***************************************************************************)
EXTENDS Forms, SequenceTheorems, TLAPS

Lists == {"rules", "settings"}

\* What requests, answers and changes look like.
RequestsOK ==
  /\ load \in [Lists -> {None, Sent} \cup [list : Seq(Rules)] \cup [version : Nat]]
  /\ load["rules"] \in {None, Sent} \cup [list : Seq(Rules)]
  /\ load["settings"] \in {None, Sent} \cup [version : Nat]
  /\ saving \in {None, Sent} \cup [version : Nat]
  /\ asking \in Changes \cup {None}
  /\ sent \subseteq Changes
  /\ \A c \in sent : c.kind = "add" => c.index = 0 /\ c.rule = None
  /\ asking # None /\ asking.kind = "add" => asking.index = 0 /\ asking.rule = None

AddAsked == asking # None /\ asking.kind = "add"
AddSent  == \E c \in sent : c.kind = "add" /\ c.state = "sent"

\* No list is longer than the first with a rule for every click: every added
\* rule has taken one, which also those do that are still to be added.
RulesBound ==
  /\ Len(srvRules) + (IF AddAsked THEN 1 ELSE 0) + (IF AddSent THEN 1 ELSE 0)
       <= Len(FirstRules) + clicks
  /\ Len(rules) <= Len(FirstRules) + clicks
  /\ load["rules"] \notin {None, Sent} => Len(load["rules"].list) <= Len(FirstRules) + clicks

\* The cleanup, which asks once, adds a close event to one at most.
CleanupAsksOnce == cleanup = "checking" => closes <= 1

DialogInvariant == DialogInOrder /\ RequestsOK /\ RulesBound /\ CleanupAsksOnce

Loading == \E v \in Lists : load[v] # None

\* Of the careful user one thing at a time is under way.
OneAtATime ==
  /\ refreshing # "no" =>
       refreshing = "running" /\ ~Loading /\ saving = None /\ cleanup = "idle" /\ sent = {} /\ ~dialog
  /\ Loading => saving = None /\ cleanup = "idle" /\ sent = {} /\ ~dialog
  /\ saving # None => cleanup = "idle" /\ sent = {} /\ ~dialog
  /\ cleanup # "idle" => sent = {} /\ (dialog => cleanup = "asking")
  /\ sent # {} => ~dialog
  /\ \A c, d \in sent : c = d
  /\ ~notice

\* Change c is meant to the rule that is at its place.
Meant(c) == c.index \in DOMAIN srvRules => srvRules[c.index] = c.rule

\* Every place the careful user has taken is still that of its rule.
PlacesMeant ==
  /\ \A c \in sent : c.state = "sent" => Meant(c)
  /\ asking # None => Meant(asking)
  /\ editing # None => Meant(editing)
  /\ \A c \in sent : c.kind \in {"toggle", "delete", "add"} => editing = None
  /\ asking # None /\ asking.kind \in {"delete", "add"} => editing = None

\* Lists the view may change stand in the view until they are loaded again.
RulesStale ==
  "rules" \in loaded /\ rules # srvRules =>
    /\ view = "rules"
    /\ error \/ refreshing # "no" \/ \E c \in sent : c.kind # "clear" /\ c.state = "done"

ConfigStale ==
  "settings" \in loaded /\ config # srvConfig =>
    view = "settings" /\ (error \/ refreshing # "no" \/ saving = [version |-> srvConfig])

\* The rules are changed, and the settings saved, in their view.
InTheirView ==
  /\ \A c \in sent : c.kind \in {"toggle", "delete", "add", "save"} => view = "rules"
  /\ asking # None /\ asking.kind \in {"toggle", "delete", "add", "save"} => view = "rules"
  /\ saving # None => view = "settings"
  /\ asking # None /\ asking.kind = "config" => view = "settings"

\* Nothing changes on the server while a list is on its way.
AnswersFresh ==
  /\ load["rules"] \notin {None, Sent} => load["rules"].list = srvRules
  /\ load["settings"] \notin {None, Sent} => load["settings"].version = srvConfig
  /\ saving \notin {None, Sent} => saving = [version |-> srvConfig]

\* The list is loaded or being loaded, never both.
LoadedOrLoading == \A v \in Lists : v \in loaded => load[v] = None

FormShows ==
  view = "settings" /\ "settings" \in loaded => form \in {config, Edited}

CarefulInvariant ==
  careful =>
    /\ ~missed
    /\ OneAtATime /\ PlacesMeant /\ RulesStale /\ ConfigStale /\ InTheirView /\ AnswersFresh

FormsInvariant == DialogInvariant /\ LoadedOrLoading /\ FormShows /\ CarefulInvariant

-----------------------------------------------------------------------------
(* Sequences, changes and what the invariant says of each variable.        *)

LEMMA RemoveIs ==
  ASSUME NEW s \in Seq(Rules), NEW i \in DOMAIN s
  PROVE  RemoveAt(s, i) \in Seq(Rules) /\ Len(RemoveAt(s, i)) = Len(s) - 1
<1>1. Len(s) \in Nat /\ i \in 1 .. Len(s) /\ \A k \in 1 .. Len(s) : s[k] \in Rules
  BY ElementOfSeq, LenProperties
<1> DEFINE before == SubSeq(s, 1, i - 1)
           after  == SubSeq(s, i + 1, Len(s))
<1>2. before \in Seq(Rules) /\ Len(before) = i - 1
  <2>1. \A k \in 1 .. i - 1 : s[k] \in Rules
    BY <1>1
  <2> QED BY <1>1, <2>1, SubSeqProperties
<1>3. after \in Seq(Rules) /\ Len(after) = Len(s) - i
  <2>1. \A k \in i + 1 .. Len(s) : s[k] \in Rules
    BY <1>1
  <2> QED BY <1>1, <2>1, SubSeqProperties
<1>4. RemoveAt(s, i) = before \o after
  BY DEF RemoveAt
<1> HIDE DEF before, after
<1> QED
  BY <1>1, <1>2, <1>3, <1>4, ConcatProperties

LEMMA AppendIs ==
  ASSUME NEW s \in Seq(Rules), NEW r \in Rules
  PROVE  Append(s, r) \in Seq(Rules) /\ Len(Append(s, r)) = Len(s) + 1
OBVIOUS

\* The place of a rule the list shows.
LEMMA PlaceIs ==
  ASSUME rules \in Seq(Rules), NEW i \in DOMAIN rules
  PROVE  /\ Place(i).index = i /\ Place(i).index \in 1 .. Len(rules)
         /\ Place(i).rule = rules[i] /\ Place(i).rule \in Rules
BY ElementOfSeq, LenProperties DEF Place

LEMMA ChangeIs ==
  ASSUME NEW kind \in {"toggle", "delete", "add", "save", "config", "clear", "cleanup"},
         NEW place, place.index \in Nat, place.rule \in Rules \cup {None}
  PROVE  /\ Change(kind, place) \in Changes
         /\ Change(kind, place).kind = kind /\ Change(kind, place).state = "sent"
         /\ Change(kind, place).index = place.index /\ Change(kind, place).rule = place.rule
BY DEF Change, Changes

LEMMA NoPlaceIs == NoPlace.index = 0 /\ NoPlace.rule = None
BY DEF NoPlace

\* A change that is handled is the same but for its state.
LEMMA HandledIs ==
  ASSUME NEW c \in Changes, NEW st \in {"done", "refused"}
  PROVE  /\ [c EXCEPT !.state = st] \in Changes
         /\ [c EXCEPT !.state = st].state = st
         /\ [c EXCEPT !.state = st].kind = c.kind
         /\ [c EXCEPT !.state = st].index = c.index
         /\ [c EXCEPT !.state = st].rule = c.rule
BY DEF Changes

LEMMA ChangeFields ==
  ASSUME NEW c \in Changes
  PROVE  /\ c.kind \in {"toggle", "delete", "add", "save", "config", "clear", "cleanup"}
         /\ c.index \in Nat /\ c.rule \in Rules \cup {None}
         /\ c.state \in {"sent", "done", "refused"}
         /\ c # None
BY NoRequestAssumption DEF Changes

LEMMA Fields ==
  ASSUME DialogInvariant
  PROVE  /\ srvRules \in Seq(Rules) /\ rules \in Seq(Rules)
         /\ srvConfig \in Nat /\ config \in Nat /\ others \in Nat
         /\ clicks \in Nat /\ fails \in Nat
         /\ view \in {"rules", "settings", "elsewhere"}
         /\ loaded \subseteq Lists
         /\ refreshing \in {"no", "running", "queued"}
         /\ careful \in BOOLEAN /\ error \in BOOLEAN /\ notice \in BOOLEAN
         /\ dialog \in BOOLEAN /\ missed \in BOOLEAN
         /\ editing = None \/ ( /\ editing.index \in 1 .. Len(FirstRules) + clicks
                                /\ editing.rule \in Rules )
         /\ form = Edited \/ form \in Nat
         /\ closes \in 0 .. 2
         /\ cleanup \in {"idle", "checking", "asking", "applying"}
BY DEF DialogInvariant, DialogInOrder, TypeOK, Lists

LEMMA Lengths ==
  ASSUME DialogInvariant
  PROVE  Len(FirstRules) \in Nat /\ Len(srvRules) \in Nat /\ Len(rules) \in Nat
BY Fields, RulesAssumption, LenProperties

\* The types of the next state, one variable at a time.
LEMMA TypesFrom ==
  ASSUME srvRules' \in Seq(Rules), rules' \in Seq(Rules),
         srvConfig' \in Nat, config' \in Nat, others' \in Nat, clicks' \in Nat, fails' \in Nat,
         view' \in {"rules", "settings", "elsewhere"}, loaded' \subseteq Lists,
         refreshing' \in {"no", "running", "queued"},
         careful' \in BOOLEAN, error' \in BOOLEAN, notice' \in BOOLEAN,
         dialog' \in BOOLEAN, missed' \in BOOLEAN,
         editing' = None \/ ( /\ editing'.index \in 1 .. Len(FirstRules) + clicks'
                              /\ editing'.rule \in Rules ),
         form' = Edited \/ form' \in Nat, closes' \in 0 .. 2,
         cleanup' \in {"idle", "checking", "asking", "applying"}
  PROVE  TypeOK'
<1>1. {srvConfig', config', others', clicks', fails'} \subseteq Nat
  OBVIOUS
<1>2. {careful', error', notice', dialog', missed'} \subseteq BOOLEAN
  OBVIOUS
<1> QED
  BY <1>1, <1>2 DEF TypeOK, Lists

LEMMA DialogFrom ==
  ASSUME TypeOK', NothingAskedUnseen', CleanupNotStuck', RequestsOK', RulesBound', CleanupAsksOnce'
  PROVE  DialogInvariant'
BY DEF DialogInvariant, DialogInOrder

LEMMA DialogParts ==
  ASSUME FormsInvariant
  PROVE  /\ DialogInvariant /\ RequestsOK /\ RulesBound /\ CleanupAsksOnce
         /\ NothingAskedUnseen /\ CleanupNotStuck /\ LoadedOrLoading /\ FormShows
BY DEF FormsInvariant, DialogInvariant, DialogInOrder

LEMMA CarefulParts ==
  ASSUME FormsInvariant, careful
  PROVE  /\ ~missed /\ OneAtATime /\ PlacesMeant /\ RulesStale /\ ConfigStale
         /\ InTheirView /\ AnswersFresh
BY DEF FormsInvariant, CarefulInvariant

LEMMA BoundIs ==
  ASSUME FormsInvariant
  PROVE  /\ Len(srvRules) <= Len(FirstRules) + clicks
         /\ Len(rules) <= Len(FirstRules) + clicks
<1> DEFINE a == IF AddAsked THEN 1 ELSE 0
           s == IF AddSent THEN 1 ELSE 0
<1>1. Len(srvRules) + a + s <= Len(FirstRules) + clicks
      /\ Len(rules) <= Len(FirstRules) + clicks
  BY DialogParts DEF RulesBound
<1>2. a \in Nat /\ s \in Nat
  OBVIOUS
<1> HIDE DEF a, s
<1> QED
  BY <1>1, <1>2, DialogParts, Fields, Lengths

\* The lists stay within their bound when nothing is added to them.
LEMMA BoundKept ==
  ASSUME FormsInvariant, clicks' \in Nat, clicks' >= clicks, UNCHANGED <<srvRules, rules>>,
         AddAsked' => AddAsked, AddSent' => AddSent,
         load'["rules"] \in {load["rules"], None, Sent}
  PROVE  RulesBound'
<1>1. RulesBound /\ clicks \in Nat
  BY DialogParts, Fields
<1>2. Len(FirstRules) \in Nat /\ Len(srvRules) \in Nat /\ Len(rules) \in Nat
  BY DialogParts, Lengths
<1>3. load'["rules"] \notin {None, Sent} => Len(load'["rules"].list) <= Len(FirstRules) + clicks'
  <2>1. CASE load'["rules"] = load["rules"]
    <3>1. SUFFICES ASSUME load["rules"] \notin {None, Sent}
                   PROVE  Len(load["rules"].list) <= Len(FirstRules) + clicks'
      BY <2>1
    <3>2. load["rules"].list \in Seq(Rules)
      BY <3>1, DialogParts DEF RequestsOK
    <3>3. Len(load["rules"].list) \in Nat
      BY <3>2, LenProperties
    <3> QED BY <1>1, <1>2, <3>1, <3>3 DEF RulesBound
  <2> QED BY <2>1
<1>4. Len(rules) <= Len(FirstRules) + clicks'
  BY <1>1, <1>2 DEF RulesBound
<1>5. Len(srvRules) + (IF AddAsked' THEN 1 ELSE 0) + (IF AddSent' THEN 1 ELSE 0)
        <= Len(FirstRules) + clicks'
  <2> DEFINE a == IF AddAsked THEN 1 ELSE 0
             s == IF AddSent THEN 1 ELSE 0
  <2>1. a \in Nat /\ s \in Nat /\ a' \in Nat /\ s' \in Nat
    OBVIOUS
  <2>2. a' <= a
    <3>1. CASE AddAsked'
      BY <3>1
    <3>2. CASE ~AddAsked'
      <4>1. a' = 0
        BY <3>2
      <4> QED BY <2>1, <4>1
    <3> QED BY <3>1, <3>2
  <2>5. s' <= s
    <3>1. CASE AddSent'
      BY <3>1
    <3>2. CASE ~AddSent'
      <4>1. s' = 0
        BY <3>2
      <4> QED BY <2>1, <4>1
    <3> QED BY <3>1, <3>2
  <2>3. Len(srvRules) + a + s <= Len(FirstRules) + clicks
    BY <1>1 DEF RulesBound
  <2>4. Len(srvRules) + a' + s' <= Len(FirstRules) + clicks'
    <3> HIDE DEF a, s
    <3> QED BY <1>1, <1>2, <2>1, <2>2, <2>3, <2>5
  <2> QED BY <2>4
<1> QED
  BY <1>3, <1>4, <1>5 DEF RulesBound

\* What the user presses a key for does not matter: if careful, nothing is under way.
LEMMA Pressed ==
  ASSUME FormsInvariant, Press
  PROVE  /\ clicks' = clicks + 1 /\ clicks' \in Nat /\ clicks' >= clicks
         /\ careful => /\ refreshing = "no" /\ saving = None /\ cleanup = "idle" /\ sent = {}
                       /\ ~Loading /\ ~dialog /\ asking = None
<1>1. clicks' = clicks + 1 /\ (careful => Quiet /\ ~dialog)
  BY DEF Press
<1>2. clicks \in Nat /\ (~dialog => asking = None)
  BY DialogParts, Fields DEF NothingAskedUnseen
<1>3. DOMAIN load = Lists
  BY DialogParts DEF RequestsOK
<1> QED
  BY <1>1, <1>2, <1>3 DEF Quiet, Loading

\* The careful user who sees no error sees what is stored.
LEMMA SeenIsStored ==
  ASSUME FormsInvariant, careful, refreshing = "no", saving = None, sent = {}, ~error
  PROVE  /\ "rules" \in loaded => rules = srvRules
         /\ "settings" \in loaded => config = srvConfig
<1>1. None # [version |-> srvConfig]
  BY NoRequestAssumption, DialogParts, Fields
<1> QED BY <1>1, CarefulParts DEF RulesStale, ConfigStale

\* Who may click has no open question, and if careful nothing under way.
LEMMA Clicked ==
  ASSUME FormsInvariant, Click
  PROVE  /\ ~dialog /\ closes = 0 /\ asking = None /\ cleanup # "asking"
         /\ clicks' = clicks + 1 /\ clicks' \in Nat /\ clicks' >= clicks
         /\ careful => /\ refreshing = "no" /\ saving = None /\ cleanup = "idle" /\ sent = {}
                       /\ ~Loading /\ ~error
                       /\ "rules" \in loaded => rules = srvRules
                       /\ "settings" \in loaded => config = srvConfig
<1>1. Press /\ ~dialog /\ closes = 0 /\ (careful => ~error)
  BY DEF Click
<1>2. asking = None /\ cleanup # "asking"
  BY <1>1, DialogParts DEF NothingAskedUnseen, CleanupNotStuck
<1> QED
  BY <1>1, <1>2, Pressed, SeenIsStored

LEMMA EditingKept ==
  ASSUME FormsInvariant, clicks' \in Nat, clicks' >= clicks, editing' \in {editing, None}
  PROVE  editing' = None \/ ( /\ editing'.index \in 1 .. Len(FirstRules) + clicks'
                              /\ editing'.rule \in Rules )
BY DialogParts, Fields, Lengths

\* The invariant of the careful user, part by part.
LEMMA CarefulFrom ==
  ASSUME careful' => ~missed' /\ OneAtATime' /\ PlacesMeant' /\ RulesStale' /\ ConfigStale'
                     /\ InTheirView' /\ AnswersFresh'
  PROVE  CarefulInvariant'
BY DEF CarefulInvariant

LEMMA InvariantFrom ==
  ASSUME TypeOK', NothingAskedUnseen', CleanupNotStuck', RequestsOK', RulesBound',
         CleanupAsksOnce', LoadedOrLoading', FormShows', CarefulInvariant'
  PROVE  FormsInvariant'
BY DialogFrom DEF FormsInvariant

-----------------------------------------------------------------------------
(* Views, loads and the refresh.                                           *)

\* Loading a list takes it out of the loaded ones, until it answers.
LEMMA LoadIs ==
  ASSUME FormsInvariant, NEW v \in Lists \cup {"elsewhere"}, NEW force \in BOOLEAN,
         loadViewData(v, force)
  PROVE  /\ loaded' \subseteq loaded
         /\ load' \in [Lists -> {None, Sent} \cup [list : Seq(Rules)] \cup [version : Nat]]
         /\ \A l \in Lists : load'[l] \in {load[l], Sent}
         /\ LoadedOrLoading'
         /\ v \in Lists /\ force /\ ~Loading => v \notin loaded'
<1>1. load \in [Lists -> {None, Sent} \cup [list : Seq(Rules)] \cup [version : Nat]]
      /\ LoadedOrLoading
  BY DialogParts DEF RequestsOK
<1>2. CASE Loads(v, force, loaded, load)
  <2>1. v \in Lists /\ loaded' = loaded \ {v} /\ load' = [load EXCEPT ![v] = Sent]
    BY <1>2 DEF Loads, loadViewData, Lists
  <2>2. \A l \in Lists : load'[l] = IF l = v THEN Sent ELSE load[l]
    BY <1>1, <2>1
  <2>3. load' \in [Lists -> {None, Sent} \cup [list : Seq(Rules)] \cup [version : Nat]]
    BY <1>1, <2>1
  <2> QED BY <1>1, <2>1, <2>2, <2>3 DEF LoadedOrLoading
<1>3. CASE ~Loads(v, force, loaded, load)
  <2>1. loaded' = loaded /\ load' = load
    BY <1>3 DEF loadViewData
  <2>2. ~(v \in Lists /\ force /\ ~Loading)
    BY <1>3 DEF Loads, Loading, Lists
  <2> QED BY <1>1, <2>1, <2>2 DEF LoadedOrLoading
<1> QED BY <1>2, <1>3

LEMMA SetViewKeeps ==
  ASSUME FormsInvariant, NEW v \in Lists \cup {"elsewhere"}, SetView(v)
  PROVE  FormsInvariant'
<1>1. /\ view' = v
      /\ form' = IF v = "settings" /\ "settings" \in loaded /\ form # Edited THEN config ELSE form
      /\ UNCHANGED <<careful, srvRules, srvConfig, others, missed, rules, config, refreshing, error,
                     notice, editing, saving, asking, dialog, closes, cleanup, sent, fails>>
  BY DEF SetView, server, confirms, renderSettings, renderConfigForm
<1>2. /\ clicks' = clicks + 1 /\ clicks' \in Nat /\ clicks' >= clicks
      /\ careful => /\ refreshing = "no" /\ saving = None /\ cleanup = "idle" /\ sent = {}
                    /\ ~Loading /\ ~dialog /\ asking = None /\ ~error
                    /\ "rules" \in loaded => rules = srvRules
                    /\ "settings" \in loaded => config = srvConfig
  BY Pressed, SeenIsStored DEF SetView
<1>3. /\ loaded' \subseteq loaded
      /\ load' \in [Lists -> {None, Sent} \cup [list : Seq(Rules)] \cup [version : Nat]]
      /\ \A l \in Lists : load'[l] \in {load[l], Sent}
      /\ LoadedOrLoading'
  BY LoadIs DEF SetView
<1>4. TypeOK'
  <2>1. form' = Edited \/ form' \in Nat
    BY <1>1, DialogParts, Fields
  <2>2. editing' = None \/ ( /\ editing'.index \in 1 .. Len(FirstRules) + clicks'
                             /\ editing'.rule \in Rules )
    BY <1>1, <1>2, EditingKept
  <2> QED BY <1>1, <1>2, <1>3, <2>1, <2>2, DialogParts, Fields, TypesFrom DEF Lists
<1>5. RequestsOK'
  BY <1>1, <1>3, DialogParts DEF RequestsOK, Lists
<1>6. RulesBound'
  BY <1>1, <1>2, <1>3, BoundKept DEF AddAsked, AddSent, Lists
<1>7. NothingAskedUnseen' /\ CleanupNotStuck' /\ CleanupAsksOnce'
  BY <1>1, DialogParts DEF NothingAskedUnseen, CleanupNotStuck, CleanupAsksOnce
<1>8. FormShows'
  BY <1>1, <1>3, DialogParts DEF FormShows
<1>9. ASSUME careful'
      PROVE  ~missed' /\ OneAtATime' /\ PlacesMeant' /\ RulesStale' /\ ConfigStale'
             /\ InTheirView' /\ AnswersFresh'
  <2>1. careful
    BY <1>1, <1>9
  <2>2. ~missed' /\ OneAtATime'
    BY <1>1, <1>2, <2>1, CarefulParts DEF OneAtATime
  <2>3. PlacesMeant'
    BY <1>1, <2>1, CarefulParts DEF PlacesMeant, Meant
  <2>4. RulesStale' /\ ConfigStale' /\ InTheirView'
    BY <1>1, <1>2, <1>3, <2>1 DEF RulesStale, ConfigStale, InTheirView
  <2>5. AnswersFresh'
    BY <1>1, <1>2, <1>3, <2>1 DEF AnswersFresh, Loading, Lists
  <2> QED BY <2>2, <2>3, <2>4, <2>5
<1>10. CarefulInvariant'
  BY <1>9, CarefulFrom
<1> QED
  BY <1>3, <1>4, <1>5, <1>6, <1>7, <1>8, <1>10, InvariantFrom

LEMMA RetrySettingsKeeps ==
  ASSUME FormsInvariant, RetrySettings
  PROVE  FormsInvariant'
<1>1. /\ ~dialog /\ "settings" \notin loaded
      /\ UNCHANGED <<careful, srvRules, srvConfig, others, missed, view, rules, config, refreshing,
                     error, notice, editing, form, saving, asking, dialog, closes, cleanup, sent,
                     fails>>
  BY DEF RetrySettings, server, settings, confirms
<1>2. /\ clicks' = clicks + 1 /\ clicks' \in Nat /\ clicks' >= clicks
      /\ careful => /\ refreshing = "no" /\ saving = None /\ cleanup = "idle" /\ sent = {}
                    /\ ~Loading /\ ~dialog /\ asking = None
  BY Pressed DEF RetrySettings
<1>3. /\ loaded' \subseteq loaded
      /\ load' \in [Lists -> {None, Sent} \cup [list : Seq(Rules)] \cup [version : Nat]]
      /\ \A l \in Lists : load'[l] \in {load[l], Sent}
      /\ LoadedOrLoading'
  BY LoadIs DEF RetrySettings, Lists
<1>4. TypeOK'
  <2>1. editing' = None \/ ( /\ editing'.index \in 1 .. Len(FirstRules) + clicks'
                             /\ editing'.rule \in Rules )
    BY <1>1, <1>2, EditingKept
  <2> QED BY <1>1, <1>2, <1>3, <2>1, DialogParts, Fields, TypesFrom DEF Lists
<1>5. RequestsOK'
  BY <1>1, <1>3, DialogParts DEF RequestsOK, Lists
<1>6. RulesBound'
  BY <1>1, <1>2, <1>3, BoundKept DEF AddAsked, AddSent, Lists
<1>7. NothingAskedUnseen' /\ CleanupNotStuck' /\ CleanupAsksOnce'
  BY <1>1, DialogParts DEF NothingAskedUnseen, CleanupNotStuck, CleanupAsksOnce
<1>8. FormShows'
  BY <1>1, <1>3, DialogParts DEF FormShows
<1>9. ASSUME careful'
      PROVE  ~missed' /\ OneAtATime' /\ PlacesMeant' /\ RulesStale' /\ ConfigStale'
             /\ InTheirView' /\ AnswersFresh'
  <2>1. careful
    BY <1>1, <1>9
  <2>2. ~missed' /\ OneAtATime'
    BY <1>1, <1>2, <2>1, CarefulParts DEF OneAtATime
  <2>3. PlacesMeant' /\ InTheirView'
    BY <1>1, <2>1, CarefulParts DEF PlacesMeant, Meant, InTheirView
  <2>4. RulesStale' /\ ConfigStale'
    BY <1>1, <1>3, <2>1, CarefulParts DEF RulesStale, ConfigStale
  <2>5. AnswersFresh'
    BY <1>1, <1>2, <1>3, <2>1 DEF AnswersFresh, Loading, Lists
  <2> QED BY <2>2, <2>3, <2>4, <2>5
<1>10. CarefulInvariant'
  BY <1>9, CarefulFrom
<1> QED
  BY <1>3, <1>4, <1>5, <1>6, <1>7, <1>8, <1>10, InvariantFrom

\* A list on its way is the only thing the careful user waits for.
LEMMA WhileLoading ==
  ASSUME FormsInvariant, careful, NEW v \in Lists, load[v] # None
  PROVE  /\ refreshing = "no" /\ saving = None /\ cleanup = "idle" /\ sent = {} /\ ~dialog
         /\ asking = None /\ ~notice /\ ~missed
<1>1. Loading
  BY DEF Loading
<1>2. saving = None /\ cleanup = "idle" /\ sent = {} /\ ~dialog /\ refreshing = "no"
      /\ ~notice /\ ~missed
  BY <1>1, CarefulParts DEF OneAtATime
<1> QED
  BY <1>2, DialogParts DEF NothingAskedUnseen

LEMMA LoadReadKeeps ==
  ASSUME FormsInvariant, NEW v \in Lists, LoadRead(v)
  PROVE  FormsInvariant'
<1> DEFINE a == IF v = "rules" THEN [list |-> srvRules] ELSE [version |-> srvConfig]
<1>1. /\ load[v] = Sent /\ load' = [load EXCEPT ![v] = a]
      /\ UNCHANGED <<careful, srvRules, srvConfig, others, missed, view, rules, config, loaded,
                     refreshing, error, notice, editing, form, saving, asking, dialog, closes,
                     cleanup, sent, clicks, fails>>
  BY DEF LoadRead, server, settings, confirms
<1>2. /\ v = "rules" => a \in [list : Seq(Rules)] /\ a.list = srvRules
      /\ v = "settings" => a \in [version : Nat] /\ a.version = srvConfig
  BY DialogParts, Fields
<1> HIDE DEF a
<1>3. load \in [Lists -> {None, Sent} \cup [list : Seq(Rules)] \cup [version : Nat]]
      /\ v \notin loaded
  BY <1>1, NoRequestAssumption, DialogParts DEF RequestsOK, LoadedOrLoading
<1>4. \A l \in Lists : load'[l] = IF l = v THEN a ELSE load[l]
  BY <1>1, <1>3
<1>5. TypeOK' /\ NothingAskedUnseen' /\ CleanupNotStuck' /\ CleanupAsksOnce' /\ FormShows'
  <2>1. TypeOK'
    BY <1>1, DialogParts, Fields, TypesFrom DEF Lists
  <2> QED
    BY <1>1, <2>1, DialogParts DEF NothingAskedUnseen, CleanupNotStuck, CleanupAsksOnce, FormShows
<1>6. RequestsOK'
  <2>1. a \in [list : Seq(Rules)] \cup [version : Nat]
    BY <1>2 DEF Lists
  <2>2. load' \in [Lists -> {None, Sent} \cup [list : Seq(Rules)] \cup [version : Nat]]
    BY <1>1, <1>3, <2>1
  <2> QED BY <1>1, <1>2, <1>4, <2>2, DialogParts DEF RequestsOK, Lists
<1>7. RulesBound'
  <2>1. Len(srvRules) <= Len(FirstRules) + clicks
    BY BoundIs
  <2>2. load'["rules"] = IF v = "rules" THEN a ELSE load["rules"]
    BY <1>4 DEF Lists
  <2>3. load'["rules"] \notin {None, Sent} => Len(load'["rules"].list) <= Len(FirstRules) + clicks
    BY <1>2, <2>1, <2>2, DialogParts DEF RulesBound
  <2> QED BY <1>1, <2>3, DialogParts DEF RulesBound, AddAsked, AddSent
<1>8. LoadedOrLoading'
  BY <1>1, <1>3, <1>4, DialogParts DEF LoadedOrLoading
<1>9. ASSUME careful'
      PROVE  ~missed' /\ OneAtATime' /\ PlacesMeant' /\ RulesStale' /\ ConfigStale'
             /\ InTheirView' /\ AnswersFresh'
  <2>1. careful
    BY <1>1, <1>9
  <2>2. /\ refreshing = "no" /\ saving = None /\ cleanup = "idle" /\ sent = {} /\ ~dialog
        /\ ~notice /\ ~missed
    BY <1>1, <2>1, NoRequestAssumption, WhileLoading
  <2>3. ~missed' /\ OneAtATime'
    BY <1>1, <2>2 DEF OneAtATime
  <2>4. PlacesMeant' /\ RulesStale' /\ ConfigStale' /\ InTheirView'
    BY <1>1, <2>1, CarefulParts DEF PlacesMeant, Meant, RulesStale, ConfigStale, InTheirView
  <2>5. AnswersFresh'
    <3>1. /\ load'["rules"] = IF v = "rules" THEN a ELSE load["rules"]
          /\ load'["settings"] = IF v = "settings" THEN a ELSE load["settings"]
      BY <1>4 DEF Lists
    <3> QED BY <1>1, <1>2, <2>1, <3>1, CarefulParts DEF AnswersFresh
  <2> QED BY <2>3, <2>4, <2>5
<1>10. CarefulInvariant'
  BY <1>9, CarefulFrom
<1> QED
  BY <1>5, <1>6, <1>7, <1>8, <1>10, InvariantFrom

LEMMA LoadAnswersKeeps ==
  ASSUME FormsInvariant, NEW v \in Lists, LoadAnswers(v)
  PROVE  FormsInvariant'
<1>1. /\ load[v] \notin {None, Sent} /\ load' = [load EXCEPT ![v] = None] /\ loaded' = loaded \cup {v}
      /\ rules' = IF v = "rules" THEN load[v].list ELSE rules
      /\ config' = IF v = "settings" THEN load[v].version ELSE config
      /\ form' = IF v = "settings" /\ view = v /\ form # Edited THEN config' ELSE form
      /\ UNCHANGED <<careful, srvRules, srvConfig, others, missed, view, refreshing, error, notice,
                     editing, saving, asking, dialog, closes, cleanup, sent, clicks, fails>>
  BY DEF LoadAnswers, server, confirms, renderSettings, renderConfigForm
<1>2. /\ v = "rules" => load[v].list \in Seq(Rules)
      /\ v = "settings" => load[v].version \in Nat
  BY <1>1, DialogParts DEF RequestsOK
<1>3. load \in [Lists -> {None, Sent} \cup [list : Seq(Rules)] \cup [version : Nat]]
  BY DialogParts DEF RequestsOK
<1>4. \A l \in Lists : load'[l] = IF l = v THEN None ELSE load[l]
  BY <1>1, <1>3
<1>5. rules' \in Seq(Rules) /\ config' \in Nat
  BY <1>1, <1>2, DialogParts, Fields
<1>6. TypeOK' /\ NothingAskedUnseen' /\ CleanupNotStuck' /\ CleanupAsksOnce'
  <2>1. form' = Edited \/ form' \in Nat
    BY <1>1, <1>5, DialogParts, Fields
  <2>2. TypeOK'
    BY <1>1, <1>5, <2>1, DialogParts, Fields, TypesFrom DEF Lists
  <2> QED
    BY <1>1, <2>2, DialogParts DEF NothingAskedUnseen, CleanupNotStuck, CleanupAsksOnce
<1>7. RequestsOK'
  <2>1. load' \in [Lists -> {None, Sent} \cup [list : Seq(Rules)] \cup [version : Nat]]
    BY <1>1, <1>3
  <2> QED BY <1>1, <1>4, <2>1, DialogParts DEF RequestsOK, Lists
<1>8. RulesBound'
  <2>1. load'["rules"] \in {load["rules"], None}
    BY <1>4 DEF Lists
  <2>2. Len(rules') <= Len(FirstRules) + clicks
    BY <1>1, DialogParts, BoundIs DEF RulesBound
  <2> QED BY <1>1, <2>1, <2>2, DialogParts DEF RulesBound, AddAsked, AddSent
<1>9. LoadedOrLoading' /\ FormShows'
  BY <1>1, <1>4, DialogParts DEF LoadedOrLoading, FormShows
<1>10. ASSUME careful'
       PROVE  ~missed' /\ OneAtATime' /\ PlacesMeant' /\ RulesStale' /\ ConfigStale'
              /\ InTheirView' /\ AnswersFresh'
  <2>1. careful
    BY <1>1, <1>10
  <2>2. /\ refreshing = "no" /\ saving = None /\ cleanup = "idle" /\ sent = {} /\ ~dialog
        /\ ~notice /\ ~missed
    BY <1>1, <2>1, WhileLoading
  <2>3. ~missed' /\ OneAtATime'
    BY <1>1, <2>2 DEF OneAtATime
  <2>4. PlacesMeant' /\ InTheirView'
    BY <1>1, <2>1, CarefulParts DEF PlacesMeant, Meant, InTheirView
  <2>5. /\ v = "rules" => load[v].list = srvRules
        /\ v = "settings" => load[v].version = srvConfig
    BY <1>1, <2>1, CarefulParts DEF AnswersFresh
  <2>6. RulesStale' /\ ConfigStale'
    BY <1>1, <2>1, <2>5, CarefulParts DEF RulesStale, ConfigStale, Lists
  <2>7. AnswersFresh'
    <3>1. /\ load'["rules"] \in {load["rules"], None}
          /\ load'["settings"] \in {load["settings"], None}
      BY <1>4 DEF Lists
    <3> QED BY <1>1, <2>1, <3>1, CarefulParts DEF AnswersFresh
  <2> QED BY <2>3, <2>4, <2>6, <2>7
<1>11. CarefulInvariant'
  BY <1>10, CarefulFrom
<1> QED
  BY <1>6, <1>7, <1>8, <1>9, <1>11, InvariantFrom

LEMMA LoadFailsKeeps ==
  ASSUME FormsInvariant, NEW v \in Lists, LoadFails(v)
  PROVE  FormsInvariant'
<1>1. /\ load[v] # None /\ load' = [load EXCEPT ![v] = None] /\ error' = TRUE /\ fails' = fails + 1
      /\ UNCHANGED <<careful, srvRules, srvConfig, others, missed, view, rules, config, loaded,
                     refreshing, notice, editing, form, saving, asking, dialog, closes, cleanup,
                     sent, clicks>>
  BY DEF LoadFails, Fail, server, settings, confirms
<1>2. load \in [Lists -> {None, Sent} \cup [list : Seq(Rules)] \cup [version : Nat]]
  BY DialogParts DEF RequestsOK
<1>3. \A l \in Lists : load'[l] = IF l = v THEN None ELSE load[l]
  BY <1>1, <1>2
<1>4. TypeOK' /\ NothingAskedUnseen' /\ CleanupNotStuck' /\ CleanupAsksOnce' /\ FormShows'
  <2>1. TypeOK'
    BY <1>1, DialogParts, Fields, TypesFrom DEF Lists
  <2> QED
    BY <1>1, <2>1, DialogParts DEF NothingAskedUnseen, CleanupNotStuck, CleanupAsksOnce, FormShows
<1>5. RequestsOK'
  <2>1. load' \in [Lists -> {None, Sent} \cup [list : Seq(Rules)] \cup [version : Nat]]
    BY <1>1, <1>2
  <2> QED BY <1>1, <1>3, <2>1, DialogParts DEF RequestsOK, Lists
<1>6. RulesBound'
  <2>1. load'["rules"] \in {load["rules"], None, Sent}
    BY <1>3 DEF Lists
  <2> QED BY <1>1, <2>1, DialogParts, Fields, BoundKept DEF AddAsked, AddSent
<1>7. LoadedOrLoading'
  BY <1>1, <1>3, DialogParts DEF LoadedOrLoading
<1>8. ASSUME careful'
      PROVE  ~missed' /\ OneAtATime' /\ PlacesMeant' /\ RulesStale' /\ ConfigStale'
             /\ InTheirView' /\ AnswersFresh'
  <2>1. careful
    BY <1>1, <1>8
  <2>2. /\ refreshing = "no" /\ saving = None /\ cleanup = "idle" /\ sent = {} /\ ~dialog
        /\ ~notice /\ ~missed
    BY <1>1, <2>1, WhileLoading
  <2>3. ~missed' /\ OneAtATime'
    BY <1>1, <2>2 DEF OneAtATime
  <2>4. PlacesMeant' /\ RulesStale' /\ ConfigStale' /\ InTheirView'
    BY <1>1, <2>1, CarefulParts DEF PlacesMeant, Meant, RulesStale, ConfigStale, InTheirView
  <2>5. AnswersFresh'
    <3>1. /\ load'["rules"] \in {load["rules"], None}
          /\ load'["settings"] \in {load["settings"], None}
      BY <1>3 DEF Lists
    <3> QED BY <1>1, <2>1, <3>1, CarefulParts DEF AnswersFresh
  <2> QED BY <2>3, <2>4, <2>5
<1>9. CarefulInvariant'
  BY <1>8, CarefulFrom
<1> QED
  BY <1>4, <1>5, <1>6, <1>7, <1>9, InvariantFrom

\* Nothing else is under way when the careful user's refresh ends.
LEMMA WhileRefreshing ==
  ASSUME FormsInvariant, careful, refreshing # "no"
  PROVE  /\ refreshing = "running" /\ ~Loading /\ saving = None /\ cleanup = "idle" /\ sent = {}
         /\ ~dialog /\ asking = None /\ ~notice
         /\ load["rules"] = None /\ load["settings"] = None
<1>1. /\ refreshing = "running" /\ ~Loading /\ saving = None /\ cleanup = "idle" /\ sent = {}
      /\ ~dialog /\ ~notice
  BY CarefulParts DEF OneAtATime
<1> QED
  BY <1>1, DialogParts DEF NothingAskedUnseen, Loading, Lists

LEMMA RefreshAnswersKeeps ==
  ASSUME FormsInvariant, RefreshAnswers
  PROVE  FormsInvariant'
<1>1. /\ refreshing # "no" /\ error' = FALSE
      /\ refreshing' = IF refreshing = "queued" THEN "running" ELSE "no"
      /\ form' = IF "settings" \in loaded /\ form # Edited THEN config ELSE form
      /\ UNCHANGED <<careful, srvRules, srvConfig, others, missed, view, rules, config, notice,
                     editing, saving, asking, dialog, closes, cleanup, sent, clicks, fails>>
  BY DEF RefreshAnswers, server, confirms, renderSettings, renderConfigForm
<1>2. view \in Lists \cup {"elsewhere"}
  BY DialogParts, Fields DEF Lists
<1>3. /\ loaded' \subseteq loaded
      /\ load' \in [Lists -> {None, Sent} \cup [list : Seq(Rules)] \cup [version : Nat]]
      /\ \A l \in Lists : load'[l] \in {load[l], Sent}
      /\ LoadedOrLoading'
      /\ view \in Lists /\ ~Loading => view \notin loaded'
  BY <1>2, LoadIs DEF RefreshAnswers
<1>4. TypeOK' /\ NothingAskedUnseen' /\ CleanupNotStuck' /\ CleanupAsksOnce' /\ FormShows'
  <2>1. form' = Edited \/ form' \in Nat
    BY <1>1, DialogParts, Fields
  <2>2. TypeOK'
    BY <1>1, <1>3, <2>1, DialogParts, Fields, TypesFrom DEF Lists
  <2> QED
    BY <1>1, <1>3, <2>2, DialogParts DEF NothingAskedUnseen, CleanupNotStuck, CleanupAsksOnce, FormShows
<1>5. RequestsOK'
  BY <1>1, <1>3, DialogParts DEF RequestsOK, Lists
<1>6. RulesBound'
  BY <1>1, <1>3, DialogParts, Fields, BoundKept DEF AddAsked, AddSent, Lists
<1>7. ASSUME careful'
      PROVE  ~missed' /\ OneAtATime' /\ PlacesMeant' /\ RulesStale' /\ ConfigStale'
             /\ InTheirView' /\ AnswersFresh'
  <2>1. careful
    BY <1>1, <1>7
  <2>2. /\ refreshing = "running" /\ ~Loading /\ saving = None /\ cleanup = "idle" /\ sent = {}
        /\ ~dialog /\ asking = None /\ ~notice
        /\ load["rules"] = None /\ load["settings"] = None
    BY <1>1, <2>1, WhileRefreshing
  <2>3. ~missed' /\ OneAtATime'
    BY <1>1, <2>1, <2>2, CarefulParts DEF OneAtATime
  <2>4. PlacesMeant' /\ InTheirView'
    BY <1>1, <2>1, CarefulParts DEF PlacesMeant, Meant, InTheirView
  <2>5. RulesStale' /\ ConfigStale'
    BY <1>1, <1>3, <2>1, <2>2, CarefulParts DEF RulesStale, ConfigStale, Lists
  <2>6. AnswersFresh'
    BY <1>1, <1>3, <2>2 DEF AnswersFresh, Lists
  <2> QED BY <2>3, <2>4, <2>5, <2>6
<1>8. CarefulInvariant'
  BY <1>7, CarefulFrom
<1> QED
  BY <1>3, <1>4, <1>5, <1>6, <1>8, InvariantFrom

LEMMA RefreshIs ==
  ASSUME FormsInvariant, refresh
  PROVE  /\ refreshing' \in {"running", "queued"} /\ error' \in BOOLEAN
         /\ refreshing = "no" => refreshing' = "running"
BY DialogParts, Fields DEF refresh

\* A refresh that begins or ends and touches nothing the view shows.
LEMMA RefreshingKeeps ==
  ASSUME FormsInvariant,
         refreshing' \in {"no", "running", "queued"}, error' \in BOOLEAN, notice' \in BOOLEAN,
         clicks' \in Nat, clicks' >= clicks, fails' \in Nat,
         UNCHANGED <<careful, srvRules, srvConfig, others, missed, view, rules, config, loaded, load,
                     editing, form, saving, asking, dialog, closes, cleanup, sent>>,
         careful => /\ ~Loading /\ saving = None /\ cleanup = "idle" /\ sent = {} /\ ~dialog
                    /\ refreshing' \in {"no", "running"} /\ ~notice'
                    /\ refreshing' # "no" \/ error'
  PROVE  FormsInvariant'
<1>1. TypeOK' /\ NothingAskedUnseen' /\ CleanupNotStuck' /\ CleanupAsksOnce' /\ FormShows'
  <2>1. editing' = None \/ ( /\ editing'.index \in 1 .. Len(FirstRules) + clicks'
                             /\ editing'.rule \in Rules )
    BY EditingKept
  <2>2. TypeOK'
    BY <2>1, DialogParts, Fields, TypesFrom DEF Lists
  <2> QED
    BY <2>2, DialogParts DEF NothingAskedUnseen, CleanupNotStuck, CleanupAsksOnce, FormShows
<1>2. RequestsOK' /\ LoadedOrLoading'
  BY DialogParts DEF RequestsOK, LoadedOrLoading
<1>3. RulesBound'
  BY BoundKept DEF AddAsked, AddSent
<1>4. ASSUME careful'
      PROVE  ~missed' /\ OneAtATime' /\ PlacesMeant' /\ RulesStale' /\ ConfigStale'
             /\ InTheirView' /\ AnswersFresh'
  <2>1. careful
    BY <1>4
  <2>2. ~missed' /\ OneAtATime'
    BY <2>1, CarefulParts DEF OneAtATime, Loading
  <2>3. PlacesMeant' /\ InTheirView' /\ AnswersFresh'
    BY <2>1, CarefulParts DEF PlacesMeant, Meant, InTheirView, AnswersFresh
  <2>4. RulesStale' /\ ConfigStale'
    BY <2>1, CarefulParts DEF RulesStale, ConfigStale
  <2> QED BY <2>2, <2>3, <2>4
<1>5. CarefulInvariant'
  BY <1>4, CarefulFrom
<1> QED
  BY <1>1, <1>2, <1>3, <1>5, InvariantFrom

LEMMA RefreshKeeps ==
  ASSUME FormsInvariant, RefreshFails \/ PressRefresh \/ Notice
  PROVE  FormsInvariant'
<1>1. CASE RefreshFails
  <2>1. /\ refreshing # "no" /\ fails' = fails + 1
        /\ refreshing' = IF refreshing = "queued" THEN "running" ELSE "no"
        /\ UNCHANGED <<careful, srvRules, srvConfig, others, missed, view, rules, config, loaded, load,
                       notice, editing, form, saving, asking, dialog, closes, cleanup, sent, clicks>>
    BY <1>1 DEF RefreshFails, Fail, server, lists, settings, confirms
  <2>2. error' = (refreshing # "queued")
    BY <1>1 DEF RefreshFails
  <2>3. error' \in BOOLEAN
    BY <2>2
  <2>4. careful => /\ refreshing = "running" /\ ~Loading /\ saving = None /\ cleanup = "idle"
                   /\ sent = {} /\ ~dialog /\ ~notice
    BY <2>1, WhileRefreshing
  <2>5. careful => error'
    BY <2>2, <2>4
  <2>6. /\ refreshing' \in {"no", "running", "queued"} /\ fails' \in Nat /\ notice' \in BOOLEAN
        /\ clicks' \in Nat /\ clicks' >= clicks
    BY <2>1, DialogParts, Fields
  <2>7. careful => refreshing' = "no" /\ ~notice'
    BY <2>1, <2>4
  <2> QED
    BY <2>1, <2>3, <2>4, <2>5, <2>6, <2>7, RefreshingKeeps
<1>2. CASE PressRefresh
  <2>1. /\ Press /\ refresh
        /\ UNCHANGED <<careful, srvRules, srvConfig, others, missed, view, rules, config, loaded, load,
                       notice, editing, form, saving, asking, dialog, closes, cleanup, sent, fails>>
    BY <1>2 DEF PressRefresh, server, lists, settings, confirms
  <2>2. /\ refreshing' \in {"running", "queued"} /\ error' \in BOOLEAN
        /\ refreshing = "no" => refreshing' = "running"
    BY <2>1, RefreshIs
  <2>3. /\ clicks' \in Nat /\ clicks' >= clicks
        /\ careful => refreshing = "no" /\ ~Loading /\ saving = None /\ cleanup = "idle" /\ sent = {} /\ ~dialog
    BY <2>1, Pressed
  <2>4. careful => ~notice'
    BY <2>1, CarefulParts DEF OneAtATime
  <2> QED
    BY <2>1, <2>2, <2>3, <2>4, DialogParts, Fields, RefreshingKeeps
<1>3. CASE Notice
  <2>1. /\ notice /\ notice' = FALSE /\ refresh
        /\ UNCHANGED <<careful, srvRules, srvConfig, others, missed, view, rules, config, loaded, load,
                       editing, form, saving, asking, dialog, closes, cleanup, sent, clicks, fails>>
    BY <1>3 DEF Notice, server, lists, settings, confirms
  <2>2. refreshing' \in {"running", "queued"} /\ error' \in BOOLEAN
    BY <2>1, RefreshIs
  <2>3. ~careful
    BY <2>1, CarefulParts DEF OneAtATime
  <2>4. notice' \in BOOLEAN
    BY <2>1
  <2>5. /\ refreshing' \in {"no", "running", "queued"} /\ error' \in BOOLEAN
    BY <2>2
  <2>6. clicks' \in Nat /\ clicks' >= clicks /\ fails' \in Nat
    BY <2>1, DialogParts, Fields
  <2>7. UNCHANGED <<careful, srvRules, srvConfig, others, missed, view, rules, config, loaded, load,
                    editing, form, saving, asking, dialog, closes, cleanup, sent>>
    BY <2>1
  <2> QED
    BY <2>3, <2>4, <2>5, <2>6, <2>7, RefreshingKeeps
<1> QED BY <1>1, <1>2, <1>3

-----------------------------------------------------------------------------
(* Clicks in the rules view and the settings view.                         *)

LEMMA ToggleRuleKeeps ==
  ASSUME FormsInvariant, ToggleRule
  PROVE  FormsInvariant'
<1>1. PICK i \in DOMAIN rules : sent' = sent \cup {Change("toggle", Place(i))}
  BY DEF ToggleRule
<1>2. /\ view = "rules" /\ "rules" \in loaded /\ (careful => editing = None)
      /\ UNCHANGED <<careful, srvRules, srvConfig, others, missed, view, rules, config, loaded, load,
                     refreshing, error, notice, editing, form, saving, asking, dialog, closes,
                     cleanup, fails>>
  BY DEF ToggleRule, Listed, server, lists, settings, confirms
<1>3. /\ ~dialog /\ closes = 0 /\ asking = None /\ cleanup # "asking"
      /\ clicks' = clicks + 1 /\ clicks' \in Nat /\ clicks' >= clicks
      /\ careful => /\ refreshing = "no" /\ saving = None /\ cleanup = "idle" /\ sent = {}
                    /\ ~Loading /\ ~error
                    /\ "rules" \in loaded => rules = srvRules
                    /\ "settings" \in loaded => config = srvConfig
  BY Clicked DEF ToggleRule
<1> DEFINE c == Change("toggle", Place(i))
<1>4. c \in Changes /\ c.kind = "toggle" /\ c.index = i /\ c.rule = rules[i]
  <2>1. Place(i).index = i /\ i \in 1 .. Len(rules) /\ Place(i).rule = rules[i]
        /\ Place(i).rule \in Rules
    BY DialogParts, Fields, PlaceIs
  <2>2. Place(i).index \in Nat /\ Place(i).rule \in Rules \cup {None}
    BY <2>1, DialogParts, Fields, Lengths
  <2> QED BY <2>1, <2>2, ChangeIs
<1>5. sent' = sent \cup {c}
  BY <1>1
<1> HIDE DEF c
<1>6. TypeOK' /\ NothingAskedUnseen' /\ CleanupNotStuck' /\ CleanupAsksOnce' /\ FormShows'
  <2>1. editing' = None \/ ( /\ editing'.index \in 1 .. Len(FirstRules) + clicks'
                             /\ editing'.rule \in Rules )
    BY <1>2, <1>3, EditingKept
  <2>2. TypeOK'
    BY <1>2, <1>3, <2>1, DialogParts, Fields, TypesFrom DEF Lists
  <2> QED
    BY <1>2, <2>2, DialogParts DEF NothingAskedUnseen, CleanupNotStuck, CleanupAsksOnce, FormShows
<1>7. RequestsOK' /\ LoadedOrLoading'
  BY <1>2, <1>4, <1>5, DialogParts DEF RequestsOK, LoadedOrLoading
<1>8. RulesBound'
  BY <1>2, <1>3, <1>4, <1>5, BoundKept DEF AddAsked, AddSent
<1>9. ASSUME careful'
      PROVE  ~missed' /\ OneAtATime' /\ PlacesMeant' /\ RulesStale' /\ ConfigStale'
             /\ InTheirView' /\ AnswersFresh'
  <2>1. careful
    BY <1>2, <1>9
  <2>2. sent' = {c} /\ rules = srvRules
    BY <1>2, <1>3, <1>5, <2>1
  <2>3. ~missed' /\ OneAtATime'
    BY <1>2, <1>3, <2>1, <2>2, CarefulParts DEF OneAtATime, Loading
  <2>4. PlacesMeant'
    BY <1>2, <1>3, <1>4, <2>1, <2>2, CarefulParts DEF PlacesMeant, Meant
  <2>5. RulesStale' /\ ConfigStale' /\ InTheirView'
    BY <1>2, <1>3, <1>4, <2>1, <2>2 DEF RulesStale, ConfigStale, InTheirView
  <2>6. AnswersFresh'
    BY <1>2, <2>1, CarefulParts DEF AnswersFresh
  <2> QED BY <2>3, <2>4, <2>5, <2>6
<1>10. CarefulInvariant'
  BY <1>9, CarefulFrom
<1> QED
  BY <1>6, <1>7, <1>8, <1>10, InvariantFrom

\* The question of a click, which may be whether to add a rule.
LEMMA AskingKeeps ==
  ASSUME FormsInvariant, Click, NEW op \in Changes,
         op.kind \in {"delete", "add", "save", "config", "clear"}, confirmAction(op, cleanup),
         op.kind = "add" => op.index = 0 /\ op.rule = None,
         UNCHANGED <<careful, srvRules, srvConfig, others, missed, view, rules, config, loaded, load,
                     refreshing, error, notice, editing, form, saving, sent, fails>>,
         careful => /\ op.index = 0 \/ (rules[op.index] = op.rule /\ "rules" \in loaded)
                    /\ op.kind \in {"delete", "add"} => editing = None
                    /\ op.kind \in {"delete", "add", "save"} => view = "rules"
                    /\ op.kind = "config" => view = "settings"
  PROVE  FormsInvariant'
<1>1. /\ ~dialog /\ closes = 0 /\ asking = None /\ cleanup # "asking"
      /\ clicks' = clicks + 1 /\ clicks' \in Nat /\ clicks' >= clicks
      /\ careful => /\ refreshing = "no" /\ saving = None /\ cleanup = "idle" /\ sent = {}
                    /\ ~Loading /\ ~error
                    /\ "rules" \in loaded => rules = srvRules
                    /\ "settings" \in loaded => config = srvConfig
  BY Clicked
<1>2. asking' = op /\ dialog' = TRUE /\ closes' = 0 /\ cleanup' = cleanup /\ op # None
  BY <1>1, ChangeFields DEF confirmAction, Declined
<1>3. TypeOK' /\ NothingAskedUnseen' /\ CleanupNotStuck' /\ CleanupAsksOnce' /\ FormShows'
  <2>1. editing' = None \/ ( /\ editing'.index \in 1 .. Len(FirstRules) + clicks'
                             /\ editing'.rule \in Rules )
    BY <1>1, EditingKept
  <2>2. TypeOK'
    BY <1>1, <1>2, <2>1, DialogParts, Fields, TypesFrom DEF Lists
  <2> QED
    BY <1>1, <1>2, <2>2, DialogParts DEF NothingAskedUnseen, CleanupNotStuck, CleanupAsksOnce, FormShows
<1>4. RequestsOK' /\ LoadedOrLoading'
  BY <1>2, DialogParts DEF RequestsOK, LoadedOrLoading
<1>5. RulesBound'
  <2> DEFINE a == IF AddAsked' THEN 1 ELSE 0
             s == IF AddSent THEN 1 ELSE 0
  <2>1. ~AddAsked /\ (AddSent' <=> AddSent)
    BY <1>1 DEF AddAsked, AddSent
  <2>2. Len(srvRules) + 0 + s <= Len(FirstRules) + clicks
    BY <2>1, DialogParts DEF RulesBound
  <2>3. a \in 0 .. 1 /\ s \in Nat
    OBVIOUS
  <2>4. Len(srvRules) + a + s <= Len(FirstRules) + clicks'
    <3> HIDE DEF a, s
    <3> QED BY <1>1, <2>2, <2>3, DialogParts, Fields, Lengths
  <2>5. Len(srvRules) + (IF AddAsked' THEN 1 ELSE 0) + (IF AddSent' THEN 1 ELSE 0)
          <= Len(FirstRules) + clicks'
    BY <2>1, <2>4
  <2>6. Len(rules) <= Len(FirstRules) + clicks'
    BY <1>1, BoundIs, DialogParts, Fields, Lengths
  <2>7. load["rules"] \notin {None, Sent} => Len(load["rules"].list) <= Len(FirstRules) + clicks'
    <3>1. SUFFICES ASSUME load["rules"] \notin {None, Sent}
                   PROVE  Len(load["rules"].list) <= Len(FirstRules) + clicks'
      OBVIOUS
    <3>2. load["rules"].list \in Seq(Rules)
      BY <3>1, DialogParts DEF RequestsOK
    <3>3. Len(load["rules"].list) \in Nat
      BY <3>2, LenProperties
    <3>4. Len(load["rules"].list) <= Len(FirstRules) + clicks
      BY <3>1, DialogParts DEF RulesBound
    <3>5. clicks \in Nat /\ Len(FirstRules) \in Nat
      BY DialogParts, Fields, Lengths
    <3> QED BY <1>1, <3>3, <3>4, <3>5
  <2> QED BY <2>5, <2>6, <2>7 DEF RulesBound
<1>6. ASSUME careful'
      PROVE  ~missed' /\ OneAtATime' /\ PlacesMeant' /\ RulesStale' /\ ConfigStale'
             /\ InTheirView' /\ AnswersFresh'
  <2>1. careful
    BY <1>6
  <2>2. ~missed' /\ OneAtATime'
    BY <1>1, <1>2, <2>1, CarefulParts DEF OneAtATime, Loading
  <2>3. Meant(op)
    <3>1. DOMAIN srvRules = 1 .. Len(srvRules)
      BY DialogParts, Fields, LenProperties
    <3> QED BY <1>1, <2>1, <3>1 DEF Meant
  <2>4. PlacesMeant'
    BY <1>1, <1>2, <2>1, <2>3, CarefulParts DEF PlacesMeant, Meant
  <2>5. RulesStale' /\ ConfigStale' /\ InTheirView'
    <3>1. op.kind # "toggle"
      OBVIOUS
    <3> QED BY <1>1, <1>2, <2>1, <3>1 DEF RulesStale, ConfigStale, InTheirView
  <2>6. AnswersFresh'
    BY <2>1, CarefulParts DEF AnswersFresh
  <2> QED BY <2>2, <2>4, <2>5, <2>6
<1>7. CarefulInvariant'
  BY <1>6, CarefulFrom
<1> QED
  BY <1>3, <1>4, <1>5, <1>7, InvariantFrom

LEMMA NoPlaceChange ==
  ASSUME NEW kind \in {"add", "save", "config", "clear", "cleanup"}
  PROVE  /\ Change(kind, NoPlace) \in Changes /\ Change(kind, NoPlace).kind = kind
         /\ Change(kind, NoPlace).index = 0 /\ Change(kind, NoPlace).rule = None
BY NoPlaceIs, ChangeIs

\* A form at fault shows an error and asks nothing.
LEMMA FormRefusedKeeps ==
  ASSUME FormsInvariant, Click, FormRefused,
         UNCHANGED <<careful, srvRules, srvConfig, others, missed, view, rules, config, loaded, load,
                     refreshing, notice, editing, form, saving, sent, fails>>
  PROVE  FormsInvariant'
<1>1. error' = TRUE /\ UNCHANGED <<asking, dialog, closes, cleanup>>
  BY DEF FormRefused, confirms
<1>2. careful => ~notice
  BY CarefulParts DEF OneAtATime
<1> QED
  BY <1>1, <1>2, Clicked, DialogParts, Fields, RefreshingKeeps

LEMMA AskKeeps ==
  ASSUME FormsInvariant,
         DeleteRule \/ addBasicRule \/ saveBasicRule \/ saveStrataConfigFromForm \/ ClearCache
  PROVE  FormsInvariant'
<1>1. CASE DeleteRule
  <2>1. PICK i \in DOMAIN rules : confirmAction(Change("delete", Place(i)), cleanup)
    BY <1>1 DEF DeleteRule
  <2>2. /\ Click /\ view = "rules" /\ "rules" \in loaded /\ (careful => editing = None)
        /\ UNCHANGED <<careful, srvRules, srvConfig, others, missed, view, rules, config, loaded, load,
                       refreshing, error, notice, editing, form, saving, sent, fails>>
    BY <1>1 DEF DeleteRule, Listed, server, lists, settings
  <2> DEFINE op == Change("delete", Place(i))
  <2>3. op \in Changes /\ op.kind = "delete" /\ op.index = i /\ op.rule = rules[i]
    <3>1. Place(i).index = i /\ i \in 1 .. Len(rules) /\ Place(i).rule = rules[i]
          /\ Place(i).rule \in Rules
      BY DialogParts, Fields, PlaceIs
    <3>2. Place(i).index \in Nat /\ Place(i).rule \in Rules \cup {None}
      BY <3>1, DialogParts, Fields, Lengths
    <3> QED BY <3>1, <3>2, ChangeIs
  <2>4. confirmAction(op, cleanup)
    BY <2>1
  <2> HIDE DEF op
  <2> QED BY <2>2, <2>3, <2>4, AskingKeeps
<1>2. CASE addBasicRule
  <2> DEFINE op == Change("add", NoPlace)
  <2>1. op \in Changes /\ op.kind = "add" /\ op.index = 0 /\ op.rule = None
    BY NoPlaceChange
  <2>2. /\ Click /\ view = "rules" /\ (careful => editing = None)
        /\ (confirmAction(op, cleanup) /\ error' = error) \/ FormRefused
        /\ UNCHANGED <<careful, srvRules, srvConfig, others, missed, view, rules, config, loaded, load,
                       refreshing, notice, editing, form, saving, sent, fails>>
    BY <1>2 DEF addBasicRule, server, lists, settings
  <2> HIDE DEF op
  <2> QED BY <2>1, <2>2, AskingKeeps, FormRefusedKeeps
<1>3. CASE saveBasicRule
  <2> DEFINE op == Change("save", NoPlace)
  <2>1. op \in Changes /\ op.kind = "save" /\ op.index = 0
    BY NoPlaceChange
  <2>2. /\ Click /\ view = "rules"
        /\ (confirmAction(op, cleanup) /\ error' = error) \/ FormRefused
        /\ UNCHANGED <<careful, srvRules, srvConfig, others, missed, view, rules, config, loaded, load,
                       refreshing, notice, editing, form, saving, sent, fails>>
    BY <1>3 DEF saveBasicRule, server, lists, settings
  <2> HIDE DEF op
  <2> QED BY <2>1, <2>2, AskingKeeps, FormRefusedKeeps
<1>4. CASE saveStrataConfigFromForm
  <2> DEFINE op == Change("config", NoPlace)
  <2>1. op \in Changes /\ op.kind = "config" /\ op.index = 0
    BY NoPlaceChange
  <2>2. /\ Click /\ view = "settings" /\ confirmAction(op, cleanup)
        /\ UNCHANGED <<careful, srvRules, srvConfig, others, missed, view, rules, config, loaded, load,
                       refreshing, error, notice, editing, form, saving, sent, fails>>
    BY <1>4 DEF saveStrataConfigFromForm, server, lists, settings
  <2> HIDE DEF op
  <2> QED BY <2>1, <2>2, AskingKeeps
<1>5. CASE ClearCache
  <2> DEFINE op == Change("clear", NoPlace)
  <2>1. op \in Changes /\ op.kind = "clear" /\ op.index = 0
    BY NoPlaceChange
  <2>2. /\ Click /\ confirmAction(op, cleanup)
        /\ UNCHANGED <<careful, srvRules, srvConfig, others, missed, view, rules, config, loaded, load,
                       refreshing, error, notice, editing, form, saving, sent, fails>>
    BY <1>5 DEF ClearCache, server, lists, settings
  <2> HIDE DEF op
  <2> QED BY <2>1, <2>2, AskingKeeps
<1> QED BY <1>1, <1>2, <1>3, <1>4, <1>5

\* The rule form and the settings form are filled, edited or left.
LEMMA FormsKeep ==
  ASSUME FormsInvariant, fillRuleFormFromRule \/ LeaveRule \/ EditSettings
  PROVE  FormsInvariant'
<1>1. /\ Click
      /\ UNCHANGED <<careful, srvRules, srvConfig, others, missed, view, rules, config, loaded, load,
                     refreshing, error, notice, saving, asking, dialog, closes, cleanup, sent, fails>>
  BY DEF fillRuleFormFromRule, LeaveRule, EditSettings, server, lists, settings, confirms
<1>2. form' \in {form, Edited}
  BY DEF fillRuleFormFromRule, LeaveRule, EditSettings, settings
<1>3. /\ ~dialog /\ closes = 0 /\ asking = None /\ cleanup # "asking"
      /\ clicks' = clicks + 1 /\ clicks' \in Nat /\ clicks' >= clicks
      /\ careful => /\ refreshing = "no" /\ saving = None /\ cleanup = "idle" /\ sent = {}
                    /\ ~Loading /\ ~error
                    /\ "rules" \in loaded => rules = srvRules
                    /\ "settings" \in loaded => config = srvConfig
  BY <1>1, Clicked
<1>4. \/ editing' \in {editing, None}
      \/ /\ "rules" \in loaded /\ editing'.index \in 1 .. Len(rules)
         /\ editing'.rule \in Rules /\ editing'.rule = rules[editing'.index]
  <2>1. CASE fillRuleFormFromRule
    <3>1. PICK i \in DOMAIN rules : editing' = Place(i) /\ "rules" \in loaded
      BY <2>1 DEF fillRuleFormFromRule
    <3> QED BY <3>1, DialogParts, Fields, PlaceIs
  <2> QED BY <2>1 DEF LeaveRule, EditSettings
<1>5. editing' = None \/ ( /\ editing'.index \in 1 .. Len(FirstRules) + clicks'
                           /\ editing'.rule \in Rules )
  <2>1. CASE editing' \in {editing, None}
    BY <1>3, <2>1, EditingKept
  <2>2. CASE editing'.index \in 1 .. Len(rules) /\ editing'.rule \in Rules
    BY <1>3, <2>2, BoundIs, DialogParts, Fields, Lengths
  <2> QED BY <1>4, <2>1, <2>2
<1>6. TypeOK' /\ NothingAskedUnseen' /\ CleanupNotStuck' /\ CleanupAsksOnce' /\ FormShows'
  <2>1. form' = Edited \/ form' \in Nat
    BY <1>2, DialogParts, Fields
  <2>2. TypeOK'
    BY <1>1, <1>3, <1>5, <2>1, DialogParts, Fields, TypesFrom DEF Lists
  <2> QED
    BY <1>1, <1>2, <2>2, DialogParts DEF NothingAskedUnseen, CleanupNotStuck, CleanupAsksOnce, FormShows
<1>7. RequestsOK' /\ LoadedOrLoading'
  BY <1>1, DialogParts DEF RequestsOK, LoadedOrLoading
<1>8. RulesBound'
  BY <1>1, <1>3, BoundKept DEF AddAsked, AddSent
<1>9. ASSUME careful'
      PROVE  ~missed' /\ OneAtATime' /\ PlacesMeant' /\ RulesStale' /\ ConfigStale'
             /\ InTheirView' /\ AnswersFresh'
  <2>1. careful
    BY <1>1, <1>9
  <2>2. ~missed' /\ OneAtATime'
    BY <1>1, <2>1, CarefulParts DEF OneAtATime, Loading
  <2>3. editing' # None => Meant(editing')
    BY <1>3, <1>4, <2>1, CarefulParts DEF PlacesMeant, Meant
  <2>4. PlacesMeant'
    <3>1. sent' = {} /\ asking' = None
      BY <1>1, <1>3, <2>1
    <3> QED BY <1>1, <2>3, <3>1 DEF PlacesMeant, Meant
  <2>5. RulesStale' /\ ConfigStale' /\ InTheirView' /\ AnswersFresh'
    BY <1>1, <2>1, CarefulParts DEF RulesStale, ConfigStale, InTheirView, AnswersFresh
  <2> QED BY <2>2, <2>4, <2>5
<1>10. CarefulInvariant'
  BY <1>9, CarefulFrom
<1> QED
  BY <1>6, <1>7, <1>8, <1>10, InvariantFrom

-----------------------------------------------------------------------------
(* The cleanup and the dialog.                                             *)

\* The cleanup begins or ends, with or without an error or a refresh.
LEMMA CleanupKeeps ==
  ASSUME FormsInvariant, cleanupRecorded \/ CleanupApplied \/ CleanupFails
  PROVE  FormsInvariant'
<1>1. UNCHANGED <<careful, srvRules, srvConfig, others, missed, view, rules, config, loaded, load,
                  notice, editing, form, saving, asking, dialog, closes, sent>>
  BY DEF cleanupRecorded, CleanupApplied, CleanupFails, server, lists, settings
<1>2. /\ clicks' \in Nat /\ clicks' >= clicks /\ fails' \in Nat
      /\ refreshing' \in {"no", "running", "queued"}
      /\ cleanup' \in {"idle", "checking"} /\ (cleanup' = "checking" => closes = 0)
      /\ cleanup # "asking" /\ error' \in BOOLEAN
      /\ careful => ~dialog /\ ~Loading /\ saving = None /\ sent = {} /\ asking = None
  <2>1. CASE cleanupRecorded
    <3>1. /\ Click /\ cleanup = "idle" /\ cleanup' = "checking"
          /\ UNCHANGED <<refreshing, error, fails>>
      BY <2>1 DEF cleanupRecorded
    <3> QED BY <3>1, Clicked, DialogParts, Fields
  <2>2. CASE CleanupApplied
    <3>1. cleanup = "applying" /\ cleanup' = "idle" /\ refresh /\ UNCHANGED <<clicks, fails>>
      BY <2>2 DEF CleanupApplied
    <3>2. careful => ~dialog /\ ~Loading /\ saving = None /\ sent = {} /\ asking = None
      BY <3>1, CarefulParts, DialogParts DEF OneAtATime, NothingAskedUnseen
    <3>3. refreshing' \in {"running", "queued"} /\ error' \in BOOLEAN
      BY <3>1, RefreshIs
    <3> QED BY <3>1, <3>2, <3>3, DialogParts, Fields
  <2>3. CASE CleanupFails
    <3>1. /\ cleanup \in {"checking", "applying"} /\ cleanup' = "idle" /\ error' = TRUE
          /\ fails' = fails + 1 /\ UNCHANGED <<clicks, refreshing>>
      BY <2>3 DEF CleanupFails, Fail
    <3>2. careful => ~dialog /\ ~Loading /\ saving = None /\ sent = {} /\ asking = None
      BY <3>1, CarefulParts, DialogParts DEF OneAtATime, NothingAskedUnseen
    <3> QED BY <3>1, <3>2, DialogParts, Fields
  <2> QED BY <2>1, <2>2, <2>3
<1>3. careful => /\ refreshing' \in {"no", "running"}
                 /\ cleanup' # "idle" => refreshing' = "no"
                 /\ error' \/ refreshing' # "no" \/ UNCHANGED <<error, refreshing>>
  <2>1. careful => refreshing \in {"no", "running"} /\ (cleanup # "idle" => refreshing = "no")
    BY CarefulParts, DialogParts, Fields DEF OneAtATime
  <2>2. CASE cleanupRecorded
    <3>1. Click /\ UNCHANGED <<refreshing, error>>
      BY <2>2 DEF cleanupRecorded
    <3> QED BY <3>1, Clicked
  <2>3. CASE CleanupApplied
    BY <2>1, <2>3, RefreshIs DEF CleanupApplied
  <2>4. CASE CleanupFails
    BY <2>1, <2>4 DEF CleanupFails
  <2> QED BY <2>2, <2>3, <2>4
<1>4. TypeOK' /\ NothingAskedUnseen' /\ CleanupNotStuck' /\ CleanupAsksOnce' /\ FormShows'
  <2>1. editing' = None \/ ( /\ editing'.index \in 1 .. Len(FirstRules) + clicks'
                             /\ editing'.rule \in Rules )
    BY <1>1, <1>2, EditingKept
  <2>2. TypeOK'
    BY <1>1, <1>2, <2>1, DialogParts, Fields, TypesFrom DEF Lists
  <2> QED
    BY <1>1, <1>2, <2>2, DialogParts DEF NothingAskedUnseen, CleanupNotStuck, CleanupAsksOnce, FormShows
<1>5. RequestsOK' /\ LoadedOrLoading'
  BY <1>1, DialogParts DEF RequestsOK, LoadedOrLoading
<1>6. RulesBound'
  BY <1>1, <1>2, BoundKept DEF AddAsked, AddSent
<1>7. ASSUME careful'
      PROVE  ~missed' /\ OneAtATime' /\ PlacesMeant' /\ RulesStale' /\ ConfigStale'
             /\ InTheirView' /\ AnswersFresh'
  <2>1. careful
    BY <1>1, <1>7
  <2>2. ~missed' /\ OneAtATime'
    BY <1>1, <1>2, <1>3, <2>1, CarefulParts DEF OneAtATime, Loading
  <2>3. PlacesMeant' /\ InTheirView' /\ AnswersFresh'
    BY <1>1, <2>1, CarefulParts DEF PlacesMeant, Meant, InTheirView, AnswersFresh
  <2>4. RulesStale' /\ ConfigStale'
    BY <1>1, <1>3, <2>1, CarefulParts DEF RulesStale, ConfigStale
  <2> QED BY <2>2, <2>3, <2>4
<1>8. CarefulInvariant'
  BY <1>7, CarefulFrom
<1> QED
  BY <1>4, <1>5, <1>6, <1>8, InvariantFrom

\* The cleanup asks at most once more than the dialog already does.
LEMMA CleanupCheckedKeeps ==
  ASSUME FormsInvariant, CleanupChecked
  PROVE  FormsInvariant'
<1> DEFINE op == Change("cleanup", NoPlace)
<1>1. /\ cleanup = "checking"
      /\ \/ cleanup' = "idle" /\ UNCHANGED <<asking, dialog, closes>>
         \/ confirmAction(op, "asking")
      /\ UNCHANGED <<careful, srvRules, srvConfig, others, missed, view, rules, config, loaded, load,
                     refreshing, error, notice, editing, form, saving, sent, clicks, fails>>
  BY DEF CleanupChecked, server, lists, settings
<1>2. op \in Changes /\ op.kind = "cleanup" /\ op.index = 0 /\ op # None
  BY NoPlaceChange, ChangeFields
<1> HIDE DEF op
<1>3. closes \in 0 .. 1
  BY <1>1, DialogParts, Fields DEF CleanupAsksOnce
<1>4. \/ cleanup' = "idle" /\ UNCHANGED <<asking, dialog, closes>>
      \/ /\ asking' = op /\ dialog' = TRUE /\ closes' \in 0 .. 2
         /\ cleanup' \in {"idle", "asking"}
  BY <1>1, <1>3 DEF confirmAction, Declined
<1>5. TypeOK' /\ NothingAskedUnseen' /\ CleanupNotStuck' /\ CleanupAsksOnce' /\ FormShows'
  <2>1. dialog' \in BOOLEAN /\ closes' \in 0 .. 2 /\ cleanup' \in {"idle", "asking"}
    BY <1>4, DialogParts, Fields
  <2>2. TypeOK'
    BY <1>1, <2>1, DialogParts, Fields, TypesFrom DEF Lists
  <2> QED
    BY <1>1, <1>2, <1>4, <2>2, DialogParts DEF NothingAskedUnseen, CleanupNotStuck, CleanupAsksOnce, FormShows
<1>6. RequestsOK' /\ LoadedOrLoading'
  BY <1>1, <1>2, <1>4, DialogParts DEF RequestsOK, LoadedOrLoading
<1>7. RulesBound'
  <2>1. AddAsked' => AddAsked
    BY <1>2, <1>4 DEF AddAsked
  <2> QED BY <1>1, <2>1, DialogParts, Fields, BoundKept DEF AddSent
<1>8. ASSUME careful'
      PROVE  ~missed' /\ OneAtATime' /\ PlacesMeant' /\ RulesStale' /\ ConfigStale'
             /\ InTheirView' /\ AnswersFresh'
  <2>1. careful
    BY <1>1, <1>8
  <2>2. sent = {} /\ ~dialog /\ refreshing = "no" /\ ~Loading /\ saving = None /\ ~missed /\ ~notice
    BY <1>1, <2>1, CarefulParts, DialogParts, Fields DEF OneAtATime
  <2>3. asking = None
    BY <2>2, DialogParts DEF NothingAskedUnseen
  <2>4. cleanup' \in {"idle", "asking"} /\ (dialog' => cleanup' = "asking")
    BY <1>1, <2>2, <2>3 DEF confirmAction, Declined
  <2>5. ~missed' /\ OneAtATime'
    BY <1>1, <2>2, <2>4 DEF OneAtATime, Loading
  <2>6. PlacesMeant'
    <3>1. Meant(op)
      <4>1. DOMAIN srvRules = 1 .. Len(srvRules)
        BY DialogParts, Fields, LenProperties
      <4> QED BY <1>2, <4>1 DEF Meant
    <3> QED BY <1>1, <1>2, <1>4, <2>1, <2>3, <3>1, CarefulParts DEF PlacesMeant, Meant
  <2>7. InTheirView' /\ AnswersFresh' /\ RulesStale' /\ ConfigStale'
    BY <1>1, <1>2, <1>4, <2>1, CarefulParts DEF InTheirView, AnswersFresh, RulesStale, ConfigStale
  <2> QED BY <2>5, <2>6, <2>7
<1>9. CarefulInvariant'
  BY <1>8, CarefulFrom
<1> QED
  BY <1>5, <1>6, <1>7, <1>9, InvariantFrom

\* Every answer to the dialog ends the question, and agreeing begins one thing.
LEMMA AnswerDialogKeeps ==
  ASSUME FormsInvariant, AnswerDialog
  PROVE  FormsInvariant'
<1>1. /\ dialog /\ dialog' = FALSE /\ closes' = 1 /\ asking' = None
      /\ \/ asking # None /\ Agreed(asking)
         \/ cleanup' = Declined(asking, cleanup) /\ UNCHANGED <<sent, saving>>
      /\ UNCHANGED <<careful, srvRules, srvConfig, others, missed, view, rules, config, loaded, load,
                     refreshing, error, notice, editing, form, clicks, fails>>
  BY DEF AnswerDialog, closeConfirmDialog, server, lists
<1>2. asking # None => asking \in Changes
  BY DialogParts DEF RequestsOK
<1>3. cleanup = "asking" => asking # None /\ asking.kind = "cleanup"
  BY DialogParts DEF CleanupNotStuck
<1> DEFINE d == IF asking.kind = "save"
                THEN Change("save", IF editing = None THEN NoPlace ELSE editing) ELSE asking
<1>4. asking # None => /\ d \in Changes /\ d.kind = asking.kind
                       /\ \/ d = asking
                          \/ d.index = 0
                          \/ editing # None /\ d.index = editing.index /\ d.rule = editing.rule
  <2>1. CASE asking # None /\ asking.kind = "save"
    <3> DEFINE place == IF editing = None THEN NoPlace ELSE editing
    <3>1. /\ place.index \in Nat /\ place.rule \in Rules \cup {None}
          /\ place.index = 0 \/ (editing # None /\ place = editing)
      BY NoPlaceIs, DialogParts, Fields, Lengths
    <3>2. d = Change("save", place)
      BY <2>1
    <3> HIDE DEF place, d
    <3>3. d \in Changes /\ d.kind = "save" /\ d.index = place.index /\ d.rule = place.rule
      BY <3>1, <3>2, ChangeIs
    <3> QED BY <2>1, <3>1, <3>3
  <2> QED BY <1>2, <2>1
<1>5. \/ /\ asking # None /\ asking.kind \in {"delete", "add", "clear", "save"}
         /\ sent' = sent \cup {d} /\ UNCHANGED <<saving, cleanup>>
      \/ /\ asking # None /\ asking.kind = "config"
         /\ saving' = Sent /\ UNCHANGED <<sent, cleanup>>
      \/ /\ asking # None /\ asking.kind = "cleanup"
         /\ cleanup' = "applying" /\ UNCHANGED <<sent, saving>>
      \/ /\ asking # None /\ asking.kind = "toggle" /\ UNCHANGED <<sent, saving, cleanup>>
      \/ /\ cleanup' = IF asking # None /\ asking.kind = "cleanup" THEN "idle" ELSE cleanup
         /\ UNCHANGED <<sent, saving>>
  <2>1. CASE asking # None /\ Agreed(asking)
    <3>1. asking.kind \in {"toggle", "delete", "add", "save", "config", "clear", "cleanup"}
      BY <1>2, <2>1, ChangeFields
    <3> QED BY <2>1, <3>1 DEF Agreed
  <2> QED BY <1>1, <2>1 DEF Declined
<1>6. asking # None /\ asking.kind = "add" => d = asking
  OBVIOUS
<1> HIDE DEF d
<1>7. TypeOK' /\ NothingAskedUnseen' /\ CleanupNotStuck' /\ CleanupAsksOnce' /\ FormShows'
  <2>1. cleanup' \in {"idle", "checking", "applying"}
    BY <1>3, <1>5, DialogParts, Fields
  <2>2. TypeOK'
    <3>1. dialog' = FALSE /\ closes' = 1
      BY <1>1
    <3>2. dialog' \in BOOLEAN
      BY <3>1
    <3>3. closes' \in 0 .. 2
      BY <3>1
    <3> QED BY <1>1, <2>1, <3>2, <3>3, DialogParts, Fields, TypesFrom DEF Lists
  <2> QED
    BY <1>1, <2>1, <2>2, DialogParts DEF NothingAskedUnseen, CleanupNotStuck, CleanupAsksOnce, FormShows
<1>8. RequestsOK' /\ LoadedOrLoading'
  <2>1. saving' \in {None, Sent} \cup [version : Nat]
    BY <1>5, DialogParts DEF RequestsOK
  <2>2. sent' \subseteq Changes /\ \A c \in sent' : c.kind = "add" => c.index = 0 /\ c.rule = None
    BY <1>4, <1>5, <1>6, DialogParts DEF RequestsOK
  <2> QED BY <1>1, <2>1, <2>2, DialogParts DEF RequestsOK, LoadedOrLoading
<1>9. RulesBound'
  <2>1. ~AddAsked'
    BY <1>1 DEF AddAsked
  <2>2. CASE asking # None /\ asking.kind = "add"
    <3> DEFINE s == IF AddSent' THEN 1 ELSE 0
               s0 == IF AddSent THEN 1 ELSE 0
    <3>1. Len(srvRules) + 1 + s0 <= Len(FirstRules) + clicks
      BY <2>2, DialogParts DEF RulesBound, AddAsked
    <3>2. s \in 0 .. 1 /\ s0 \in Nat
      OBVIOUS
    <3>3. Len(srvRules) + 0 + s <= Len(FirstRules) + clicks
      <4> HIDE DEF s, s0
      <4> QED BY <3>1, <3>2, DialogParts, Fields, Lengths
    <3>4. Len(srvRules') + (IF AddAsked' THEN 1 ELSE 0) + (IF AddSent' THEN 1 ELSE 0)
            <= Len(FirstRules) + clicks'
      BY <1>1, <2>1, <3>3
    <3> QED BY <1>1, <3>4, DialogParts DEF RulesBound
  <2>3. CASE ~(asking # None /\ asking.kind = "add")
    <3>1. AddSent' => AddSent
      BY <1>4, <1>5, <2>3 DEF AddSent
    <3> QED BY <1>1, <2>1, <3>1, DialogParts, Fields, BoundKept
  <2> QED BY <2>2, <2>3
<1>10. ASSUME careful'
       PROVE  ~missed' /\ OneAtATime' /\ PlacesMeant' /\ RulesStale' /\ ConfigStale'
              /\ InTheirView' /\ AnswersFresh'
  <2>1. careful
    BY <1>1, <1>10
  <2>2. /\ sent = {} /\ saving = None /\ ~Loading /\ refreshing = "no" /\ cleanup \in {"idle", "asking"}
        /\ ~missed /\ ~notice
    BY <1>1, <2>1, CarefulParts, DialogParts, Fields DEF OneAtATime
  <2>3. ~missed' /\ OneAtATime'
    BY <1>1, <1>3, <1>5, <2>2 DEF OneAtATime, Loading
  <2>4. DOMAIN srvRules = 1 .. Len(srvRules)
    BY DialogParts, Fields, LenProperties
  <2>5. asking # None => Meant(d)
    BY <1>4, <2>1, <2>4, CarefulParts DEF PlacesMeant, Meant
  <2>6. PlacesMeant'
    <3>1. \A c \in sent' : Meant(c)
      BY <1>5, <2>2, <2>5
    <3>2. \A c \in sent' : c.kind \in {"toggle", "delete", "add"} => editing = None
      BY <1>4, <1>5, <2>1, <2>2, CarefulParts DEF PlacesMeant
    <3>3. editing # None => Meant(editing)
      BY <2>1, CarefulParts DEF PlacesMeant
    <3> QED BY <1>1, <3>1, <3>2, <3>3 DEF PlacesMeant, Meant
  <2>7. RulesStale' /\ ConfigStale'
    BY <1>1, <2>1, <2>2, NoRequestAssumption, CarefulParts, DialogParts, Fields DEF RulesStale, ConfigStale
  <2>8. InTheirView'
    BY <1>1, <1>4, <1>5, <2>1, <2>2, CarefulParts DEF InTheirView
  <2>9. AnswersFresh'
    BY <1>1, <1>5, <2>1, <2>2, CarefulParts DEF AnswersFresh
  <2> QED BY <2>3, <2>6, <2>7, <2>8, <2>9
<1>11. CarefulInvariant'
  BY <1>10, CarefulFrom
<1> QED
  BY <1>7, <1>8, <1>9, <1>11, InvariantFrom

\* A late close event answers the question there is with no.
LEMMA CloseEventKeeps ==
  ASSUME FormsInvariant, CloseEvent
  PROVE  FormsInvariant'
<1>1. /\ closes > 0 /\ closes' = closes - 1 /\ asking' = None
      /\ cleanup' = IF asking # None /\ asking.kind = "cleanup" THEN "idle" ELSE cleanup
      /\ UNCHANGED <<careful, srvRules, srvConfig, others, missed, view, rules, config, loaded, load,
                     refreshing, error, notice, editing, form, saving, dialog, sent, clicks, fails>>
  BY DEF CloseEvent, AnsweredNo, Declined, server, lists, settings
<1>2. closes' \in 0 .. 2 /\ cleanup' \in {"idle", "checking", "applying"}
      /\ (cleanup' = "checking" => closes' <= 1)
  BY <1>1, DialogParts, Fields DEF CleanupNotStuck
<1>3. TypeOK' /\ NothingAskedUnseen' /\ CleanupNotStuck' /\ CleanupAsksOnce' /\ FormShows'
  <2>1. TypeOK'
    BY <1>1, <1>2, DialogParts, Fields, TypesFrom DEF Lists
  <2> QED
    BY <1>1, <1>2, <2>1, DialogParts DEF NothingAskedUnseen, CleanupNotStuck, CleanupAsksOnce, FormShows
<1>4. RequestsOK' /\ LoadedOrLoading'
  BY <1>1, DialogParts DEF RequestsOK, LoadedOrLoading
<1>5. RulesBound'
  BY <1>1, DialogParts, Fields, BoundKept DEF AddAsked, AddSent
<1>6. ASSUME careful'
      PROVE  ~missed' /\ OneAtATime' /\ PlacesMeant' /\ RulesStale' /\ ConfigStale'
             /\ InTheirView' /\ AnswersFresh'
  <2>1. careful
    BY <1>1, <1>6
  <2>2. ~missed' /\ OneAtATime'
    BY <1>1, <1>2, <2>1, CarefulParts, DialogParts DEF OneAtATime, Loading, CleanupNotStuck
  <2>3. PlacesMeant' /\ InTheirView' /\ AnswersFresh' /\ RulesStale' /\ ConfigStale'
    BY <1>1, <2>1, CarefulParts
       DEF PlacesMeant, Meant, InTheirView, AnswersFresh, RulesStale, ConfigStale
  <2> QED BY <2>2, <2>3
<1>7. CarefulInvariant'
  BY <1>6, CarefulFrom
<1> QED
  BY <1>3, <1>4, <1>5, <1>7, InvariantFrom

-----------------------------------------------------------------------------
(* Changes reach the server and are answered.                              *)

\* While a change of the careful user is on its way, there is nothing else.
LEMMA WhileSent ==
  ASSUME FormsInvariant, careful, NEW c \in sent
  PROVE  /\ refreshing = "no" /\ ~Loading /\ saving = None /\ cleanup = "idle" /\ sent = {c}
         /\ ~dialog /\ asking = None /\ ~notice /\ ~missed
<1>1. /\ refreshing = "no" /\ ~Loading /\ saving = None /\ cleanup = "idle" /\ sent = {c}
      /\ ~dialog /\ ~notice /\ ~missed
  BY CarefulParts, DialogParts, Fields DEF OneAtATime
<1> QED
  BY <1>1, DialogParts DEF NothingAskedUnseen

LEMMA RuleHandledKeeps ==
  ASSUME FormsInvariant, NEW c \in sent, RuleHandled(c)
  PROVE  FormsInvariant'
<1> DEFINE there == c.kind \in {"add", "clear"} \/ c.index \in DOMAIN srvRules
           d == [c EXCEPT !.state = IF there THEN "done" ELSE "refused"]
<1>1. /\ c.state = "sent" /\ sent' = (sent \ {c}) \cup {d}
      /\ missed' = (missed \/ (c.index \in DOMAIN srvRules /\ srvRules[c.index] # c.rule))
      /\ UNCHANGED <<careful, srvConfig, others, view, rules, config, loaded, load, refreshing, error,
                     notice, editing, form, saving, asking, dialog, closes, cleanup, clicks, fails>>
  BY DEF RuleHandled, lists, settings, confirms
<1>2. c \in Changes
  BY DialogParts DEF RequestsOK
<1>3. /\ d \in Changes /\ d.state = (IF there THEN "done" ELSE "refused")
      /\ d.kind = c.kind /\ d.index = c.index /\ d.rule = c.rule
  <2>1. (IF there THEN "done" ELSE "refused") \in {"done", "refused"}
    OBVIOUS
  <2> HIDE DEF there
  <2> QED BY <1>2, <2>1, HandledIs
<1>4. \/ UNCHANGED srvRules
      \/ c.kind = "delete" /\ there /\ srvRules' = RemoveAt(srvRules, c.index)
      \/ c.kind = "add" /\ there /\ \E r \in Rules : srvRules' = Append(srvRules, r)
  BY DEF RuleHandled
<1>5. /\ srvRules' \in Seq(Rules)
      /\ Len(srvRules') <= Len(srvRules) + (IF c.kind = "add" THEN 1 ELSE 0)
      /\ ~UNCHANGED srvRules => c.kind \in {"delete", "add"} /\ d.state = "done"
  <2>1. CASE UNCHANGED srvRules
    BY <2>1, DialogParts, Fields, Lengths
  <2>2. CASE c.kind = "delete" /\ there /\ srvRules' = RemoveAt(srvRules, c.index)
    <3>1. c.index \in DOMAIN srvRules
      BY <2>2
    <3>2. srvRules' \in Seq(Rules) /\ Len(srvRules') = Len(srvRules) - 1
      BY <2>2, <3>1, DialogParts, Fields, RemoveIs
    <3> QED BY <1>3, <2>2, <3>2, DialogParts, Lengths
  <2>3. CASE c.kind = "add" /\ there /\ \E r \in Rules : srvRules' = Append(srvRules, r)
    <3>1. PICK r \in Rules : srvRules' = Append(srvRules, r)
      BY <2>3
    <3>2. srvRules' \in Seq(Rules) /\ Len(srvRules') = Len(srvRules) + 1
      BY <3>1, DialogParts, Fields, AppendIs
    <3> QED BY <1>3, <2>3, <3>2, DialogParts, Lengths
  <2> QED BY <1>4, <2>1, <2>2, <2>3
<1>6. d.state # "sent"
  BY <1>3
<1> HIDE DEF d, there
<1>7. TypeOK' /\ NothingAskedUnseen' /\ CleanupNotStuck' /\ CleanupAsksOnce' /\ FormShows'
  <2>1. missed' \in BOOLEAN
    BY <1>1
  <2>2. TypeOK'
    BY <1>1, <1>5, <2>1, DialogParts, Fields, TypesFrom DEF Lists
  <2> QED
    BY <1>1, <2>2, DialogParts DEF NothingAskedUnseen, CleanupNotStuck, CleanupAsksOnce, FormShows
<1>8. RequestsOK' /\ LoadedOrLoading'
  BY <1>1, <1>2, <1>3, DialogParts DEF RequestsOK, LoadedOrLoading
<1>9. RulesBound'
  <2> DEFINE a == IF AddAsked THEN 1 ELSE 0
             s == IF AddSent THEN 1 ELSE 0
             s2 == IF AddSent' THEN 1 ELSE 0
             n == IF c.kind = "add" THEN 1 ELSE 0
  <2>1. AddAsked' <=> AddAsked
    BY <1>1 DEF AddAsked
  <2>2. s2 + n <= s /\ a \in Nat /\ s \in Nat /\ s2 \in Nat /\ n \in Nat
    <3>1. CASE c.kind = "add"
      <4>1. AddSent
        BY <1>1, <3>1 DEF AddSent
      <4>2. \A e \in sent : e.kind = "add" /\ e.state = "sent" => e = c
        BY <1>1, <3>1, DialogParts DEF RequestsOK, Changes
      <4>3. ~AddSent'
        BY <1>1, <1>6, <4>2 DEF AddSent
      <4> QED BY <3>1, <4>1, <4>3
    <3>2. CASE c.kind # "add"
      <4>1. AddSent' <=> AddSent
        BY <1>1, <1>3, <1>6, <3>2 DEF AddSent
      <4> QED BY <3>2, <4>1
    <3> QED BY <3>1, <3>2
  <2>3. Len(srvRules) + a + s <= Len(FirstRules) + clicks
    BY DialogParts DEF RulesBound
  <2>4. Len(srvRules') + a + s2 <= Len(FirstRules) + clicks
    <3>1. Len(srvRules') <= Len(srvRules) + n /\ Len(srvRules') \in Nat
      BY <1>5, LenProperties
    <3> HIDE DEF a, s, s2, n
    <3> QED BY <2>2, <2>3, <3>1, DialogParts, Fields, Lengths
  <2>5. Len(srvRules') + (IF AddAsked' THEN 1 ELSE 0) + (IF AddSent' THEN 1 ELSE 0)
          <= Len(FirstRules) + clicks'
    BY <1>1, <2>1, <2>4
  <2> QED BY <1>1, <2>5, DialogParts DEF RulesBound
<1>10. ASSUME careful'
       PROVE  ~missed' /\ OneAtATime' /\ PlacesMeant' /\ RulesStale' /\ ConfigStale'
              /\ InTheirView' /\ AnswersFresh'
  <2>1. careful
    BY <1>1, <1>10
  <2>2. /\ refreshing = "no" /\ ~Loading /\ saving = None /\ cleanup = "idle" /\ sent = {c}
        /\ ~dialog /\ asking = None /\ ~notice /\ ~missed
    BY <2>1, WhileSent
  <2>3. sent' = {d} /\ d # c
    BY <1>1, <1>6, <2>2
  <2>4. ~missed' /\ OneAtATime'
    <3>1. Meant(c)
      BY <1>1, <2>1, CarefulParts DEF PlacesMeant
    <3>2. ~missed'
      BY <1>1, <2>2, <3>1 DEF Meant
    <3> QED BY <1>1, <2>2, <2>3, <3>2 DEF OneAtATime, Loading
  <2>5. PlacesMeant'
    BY <1>1, <1>3, <1>5, <1>6, <2>1, <2>2, <2>3, CarefulParts DEF PlacesMeant, Meant
  <2>6. RulesStale'
    <3>1. CASE UNCHANGED srvRules
      BY <1>1, <2>1, <2>2, <3>1, CarefulParts DEF RulesStale
    <3>2. CASE ~UNCHANGED srvRules
      <4>1. view = "rules" /\ d.kind # "clear" /\ d.state = "done"
        BY <1>3, <1>5, <2>1, <3>2, CarefulParts DEF InTheirView
      <4> QED BY <1>1, <2>3, <4>1 DEF RulesStale
    <3> QED BY <3>1, <3>2
  <2>7. ConfigStale' /\ InTheirView'
    BY <1>1, <1>3, <2>1, <2>2, <2>3, CarefulParts DEF ConfigStale, InTheirView
  <2>8. AnswersFresh'
    BY <1>1, <2>1, <2>2, CarefulParts DEF AnswersFresh, Loading, Lists
  <2> QED BY <2>4, <2>5, <2>6, <2>7, <2>8
<1>11. CarefulInvariant'
  BY <1>10, CarefulFrom
<1> QED
  BY <1>7, <1>8, <1>9, <1>11, InvariantFrom

\* An answer takes the change away; only the clearing of a cache, which changes
\* no rule, shows neither a refresh nor an error.
LEMMA RuleAnsweredKeeps ==
  ASSUME FormsInvariant, NEW c \in sent, RuleAnswered(c) \/ RuleFails(c)
  PROVE  FormsInvariant'
<1>1. /\ sent' = sent \ {c}
      /\ UNCHANGED <<careful, srvRules, srvConfig, others, missed, view, rules, config, loaded, load,
                     notice, form, saving, asking, dialog, closes, cleanup, clicks>>
  BY DEF RuleAnswered, RuleFails, server, lists, settings, confirms
<1>2. /\ editing' \in {editing, None} /\ error' \in BOOLEAN /\ fails' \in Nat
      /\ refreshing' \in {"no", "running", "queued"}
      /\ refreshing = "no" => refreshing' \in {"no", "running"}
      /\ refreshing' # "no" \/ error' \/ (c.kind = "clear" /\ UNCHANGED <<refreshing, error>>)
  <2>1. CASE RuleAnswered(c)
    <3>1. /\ editing' \in {editing, None} /\ fails' = fails
          /\ refresh \/ (c.kind = "clear" /\ UNCHANGED <<refreshing, error>>)
      BY <2>1 DEF RuleAnswered, AfterChange
    <3>2. CASE refresh
      <4>1. /\ refreshing' \in {"running", "queued"} /\ error' \in BOOLEAN
            /\ refreshing = "no" => refreshing' = "running"
        BY <3>2, RefreshIs
      <4>2. fails' \in Nat
        BY <3>1, DialogParts, Fields
      <4> QED BY <3>1, <4>1, <4>2
    <3>3. CASE c.kind = "clear" /\ UNCHANGED <<refreshing, error>>
      BY <3>1, <3>3, DialogParts, Fields
    <3> QED BY <3>1, <3>2, <3>3
  <2>2. CASE RuleFails(c)
    <3>1. error' = TRUE /\ UNCHANGED <<editing, refreshing>> /\ fails' \in {fails, fails + 1}
      BY <2>2 DEF RuleFails, Fail
    <3> QED BY <3>1, DialogParts, Fields
  <2> QED BY <2>1, <2>2
<1>3. TypeOK' /\ NothingAskedUnseen' /\ CleanupNotStuck' /\ CleanupAsksOnce' /\ FormShows'
  <2>1. editing' = None \/ ( /\ editing'.index \in 1 .. Len(FirstRules) + clicks'
                             /\ editing'.rule \in Rules )
    BY <1>1, <1>2, DialogParts, Fields, EditingKept
  <2>2. TypeOK'
    BY <1>1, <1>2, <2>1, DialogParts, Fields, TypesFrom DEF Lists
  <2> QED
    BY <1>1, <2>2, DialogParts DEF NothingAskedUnseen, CleanupNotStuck, CleanupAsksOnce, FormShows
<1>4. RequestsOK' /\ LoadedOrLoading'
  BY <1>1, DialogParts DEF RequestsOK, LoadedOrLoading
<1>5. RulesBound'
  BY <1>1, DialogParts, Fields, BoundKept DEF AddAsked, AddSent
<1>6. ASSUME careful'
      PROVE  ~missed' /\ OneAtATime' /\ PlacesMeant' /\ RulesStale' /\ ConfigStale'
             /\ InTheirView' /\ AnswersFresh'
  <2>1. careful
    BY <1>1, <1>6
  <2>2. /\ refreshing = "no" /\ ~Loading /\ saving = None /\ cleanup = "idle" /\ sent = {c}
        /\ ~dialog /\ asking = None /\ ~notice /\ ~missed
    BY <2>1, WhileSent
  <2>3. sent' = {} /\ refreshing' \in {"no", "running"}
    BY <1>1, <1>2, <2>2
  <2>4. ~missed' /\ OneAtATime'
    BY <1>1, <2>2, <2>3 DEF OneAtATime, Loading
  <2>5. PlacesMeant' /\ InTheirView' /\ AnswersFresh'
    BY <1>1, <1>2, <2>1, <2>2, <2>3, CarefulParts DEF PlacesMeant, Meant, InTheirView, AnswersFresh
  <2>6. RulesStale'
    BY <1>1, <1>2, <2>1, <2>2, CarefulParts DEF RulesStale, InTheirView
  <2>7. ConfigStale'
    BY <1>1, <1>2, <2>1, <2>2, CarefulParts DEF ConfigStale
  <2> QED BY <2>4, <2>5, <2>6, <2>7
<1>7. CarefulInvariant'
  BY <1>6, CarefulFrom
<1> QED
  BY <1>3, <1>4, <1>5, <1>7, InvariantFrom

\* While the settings of the careful user are being saved, there is nothing else.
LEMMA WhileSaving ==
  ASSUME FormsInvariant, careful, saving # None
  PROVE  /\ refreshing = "no" /\ ~Loading /\ cleanup = "idle" /\ sent = {}
         /\ ~dialog /\ asking = None /\ ~notice /\ ~missed
         /\ view = "settings" /\ load["rules"] = None /\ load["settings"] = None
<1>1. /\ refreshing = "no" /\ ~Loading /\ cleanup = "idle" /\ sent = {}
      /\ ~dialog /\ ~notice /\ ~missed /\ view = "settings"
  BY CarefulParts, DialogParts, Fields DEF OneAtATime, InTheirView
<1> QED
  BY <1>1, DialogParts DEF NothingAskedUnseen, Loading, Lists

LEMMA ConfigKeeps ==
  ASSUME FormsInvariant, ConfigHandled \/ ConfigAnswered \/ ConfigFails
  PROVE  FormsInvariant'
<1>1. /\ saving # None
      /\ UNCHANGED <<careful, srvRules, others, missed, view, rules, loaded, load, refreshing, notice,
                     editing, asking, dialog, closes, cleanup, sent, clicks>>
  BY NoRequestAssumption
     DEF ConfigHandled, ConfigAnswered, ConfigFails, server, lists, settings, confirms
<1>2. \/ /\ srvConfig' = srvConfig + 1 /\ saving' = [version |-> srvConfig']
         /\ UNCHANGED <<config, form, error, fails>>
      \/ /\ saving \notin {None, Sent} /\ saving' = None /\ config' = saving.version
         /\ form' = IF "settings" \in loaded THEN config' ELSE 0
         /\ UNCHANGED <<srvConfig, error, fails>>
      \/ /\ saving' = None /\ error' = TRUE /\ fails' = fails + 1
         /\ UNCHANGED <<srvConfig, config, form>>
  BY DEF ConfigHandled, ConfigAnswered, ConfigFails, Fail, server, lists, settings
<1>3. saving \notin {None, Sent} => saving \in [version : Nat] /\ saving.version \in Nat
  BY DialogParts DEF RequestsOK
<1>4. srvConfig' \in Nat /\ config' \in Nat /\ (form' = Edited \/ form' \in Nat)
  BY <1>2, <1>3, DialogParts, Fields
<1>5. error' \in BOOLEAN /\ fails' \in Nat
  <2>1. error' = error \/ error' = TRUE
    BY <1>2
  <2>2. error' \in BOOLEAN
    BY <2>1, DialogParts, Fields
  <2>3. fails' \in Nat
    BY <1>2, DialogParts, Fields
  <2> QED BY <2>2, <2>3
<1>6. TypeOK' /\ NothingAskedUnseen' /\ CleanupNotStuck' /\ CleanupAsksOnce' /\ FormShows'
  <2>1. TypeOK'
    BY <1>1, <1>4, <1>5, DialogParts, Fields, TypesFrom DEF Lists
  <2>2. FormShows'
    BY <1>1, <1>2, DialogParts DEF FormShows
  <2> QED
    BY <1>1, <2>1, <2>2, DialogParts DEF NothingAskedUnseen, CleanupNotStuck, CleanupAsksOnce
<1>7. RequestsOK' /\ LoadedOrLoading'
  <2>1. [version |-> srvConfig'] \in [version : Nat]
    BY <1>4
  <2>2. saving' \in {None, Sent} \cup [version : Nat]
    <3>1. saving' = None \/ saving' = [version |-> srvConfig']
      BY <1>2
    <3> QED BY <2>1, <3>1
  <2> QED BY <1>1, <2>2, DialogParts DEF RequestsOK, LoadedOrLoading
<1>8. RulesBound'
  BY <1>1, DialogParts, Fields, BoundKept DEF AddAsked, AddSent
<1>9. ASSUME careful'
      PROVE  ~missed' /\ OneAtATime' /\ PlacesMeant' /\ RulesStale' /\ ConfigStale'
             /\ InTheirView' /\ AnswersFresh'
  <2>1. careful
    BY <1>1, <1>9
  <2>2. /\ refreshing = "no" /\ ~Loading /\ cleanup = "idle" /\ sent = {}
        /\ ~dialog /\ asking = None /\ ~notice /\ ~missed
        /\ view = "settings" /\ load["rules"] = None /\ load["settings"] = None
    BY <1>1, <2>1, WhileSaving
  <2>3. ~missed' /\ OneAtATime'
    BY <1>1, <2>2 DEF OneAtATime, Loading
  <2>4. PlacesMeant' /\ InTheirView'
    BY <1>1, <2>1, <2>2, CarefulParts DEF PlacesMeant, Meant, InTheirView
  <2>5. RulesStale'
    BY <1>1, <2>1, <2>2, CarefulParts DEF RulesStale
  <2>6. saving \notin {None, Sent} => saving = [version |-> srvConfig] /\ saving.version = srvConfig
    BY <2>1, CarefulParts DEF AnswersFresh
  <2>7. ConfigStale'
    BY <1>1, <1>2, <2>2, <2>6 DEF ConfigStale
  <2>8. AnswersFresh'
    BY <1>1, <1>2, <2>2 DEF AnswersFresh
  <2> QED BY <2>3, <2>4, <2>5, <2>7, <2>8
<1>10. CarefulInvariant'
  BY <1>9, CarefulFrom
<1> QED
  BY <1>6, <1>7, <1>8, <1>10, InvariantFrom

LEMMA OtherTabKeeps ==
  ASSUME FormsInvariant, OtherTab
  PROVE  FormsInvariant'
<1>1. /\ ~careful /\ others' = others + 1 /\ notice' = TRUE
      /\ UNCHANGED <<careful, missed, view, rules, config, loaded, load, refreshing, error, editing,
                     form, saving, asking, dialog, closes, cleanup, sent, clicks, fails>>
  BY DEF OtherTab, lists, settings, confirms
<1>2. \/ \E i \in DOMAIN srvRules : srvRules' = RemoveAt(srvRules, i) /\ srvConfig' = srvConfig
      \/ srvConfig' = srvConfig + 1 /\ srvRules' = srvRules
  BY DEF OtherTab
<1>3. srvRules' \in Seq(Rules) /\ srvConfig' \in Nat /\ Len(srvRules') <= Len(srvRules)
  BY <1>2, DialogParts, Fields, Lengths, RemoveIs
<1>4. TypeOK' /\ NothingAskedUnseen' /\ CleanupNotStuck' /\ CleanupAsksOnce' /\ FormShows'
  <2>1. notice' \in BOOLEAN
    BY <1>1
  <2>2. TypeOK'
    BY <1>1, <1>3, <2>1, DialogParts, Fields, TypesFrom DEF Lists
  <2> QED
    BY <1>1, <2>2, DialogParts DEF NothingAskedUnseen, CleanupNotStuck, CleanupAsksOnce, FormShows
<1>5. RequestsOK' /\ LoadedOrLoading'
  BY <1>1, DialogParts DEF RequestsOK, LoadedOrLoading
<1>6. RulesBound'
  <2> DEFINE a == IF AddAsked THEN 1 ELSE 0
             s == IF AddSent THEN 1 ELSE 0
  <2>1. (AddAsked' <=> AddAsked) /\ (AddSent' <=> AddSent)
    BY <1>1 DEF AddAsked, AddSent
  <2>2. a \in Nat /\ s \in Nat /\ Len(srvRules) + a + s <= Len(FirstRules) + clicks
    BY DialogParts DEF RulesBound
  <2>3. Len(srvRules') + a + s <= Len(FirstRules) + clicks
    <3>1. Len(srvRules') \in Nat
      BY <1>3, LenProperties
    <3> HIDE DEF a, s
    <3> QED BY <1>3, <2>2, <3>1, DialogParts, Fields, Lengths
  <2>4. Len(srvRules') + (IF AddAsked' THEN 1 ELSE 0) + (IF AddSent' THEN 1 ELSE 0)
          <= Len(FirstRules) + clicks'
    BY <1>1, <2>1, <2>3
  <2> QED BY <1>1, <2>4, DialogParts DEF RulesBound
<1>7. CarefulInvariant'
  BY <1>1 DEF CarefulInvariant
<1> QED
  BY <1>4, <1>5, <1>6, <1>7, InvariantFrom

-----------------------------------------------------------------------------
(* The theorems.                                                           *)

LEMMA InitInvariant ==
  ASSUME Init
  PROVE  FormsInvariant
<1>1. load = [v \in Lists |-> None] /\ srvRules = FirstRules /\ rules = <<>> /\ sent = {}
      /\ asking = None /\ saving = None /\ editing = None /\ clicks = 0
  BY DEF Init, Lists
<1>2. Len(FirstRules) \in Nat /\ <<>> \in Seq(Rules) /\ Len(<<>>) = 0 /\ FirstRules \in Seq(Rules)
  BY RulesAssumption, LenProperties, EmptySeq
<1>3. TypeOK
  <2>1. srvRules \in Seq(Rules) /\ rules \in Seq(Rules)
    BY <1>1, <1>2
  <2>2. {srvConfig, config, others, clicks, fails} \subseteq Nat
    BY DEF Init
  <2>3. {careful, error, notice, dialog, missed} \subseteq BOOLEAN
    BY DEF Init
  <2>4. editing = None /\ form \in Nat /\ closes \in 0 .. 2 /\ loaded \subseteq {"rules", "settings"}
    BY DEF Init
  <2>5. /\ view \in {"rules", "settings", "elsewhere"} /\ refreshing \in {"no", "running", "queued"}
        /\ cleanup \in {"idle", "checking", "asking", "applying"}
    BY DEF Init
  <2> QED BY <2>1, <2>2, <2>3, <2>4, <2>5 DEF TypeOK
<1>4. NothingAskedUnseen /\ CleanupNotStuck /\ CleanupAsksOnce /\ LoadedOrLoading /\ FormShows
  BY DEF Init, NothingAskedUnseen, CleanupNotStuck, CleanupAsksOnce, LoadedOrLoading, FormShows
<1>5. RequestsOK
  BY <1>1 DEF RequestsOK, Lists
<1>6. RulesBound
  <2>1. ~AddAsked /\ ~AddSent
    BY <1>1 DEF AddAsked, AddSent
  <2> QED BY <1>1, <1>2, <2>1 DEF RulesBound, Lists
<1>7. CarefulInvariant
  BY <1>1 DEF Init, CarefulInvariant, OneAtATime, PlacesMeant, RulesStale, ConfigStale,
              InTheirView, AnswersFresh, Loading, Lists
<1> QED
  BY <1>3, <1>4, <1>5, <1>6, <1>7 DEF FormsInvariant, DialogInvariant, DialogInOrder

LEMMA StutterKeeps ==
  ASSUME FormsInvariant, UNCHANGED vars
  PROVE  FormsInvariant'
<1>1. UNCHANGED <<careful, srvRules, srvConfig, others, view, rules, config, loaded, load, refreshing,
                  error, notice, editing, form, saving, asking, dialog, closes, cleanup,
                  sent, missed, clicks, fails>>
  BY DEF vars
<1>2. TypeOK' /\ NothingAskedUnseen' /\ CleanupNotStuck' /\ CleanupAsksOnce' /\ FormShows'
  <2>1. TypeOK'
    BY <1>1, DialogParts, Fields, TypesFrom DEF Lists
  <2> QED
    BY <1>1, <2>1, DialogParts DEF NothingAskedUnseen, CleanupNotStuck, CleanupAsksOnce, FormShows
<1>3. RequestsOK' /\ LoadedOrLoading'
  BY <1>1, DialogParts DEF RequestsOK, LoadedOrLoading
<1>4. RulesBound'
  BY <1>1, DialogParts, Fields, BoundKept DEF AddAsked, AddSent
<1>5. CarefulInvariant'
  BY <1>1 DEF FormsInvariant, CarefulInvariant, OneAtATime, PlacesMeant, Meant, RulesStale,
              ConfigStale, InTheirView, AnswersFresh, Loading
<1> QED
  BY <1>2, <1>3, <1>4, <1>5, InvariantFrom

LEMMA StepKeeps ==
  ASSUME FormsInvariant, [Next]_vars
  PROVE  FormsInvariant'
<1>1. ASSUME NEW v \in {"rules", "settings", "elsewhere"}, SetView(v)
      PROVE  FormsInvariant'
  BY <1>1, SetViewKeeps DEF Lists
<1>2. ASSUME NEW v \in {"rules", "settings"}, LoadRead(v) \/ LoadAnswers(v) \/ LoadFails(v)
      PROVE  FormsInvariant'
  BY <1>2, LoadReadKeeps, LoadAnswersKeeps, LoadFailsKeeps DEF Lists
<1>3. CASE RefreshAnswers
  BY <1>3, RefreshAnswersKeeps
<1>4. CASE RefreshFails \/ PressRefresh \/ Notice
  BY <1>4, RefreshKeeps
<1>5. CASE ToggleRule
  BY <1>5, ToggleRuleKeeps
<1>6. CASE DeleteRule \/ addBasicRule \/ saveBasicRule \/ saveStrataConfigFromForm \/ ClearCache
  BY <1>6, AskKeeps
<1>7. CASE fillRuleFormFromRule \/ LeaveRule \/ EditSettings
  BY <1>7, FormsKeep
<1>8. CASE cleanupRecorded \/ CleanupApplied \/ CleanupFails
  BY <1>8, CleanupKeeps
<1>9. CASE CleanupChecked
  BY <1>9, CleanupCheckedKeeps
<1>10. CASE AnswerDialog
  BY <1>10, AnswerDialogKeeps
<1>11. CASE CloseEvent
  BY <1>11, CloseEventKeeps
<1>12. ASSUME NEW c \in sent, RuleHandled(c) \/ RuleAnswered(c) \/ RuleFails(c)
       PROVE  FormsInvariant'
  BY <1>12, RuleHandledKeeps, RuleAnsweredKeeps
<1>13. CASE ConfigHandled \/ ConfigAnswered \/ ConfigFails
  BY <1>13, ConfigKeeps
<1>14. CASE OtherTab
  BY <1>14, OtherTabKeeps
<1>15. CASE UNCHANGED vars
  BY <1>15, StutterKeeps
<1>16. CASE RetrySettings
  BY <1>16, RetrySettingsKeeps
<1> QED
  BY <1>1, <1>2, <1>3, <1>4, <1>5, <1>6, <1>7, <1>8, <1>9, <1>10, <1>11, <1>12, <1>13, <1>14, <1>15,
     <1>16 DEF Next

\* What is shown, asked and under way stays in order (all of app.js's forms).
THEOREM InvariantHolds == Spec => []FormsInvariant
<1>1. Init => FormsInvariant
  BY InitInvariant
<1>2. FormsInvariant /\ [Next]_vars => FormsInvariant'
  BY StepKeeps
<1> QED
  BY <1>1, <1>2, PTL DEF Spec

\* Every question can be answered and the cleanup is never stuck, however the
\* confirmations and close events of the one dialog follow each other.
THEOREM DialogStaysInOrder == Spec => []DialogInOrder
<1>1. FormsInvariant => DialogInOrder
  BY DEF FormsInvariant, DialogInvariant
<1> QED
  BY <1>1, InvariantHolds, PTL

\* The careful user deletes, switches and saves the very rule shown, although
\* requests name rules by their place in the server's list.
THEOREM RightRule == Spec => []ActsOnRuleMeant
<1>1. FormsInvariant => ActsOnRuleMeant
  BY DEF FormsInvariant, CarefulInvariant, ActsOnRuleMeant
<1> QED
  BY <1>1, InvariantHolds, PTL

\* When nothing is under way and no error is shown, the careful user sees the
\* rules and settings the server has.
THEOREM StoredIsShown == Spec => []ShowsWhatIsStored
<1>1. FormsInvariant => ShowsWhatIsStored
  <2> SUFFICES ASSUME FormsInvariant, careful, Quiet, ~error
               PROVE  /\ "rules" \in loaded => rules = srvRules
                      /\ "settings" \in loaded /\ view = "settings" => form \in {srvConfig, Edited}
    BY DEF ShowsWhatIsStored
  <2>1. refreshing = "no" /\ sent = {} /\ saving = None
    BY DEF Quiet
  <2>2. None # [version |-> srvConfig]
    BY NoRequestAssumption, DialogParts, Fields
  <2>3. /\ "rules" \in loaded => rules = srvRules
        /\ "settings" \in loaded => config = srvConfig
    BY <2>1, <2>2, CarefulParts DEF RulesStale, ConfigStale
  <2> QED
    BY <2>3, DialogParts DEF FormShows
<1> QED
  BY <1>1, InvariantHolds, PTL

\* Loads, refreshes and other tabs never fill a settings form that has input:
\* only the answer to a save does.
THEOREM InputIsKept == Spec => EditsKept
<1>1. [Next]_vars => [form = Edited /\ form' # Edited => saving # None /\ saving' = None]_vars
  <2> SUFFICES ASSUME Next, form = Edited, form' # Edited
               PROVE  saving # None /\ saving' = None
    OBVIOUS
  <2>1. ASSUME NEW v \in {"rules", "settings", "elsewhere"}, SetView(v)
        PROVE  FALSE
    BY <2>1 DEF SetView, renderSettings, renderConfigForm
  <2>2. ASSUME NEW v \in {"rules", "settings"}, LoadRead(v) \/ LoadAnswers(v) \/ LoadFails(v)
        PROVE  FALSE
    BY <2>2 DEF LoadRead, LoadAnswers, LoadFails, renderSettings, renderConfigForm, settings
  <2>3. ~(RefreshAnswers \/ RefreshFails \/ PressRefresh \/ RetrySettings \/ Notice)
    BY DEF RefreshAnswers, RefreshFails, PressRefresh, RetrySettings, Notice, renderSettings, renderConfigForm, settings
  <2>4. ~(ToggleRule \/ DeleteRule \/ fillRuleFormFromRule \/ addBasicRule \/ saveBasicRule \/ LeaveRule)
    BY DEF ToggleRule, DeleteRule, fillRuleFormFromRule, addBasicRule, saveBasicRule, LeaveRule, settings
  <2>5. ~(EditSettings \/ ClearCache \/ saveStrataConfigFromForm)
    BY DEF EditSettings, ClearCache, saveStrataConfigFromForm, settings
  <2>6. ~(cleanupRecorded \/ CleanupChecked \/ CleanupApplied \/ CleanupFails)
    BY DEF cleanupRecorded, CleanupChecked, CleanupApplied, CleanupFails, settings
  <2>7. ~(AnswerDialog \/ CloseEvent)
    BY DEF AnswerDialog, CloseEvent, settings
  <2>8. ASSUME NEW c \in sent, RuleHandled(c) \/ RuleAnswered(c) \/ RuleFails(c)
        PROVE  FALSE
    BY <2>8 DEF RuleHandled, RuleAnswered, RuleFails, settings
  <2>9. ~(ConfigHandled \/ ConfigFails \/ OtherTab)
    BY DEF ConfigHandled, ConfigFails, OtherTab, settings
  <2>10. ConfigAnswered
    BY <2>1, <2>2, <2>3, <2>4, <2>5, <2>6, <2>7, <2>8, <2>9 DEF Next
  <2> QED
    BY <2>10 DEF ConfigAnswered
<1> QED
  BY <1>1, PTL DEF Spec, EditsKept
=============================================================================
