---------------------------- MODULE SearchProofs ----------------------------
(***************************************************************************)
(* The search view for every set of texts, categories, channels and links  *)
(* and every number of pages and events: the type invariant, and that the  *)
(* items shown answer the filter and the page shown.                       *)
(***************************************************************************)
EXTENDS SearchView, TLAPS

Pages == 1 .. MaxPages

\* One request at most will be heard; unless a key is waited for or a link has
\* changed them, the filter and page of the controls are those it asks for.
RequestAsks ==
  /\ \A r, q \in inflight : r.current /\ q.current => r = q
  /\ ~debounced /\ unasked = "no" =>
       \A r \in inflight : r.current => r.filter = filter /\ r.page = page

\* What has been heard is shown, also while an event of the address is on its
\* way.
ItemsAnswer ==
  (\A r \in inflight : ~r.current) /\ ~debounced /\ loaded /\ ~failed /\ unasked = "no" =>
    ItemsAnswerControls

SearchInvariant == TypeOK /\ legacy \in LegacyLinks /\ RequestAsks /\ ItemsAnswer

-----------------------------------------------------------------------------
(* The parts of handlers.                                                  *)

Requests == [filter : Filters, page : Pages, current : BOOLEAN]
Whys == {"channel", "legacy", "cleared"}

LEMMA PagesAre ==
  /\ MaxPages \in Nat /\ MaxPages > 0 /\ MaxEvents \in Nat
  /\ 1 \in Pages
BY SearchBoundsAssumption DEF Pages

\* A filter stays one whichever of its fields is set.
LEMMA FilterSet ==
  /\ defaultListFilter \in Filters
  /\ \A f \in Filters :
       /\ f.category \in Categories \cup {""}
       /\ [f EXCEPT !.category = ""] \in Filters
       /\ \A t \in Texts \cup {""} : [f EXCEPT !.text = t] \in Filters
       /\ \A c \in Categories \cup {""} : [f EXCEPT !.category = c] \in Filters
       /\ \A k \in Channels \cup {""} : [f EXCEPT !.channel = k] \in Filters
<1>1. defaultListFilter \in Filters
  BY DEF defaultListFilter, Filters
<1> SUFFICES ASSUME NEW f \in Filters
             PROVE  /\ f.category \in Categories \cup {""}
                    /\ [f EXCEPT !.category = ""] \in Filters
                    /\ \A t \in Texts \cup {""} : [f EXCEPT !.text = t] \in Filters
                    /\ \A c \in Categories \cup {""} : [f EXCEPT !.category = c] \in Filters
                    /\ \A k \in Channels \cup {""} : [f EXCEPT !.channel = k] \in Filters
  BY <1>1
<1>2. f.category \in Categories \cup {""} /\ [f EXCEPT !.category = ""] \in Filters
  BY DEF Filters
<1>3. \A t \in Texts \cup {""} : [f EXCEPT !.text = t] \in Filters
  BY DEF Filters
<1>4. \A c \in Categories \cup {""} : [f EXCEPT !.category = c] \in Filters
  BY DEF Filters
<1>5. \A k \in Channels \cup {""} : [f EXCEPT !.channel = k] \in Filters
  BY DEF Filters
<1> QED BY <1>2, <1>3, <1>4, <1>5

LEMMA Link ==
  ASSUME SearchInvariant
  PROVE  legacy.filter \in Filters /\ legacy.page \in Pages
BY LinksAssumption DEF SearchInvariant, Pages

LEMMA Fields ==
  ASSUME SearchInvariant
  PROVE  /\ filter \in Filters /\ saved \in Filters /\ page \in Pages /\ total \in 0 .. MaxPages
         /\ items \in [filter : Filters, page : Pages] \cup {None}
         /\ inflight \subseteq Requests
         /\ categories \subseteq Categories
         /\ unasked \in {"no"} \cup Whys
         /\ hash \in {"search", "legacy", "elsewhere"}
         /\ loaded \in BOOLEAN /\ debounced \in BOOLEAN /\ inSearch \in BOOLEAN
         /\ arriving \in BOOLEAN /\ hasLoaded \in BOOLEAN /\ failed \in BOOLEAN
BY DEF SearchInvariant, TypeOK, Requests, Pages, Whys

\* A page brought into those there are is one there can be.
LEMMA ClampIs ==
  ASSUME NEW p \in Pages, NEW pages \in 0 .. MaxPages
  PROVE  Clamp(p, pages) \in Pages
BY PagesAre DEF Clamp, Pages

LEMMA RenderIs ==
  ASSUME NEW f \in Filters, NEW p \in Pages, NEW cats, NEW pages \in 0 .. MaxPages,
         renderSearch(f, p, cats, pages)
  PROVE  /\ filter' \in Filters /\ page' = Clamp(p, pages) /\ page' \in Pages
         /\ filter' = IF f.category \in cats \cup {""} THEN f ELSE [f EXCEPT !.category = ""]
BY FilterSet, ClampIs DEF renderSearch

\* Who loads asks for what the controls show, and hears nobody else.
LEMMA LoadAsks ==
  ASSUME filter' \in Filters, page' \in Pages, NEW rs, rs \subseteq Requests, loadSearchPage(rs)
  PROVE  /\ inflight' \subseteq Requests /\ failed' = FALSE /\ unasked' = "no"
         /\ RequestAsks' /\ ItemsAnswer'
<1> DEFINE r0 == [filter |-> filter', page |-> page', current |-> TRUE]
           old == {[r EXCEPT !.current = FALSE] : r \in rs}
<1>1. r0 \in Requests /\ r0.current /\ r0.filter = filter' /\ r0.page = page'
  BY DEF Requests
<1>2. \A r \in Requests : [r EXCEPT !.current = FALSE] \in Requests
                          /\ ~[r EXCEPT !.current = FALSE].current
  BY DEF Requests
<1>3. \A r \in old : r \in Requests /\ ~r.current
  BY <1>2
<1> HIDE DEF old, r0
<1>4. inflight' = old \cup {r0} /\ failed' = FALSE /\ unasked' = "no"
  BY DEF loadSearchPage, old, r0
<1> QED
  BY <1>1, <1>3, <1>4 DEF RequestAsks, ItemsAnswer

\* Who does not load keeps the filter and page, or is known to have changed
\* them.
LEMMA NoLoadTells ==
  ASSUME SearchInvariant, NEW why \in Whys, NoLoad(why), UNCHANGED <<debounced, items, total, categories, loaded>>
  PROVE  /\ inflight' \subseteq Requests /\ failed' \in BOOLEAN /\ unasked' \in {"no"} \cup Whys
         /\ RequestAsks' /\ ItemsAnswer'
<1>1. inflight' = inflight /\ failed' = failed
      /\ unasked' = IF <<filter', page'>> = <<filter, page>> THEN unasked ELSE why
  BY DEF NoLoad
<1>2. CASE filter' = filter /\ page' = page
  BY <1>1, <1>2, Fields DEF SearchInvariant, RequestAsks, ItemsAnswer, ItemsAnswerControls
<1>3. CASE ~(filter' = filter /\ page' = page)
  <2>1. unasked' = why /\ why # "no"
    BY <1>1, <1>3 DEF Whys
  <2> QED
    BY <1>1, <2>1, Fields DEF SearchInvariant, RequestAsks, ItemsAnswer
<1> QED BY <1>2, <1>3

LEMMA InvariantFrom ==
  ASSUME filter' \in Filters, saved' \in Filters, page' \in Pages, total' \in 0 .. MaxPages,
         items' \in [filter : Filters, page : Pages] \cup {None},
         inflight' \subseteq Requests, categories' \subseteq Categories,
         unasked' \in {"no"} \cup Whys, hash' \in {"search", "legacy", "elsewhere"},
         loaded' \in BOOLEAN, debounced' \in BOOLEAN, inSearch' \in BOOLEAN,
         arriving' \in BOOLEAN, hasLoaded' \in BOOLEAN, failed' \in BOOLEAN,
         legacy' \in LegacyLinks, RequestAsks', ItemsAnswer'
  PROVE  SearchInvariant'
<1>1. {loaded', debounced', inSearch', arriving', hasLoaded', failed'} \subseteq BOOLEAN
  OBVIOUS
<1>2. TypeOK'
  BY <1>1 DEF TypeOK, Requests, Pages, Whys
<1> QED
  BY <1>2 DEF SearchInvariant

-----------------------------------------------------------------------------
(* The actions.                                                            *)

LEMMA EditIs ==
  ASSUME SearchInvariant, NEW f \in Filters, Edit(f)
  PROVE  /\ filter' \in Filters /\ page' \in Pages /\ saved' \in Filters /\ loaded' = FALSE
         /\ UNCHANGED <<items, total, categories, inSearch, hash, arriving, hasLoaded, legacy>>
<1>1. renderSearch(f, 1, categories, total) /\ saved' = f /\ loaded' = FALSE
      /\ UNCHANGED <<items, total, categories, inSearch, hash, arriving, hasLoaded, legacy>>
  BY DEF Edit
<1> QED
  BY <1>1, RenderIs, Fields, PagesAre

\* An edit that is asked for at once.
LEMMA EditLoadKeeps ==
  ASSUME SearchInvariant, NEW f \in Filters, Edit(f), loadSearchPage(inflight), UNCHANGED debounced
  PROVE  SearchInvariant'
<1>1. /\ filter' \in Filters /\ page' \in Pages /\ saved' \in Filters /\ loaded' = FALSE
      /\ UNCHANGED <<items, total, categories, inSearch, hash, arriving, hasLoaded, legacy>>
  BY EditIs
<1>2. /\ inflight' \subseteq Requests /\ failed' = FALSE /\ unasked' = "no"
      /\ RequestAsks' /\ ItemsAnswer'
  BY <1>1, Fields, LoadAsks
<1>3. legacy' \in LegacyLinks
  BY <1>1 DEF SearchInvariant
<1> QED
  BY <1>1, <1>2, <1>3, Fields, InvariantFrom

LEMMA TypeTextKeeps ==
  ASSUME SearchInvariant, TypeText
  PROVE  SearchInvariant'
<1>1. PICK t \in Texts \cup {""} : Edit([filter EXCEPT !.text = t])
  BY DEF TypeText
<1>2. debounced' = TRUE /\ UNCHANGED <<inflight, failed, unasked>>
  BY DEF TypeText
<1>3. [filter EXCEPT !.text = t] \in Filters
  BY FilterSet, Fields
<1>4. /\ filter' \in Filters /\ page' \in Pages /\ saved' \in Filters /\ loaded' = FALSE
      /\ UNCHANGED <<items, total, categories, inSearch, hash, arriving, hasLoaded, legacy>>
  BY <1>1, <1>3, EditIs
<1>5. RequestAsks' /\ ItemsAnswer'
  BY <1>2 DEF SearchInvariant, RequestAsks, ItemsAnswer
<1>6. legacy' \in LegacyLinks
  BY <1>4 DEF SearchInvariant
<1> QED
  BY <1>2, <1>4, <1>5, <1>6, Fields, InvariantFrom

LEMMA DebounceKeeps ==
  ASSUME SearchInvariant, DebounceElapses
  PROVE  SearchInvariant'
<1>1. /\ debounced' = FALSE /\ loadSearchPage(inflight)
      /\ UNCHANGED <<filter, page, saved, items, total, categories, loaded, inSearch, hash, arriving,
                     hasLoaded, legacy, events>>
  BY DEF DebounceElapses, SearchTyped
<1>2. filter' \in Filters /\ page' \in Pages
  BY <1>1, Fields
<1>3. /\ inflight' \subseteq Requests /\ failed' = FALSE /\ unasked' = "no"
      /\ RequestAsks' /\ ItemsAnswer'
  BY <1>1, <1>2, Fields, LoadAsks
<1>4. legacy' \in LegacyLinks
  BY <1>1 DEF SearchInvariant
<1> QED
  BY <1>1, <1>2, <1>3, <1>4, Fields, InvariantFrom

LEMMA ControlsKeep ==
  ASSUME SearchInvariant, Select \/ ResetFilter
  PROVE  SearchInvariant'
<1>1. loadSearchPage(inflight) /\ UNCHANGED debounced
  BY DEF Select, ResetFilter
<1>2. \E f \in Filters : Edit(f)
  <2>1. ASSUME NEW c \in categories \cup {""}, Edit([filter EXCEPT !.category = c])
        PROVE  \E f \in Filters : Edit(f)
    <3>1. c \in Categories \cup {""}
      BY Fields
    <3>2. [filter EXCEPT !.category = c] \in Filters
      BY <3>1, Fields, FilterSet
    <3> QED BY <2>1, <3>2
  <2>2. ASSUME NEW k \in Channels \cup {""}, Edit([filter EXCEPT !.channel = k])
        PROVE  \E f \in Filters : Edit(f)
    BY <2>2, Fields, FilterSet
  <2>3. CASE ResetFilter
    BY <2>3, FilterSet DEF ResetFilter
  <2> QED BY <2>1, <2>2, <2>3 DEF Select
<1> QED
  BY <1>1, <1>2, EditLoadKeeps

LEMMA TurnPageKeeps ==
  ASSUME SearchInvariant, TurnPage
  PROVE  SearchInvariant'
<1>1. PICK p \in 1 .. total : renderSearch(filter, p, categories, total)
  BY DEF TurnPage
<1>2. /\ loadSearchPage(inflight)
      /\ UNCHANGED <<saved, items, total, categories, loaded, debounced, inSearch, hash,
                     arriving, hasLoaded, legacy>>
  BY DEF TurnPage
<1>3. p \in Pages
  BY Fields, PagesAre DEF Pages
<1>4. filter' \in Filters /\ page' \in Pages
  BY <1>1, <1>3, Fields, RenderIs
<1>5. /\ inflight' \subseteq Requests /\ failed' = FALSE /\ unasked' = "no"
      /\ RequestAsks' /\ ItemsAnswer'
  BY <1>2, <1>4, Fields, LoadAsks
<1>6. legacy' \in LegacyLinks
  BY <1>2 DEF SearchInvariant
<1> QED
  BY <1>2, <1>4, <1>5, <1>6, Fields, InvariantFrom

LEMMA FollowChannelLinkKeeps ==
  ASSUME SearchInvariant, FollowChannelLink
  PROVE  SearchInvariant'
<1>1. PICK k \in Channels : /\ saved' = [filter EXCEPT !.channel = k]
                            /\ renderSearch(saved', 1, categories, total)
  BY DEF FollowChannelLink
<1>2. /\ hash' = "search" /\ arriving' = (arriving \/ hash # "search") /\ unasked' = "channel"
      /\ UNCHANGED <<items, total, categories, loaded, inflight, debounced, inSearch,
                     hasLoaded, legacy, failed>>
  BY DEF FollowChannelLink
<1>3. saved' \in Filters
  BY <1>1, Fields, FilterSet
<1>4. filter' \in Filters /\ page' \in Pages
  <2> DEFINE f == saved'
  <2>1. renderSearch(f, 1, categories, total) /\ f \in Filters
    BY <1>1, <1>3
  <2> HIDE DEF f
  <2> QED
    BY <2>1, Fields, PagesAre, RenderIs
<1>5. arriving' \in BOOLEAN
  BY <1>2
<1>6. RequestAsks' /\ ItemsAnswer'
  BY <1>2 DEF SearchInvariant, RequestAsks, ItemsAnswer
<1>7. legacy' \in LegacyLinks
  BY <1>2 DEF SearchInvariant
<1>8. unasked' \in {"no"} \cup Whys
  BY <1>2 DEF Whys
<1> QED
  BY <1>2, <1>3, <1>4, <1>5, <1>6, <1>7, <1>8, Fields, InvariantFrom

LEMMA ChangeAddressKeeps ==
  ASSUME SearchInvariant, ChangeAddress
  PROVE  SearchInvariant'
<1>1. /\ hash' \in {"search", "legacy", "elsewhere"} /\ arriving' = TRUE
      /\ UNCHANGED <<filter, page, saved, items, total, categories, loaded, inflight,
                     debounced, inSearch, hasLoaded, legacy, failed, unasked>>
  BY DEF ChangeAddress
<1>2. RequestAsks' /\ ItemsAnswer' /\ legacy' \in LegacyLinks
  BY <1>1 DEF SearchInvariant, RequestAsks, ItemsAnswer, ItemsAnswerControls
<1> QED
  BY <1>1, <1>2, Fields, InvariantFrom

LEMMA HashChangeKeeps ==
  ASSUME SearchInvariant, HashChange
  PROVE  SearchInvariant'
<1> DEFINE f == IF hash = "legacy" THEN legacy.filter ELSE filter
           p == IF hash = "legacy" THEN legacy.page ELSE page
<1>1. f \in Filters /\ p \in Pages
  BY Fields, Link
<1> HIDE DEF f, p
<1>2. /\ arriving' = FALSE /\ inSearch' = (hash # "elsewhere")
      /\ UNCHANGED <<saved, items, total, categories, loaded, debounced, hash,
                     hasLoaded, legacy, events>>
  BY DEF HashChange
<1>3. renderSearch(f, p, categories, total) \/ (filter' = f /\ page' = p)
  BY DEF HashChange, f, p
<1>4. filter' \in Filters /\ page' \in Pages
  BY <1>1, <1>3, Fields, RenderIs
<1>5. /\ inflight' \subseteq Requests /\ failed' \in BOOLEAN /\ unasked' \in {"no"} \cup Whys
      /\ RequestAsks' /\ ItemsAnswer'
  <2>1. CASE loadSearchPage(inflight)
    BY <2>1, <1>4, Fields, LoadAsks
  <2>2. CASE NoLoad(IF hash = "legacy" THEN "legacy" ELSE "cleared")
    <3>1. PICK why \in Whys : NoLoad(why)
      BY <2>2 DEF Whys
    <3> QED
      BY <3>1, <1>2, NoLoadTells
  <2> QED BY <2>1, <2>2 DEF HashChange
<1>6. inSearch' \in BOOLEAN
  BY <1>2
<1>7. legacy' \in LegacyLinks
  BY <1>2 DEF SearchInvariant
<1> QED
  BY <1>2, <1>4, <1>5, <1>6, <1>7, Fields, InvariantFrom

LEMMA PressSlashKeeps ==
  ASSUME SearchInvariant, PressSlash
  PROVE  SearchInvariant'
<1>1. /\ filter' = legacy.filter /\ page' = legacy.page /\ NoLoad("legacy") /\ "legacy" \in Whys
      /\ UNCHANGED <<saved, items, total, categories, loaded, debounced, inSearch,
                     hash, arriving, hasLoaded, legacy>>
  BY DEF PressSlash, Whys
<1>2. filter' \in Filters /\ page' \in Pages
  BY <1>1, Link
<1>3. /\ inflight' \subseteq Requests /\ failed' \in BOOLEAN /\ unasked' \in {"no"} \cup Whys
      /\ RequestAsks' /\ ItemsAnswer'
  BY <1>1, NoLoadTells
<1>4. legacy' \in LegacyLinks
  BY <1>1 DEF SearchInvariant
<1> QED
  BY <1>1, <1>2, <1>3, <1>4, Fields, InvariantFrom

\* An answer that is outdated, one for a page there is no more, one shown.
LEMMA SearchAnswersKeeps ==
  ASSUME SearchInvariant, NEW r \in inflight, SearchAnswers(r)
  PROVE  SearchInvariant'
<1> DEFINE rest == inflight \ {r}
<1>1. UNCHANGED <<saved, debounced, inSearch, hash, arriving, hasLoaded, legacy, events>>
  BY DEF SearchAnswers
<1>2. r \in Requests /\ rest \subseteq Requests /\ legacy' \in LegacyLinks
  BY <1>1, Fields DEF SearchInvariant
<1>3. r.filter \in Filters /\ r.page \in Pages
  BY <1>2 DEF Requests
<1>4. PICK offered \in SUBSET Categories, pages \in 0 .. MaxPages :
        /\ Offers(r.filter, offered, pages)
        /\ \/ /\ Outdated(r)
              /\ inflight' = rest
              /\ UNCHANGED <<filter, page, items, total, categories, loaded, failed, unasked>>
           \/ /\ ~Outdated(r) /\ Clamp(page, pages) # page
              /\ page' = Clamp(page, pages)
              /\ UNCHANGED <<filter, items, total, categories, loaded>>
              /\ loadSearchPage(rest)
           \/ /\ ~Outdated(r) /\ Clamp(page, pages) = page
              /\ items' = [filter |-> r.filter, page |-> r.page]
              /\ total' = pages /\ categories' = offered /\ loaded' = TRUE
              /\ renderSearch(filter, page, offered, pages)
              /\ inflight' = rest
              /\ UNCHANGED <<failed, unasked>>
  BY DEF SearchAnswers
<1>5. CASE Outdated(r)
  <2>1. inflight' = rest /\ UNCHANGED <<filter, page, items, total, categories, loaded, failed, unasked>>
    BY <1>4, <1>5
  <2>2. RequestAsks' /\ ItemsAnswer'
    BY <1>1, <1>5, <2>1
    DEF SearchInvariant, RequestAsks, ItemsAnswer, ItemsAnswerControls, Outdated
  <2> QED
    BY <1>1, <1>2, <2>1, <2>2, Fields, InvariantFrom
<1>6. CASE ~Outdated(r) /\ Clamp(page, pages) # page
  <2>1. /\ page' = Clamp(page, pages) /\ UNCHANGED <<filter, items, total, categories, loaded>>
        /\ loadSearchPage(rest)
    BY <1>4, <1>6
  <2>2. filter' \in Filters /\ page' \in Pages
    BY <2>1, Fields, ClampIs
  <2>3. /\ inflight' \subseteq Requests /\ failed' = FALSE /\ unasked' = "no"
        /\ RequestAsks' /\ ItemsAnswer'
    BY <1>2, <2>1, <2>2, LoadAsks
  <2> QED
    BY <1>1, <1>2, <2>1, <2>2, <2>3, Fields, InvariantFrom
<1>7. CASE ~Outdated(r) /\ Clamp(page, pages) = page
  <2>1. /\ items' = [filter |-> r.filter, page |-> r.page]
        /\ total' = pages /\ categories' = offered /\ loaded' = TRUE
        /\ renderSearch(filter, page, offered, pages)
        /\ inflight' = rest
        /\ UNCHANGED <<failed, unasked>>
    BY <1>4, <1>7
  <2>2. /\ filter' \in Filters /\ page' = page /\ r.current
        /\ filter' = IF filter.category \in offered \cup {""} THEN filter
                      ELSE [filter EXCEPT !.category = ""]
    BY <1>7, <2>1, Fields, RenderIs DEF Outdated
  <2>3. \A q \in rest : ~q.current
    BY <2>2 DEF SearchInvariant, RequestAsks
  <2>4. RequestAsks'
    BY <2>1, <2>3 DEF RequestAsks
  <2>5. ItemsAnswer'
    <3> SUFFICES ASSUME ~debounced, unasked = "no" PROVE ItemsAnswerControls'
      BY <1>1, <2>1 DEF ItemsAnswer
    <3>1. items' = [filter |-> filter, page |-> page] /\ r.filter = filter
      BY <2>1, <2>2 DEF SearchInvariant, RequestAsks
    <3>2. CASE filter.category \in offered \cup {""}
      BY <2>2, <3>1, <3>2 DEF ItemsAnswerControls
    <3>3. CASE filter.category \notin offered \cup {""}
      <4> DEFINE c == filter.category
      <4>1. c \in Categories \ offered /\ filter'.category = ""
            /\ filter = [filter' EXCEPT !.category = c]
        BY <2>2, <3>3, Fields DEF Filters
      <4>2. total' = 0
        BY <1>4, <2>1, <3>1, <3>3 DEF Offers
      <4> HIDE DEF c
      <4> QED BY <2>1, <2>2, <3>1, <4>1, <4>2 DEF ItemsAnswerControls
    <3> QED BY <3>2, <3>3
  <2>6. items' \in [filter : Filters, page : Pages]
    BY <1>3, <2>1
  <2> QED
    BY <1>1, <1>2, <2>1, <2>2, <2>4, <2>5, <2>6, Fields, InvariantFrom
<1> QED BY <1>5, <1>6, <1>7

LEMMA SearchFailsKeeps ==
  ASSUME SearchInvariant, NEW r \in inflight, SearchFails(r)
  PROVE  SearchInvariant'
<1>1. /\ inflight' = inflight \ {r} /\ failed' = (failed \/ r.current)
      /\ UNCHANGED <<filter, page, saved, items, total, categories, loaded, debounced,
                     inSearch, hash, arriving, hasLoaded, legacy, unasked>>
  BY DEF SearchFails
<1>2. failed' \in BOOLEAN
  BY <1>1
<1>3. RequestAsks' /\ ItemsAnswer' /\ legacy' \in LegacyLinks
  BY <1>1 DEF SearchInvariant, RequestAsks, ItemsAnswer, ItemsAnswerControls
<1>4. inflight' \subseteq Requests
  BY <1>1, Fields
<1> QED
  BY <1>1, <1>2, <1>3, <1>4, Fields, InvariantFrom

LEMMA RefreshedKeeps ==
  ASSUME SearchInvariant, Refreshed
  PROVE  SearchInvariant'
<1>1. /\ hasLoaded' = TRUE /\ renderSearch(filter, page, categories, total)
      /\ UNCHANGED <<saved, items, total, categories, debounced, inSearch, hash, arriving, legacy>>
  BY DEF Refreshed
<1>2. filter' \in Filters /\ page' \in Pages /\ legacy' \in LegacyLinks
  BY <1>1, Fields, RenderIs DEF SearchInvariant
<1>3. CASE loaded' = FALSE /\ loadSearchPage(inflight)
  <2>1. /\ inflight' \subseteq Requests /\ failed' = FALSE /\ unasked' = "no"
        /\ RequestAsks' /\ ItemsAnswer'
    BY <1>2, <1>3, Fields, LoadAsks
  <2> QED
    BY <1>1, <1>2, <1>3, <2>1, Fields, InvariantFrom
<1>4. CASE UNCHANGED loaded /\ NoLoad("cleared")
  <2>1. "cleared" \in Whys
    BY DEF Whys
  <2>2. /\ inflight' \subseteq Requests /\ failed' \in BOOLEAN /\ unasked' \in {"no"} \cup Whys
        /\ RequestAsks' /\ ItemsAnswer'
    BY <1>1, <1>4, <2>1, NoLoadTells
  <2> QED
    BY <1>1, <1>2, <1>4, <2>2, Fields, InvariantFrom
<1> QED BY <1>3, <1>4 DEF Refreshed

LEMMA RefreshFailedKeeps ==
  ASSUME SearchInvariant, RefreshFailed
  PROVE  SearchInvariant'
<1>1. /\ loaded' = FALSE /\ loadSearchPage(inflight)
      /\ UNCHANGED <<filter, page, saved, items, total, categories, debounced, inSearch,
                     hash, arriving, hasLoaded, legacy>>
  BY DEF RefreshFailed
<1>2. filter' \in Filters /\ page' \in Pages /\ legacy' \in LegacyLinks
  BY <1>1, Fields DEF SearchInvariant
<1>3. /\ inflight' \subseteq Requests /\ failed' = FALSE /\ unasked' = "no"
      /\ RequestAsks' /\ ItemsAnswer'
  BY <1>1, <1>2, Fields, LoadAsks
<1> QED
  BY <1>1, <1>2, <1>3, Fields, InvariantFrom

LEMMA ReloadKeeps ==
  ASSUME SearchInvariant, Reload
  PROVE  SearchInvariant'
<1>1. /\ hash' = hash /\ legacy' = legacy /\ saved' = saved
      /\ filter' = (IF hash = "legacy" THEN legacy.filter ELSE saved)
      /\ page' = (IF hash = "legacy" THEN legacy.page ELSE 1)
      /\ items' = None /\ total' = 0 /\ categories' = {} /\ loaded' = FALSE
      /\ inflight' = {} /\ debounced' = FALSE /\ arriving' = FALSE
      /\ inSearch' = (hash # "elsewhere")
      /\ hasLoaded' = FALSE /\ failed' = FALSE /\ unasked' = "no"
  BY DEF Reload
<1>2. filter' \in Filters /\ page' \in Pages
  BY <1>1, Fields, Link, PagesAre
<1>3. RequestAsks' /\ ItemsAnswer' /\ legacy' \in LegacyLinks
  BY <1>1 DEF SearchInvariant, RequestAsks, ItemsAnswer
<1>4. inSearch' \in BOOLEAN /\ total' \in 0 .. MaxPages
  BY <1>1, PagesAre
<1> QED
  BY <1>1, <1>2, <1>3, <1>4, Fields, InvariantFrom

LEMMA SearchInit == Init => SearchInvariant
<1> SUFFICES ASSUME Init PROVE SearchInvariant
  OBVIOUS
<1>1. PICK old \in LegacyLinks : Open(defaultListFilter, old)
  BY DEF Init
<1>2. old.filter \in Filters /\ old.page \in Pages /\ defaultListFilter \in Filters
  BY LinksAssumption, FilterSet DEF Pages
<1>3. /\ hash \in {"search", "legacy", "elsewhere"} /\ legacy = old
      /\ filter = (IF hash = "legacy" THEN legacy.filter ELSE defaultListFilter)
      /\ page = (IF hash = "legacy" THEN legacy.page ELSE 1)
      /\ saved = defaultListFilter
      /\ items = None /\ total = 0 /\ categories = {} /\ loaded = FALSE
      /\ inflight = {} /\ debounced = FALSE /\ arriving = FALSE
      /\ inSearch = (hash # "elsewhere")
      /\ hasLoaded = FALSE /\ failed = FALSE /\ unasked = "no"
  BY <1>1 DEF Open
<1>4. filter \in Filters /\ page \in Pages
  BY <1>2, <1>3, PagesAre
<1>5. {loaded, debounced, inSearch, arriving, hasLoaded, failed} \subseteq BOOLEAN
  BY <1>3
<1>6. TypeOK
  BY <1>2, <1>3, <1>4, <1>5, PagesAre DEF TypeOK, Pages
<1> QED
  BY <1>3, <1>6 DEF SearchInvariant, RequestAsks, ItemsAnswer

LEMMA SearchStep ==
  ASSUME SearchInvariant, [Next]_vars
  PROVE  SearchInvariant'
<1>1. CASE UNCHANGED vars
  <2>1. UNCHANGED <<filter, page, saved, items, total, categories, loaded, inflight, debounced,
                    inSearch, hash, arriving, hasLoaded, legacy, failed, unasked>>
    BY <1>1 DEF vars
  <2>2. RequestAsks' /\ ItemsAnswer' /\ legacy' \in LegacyLinks
    BY <2>1 DEF SearchInvariant, RequestAsks, ItemsAnswer, ItemsAnswerControls
  <2> QED
    BY <2>1, <2>2, Fields, InvariantFrom
<1> QED
  BY <1>1, ReloadKeeps, TypeTextKeeps, DebounceKeeps, ControlsKeep, TurnPageKeeps,
     FollowChannelLinkKeeps, ChangeAddressKeeps, HashChangeKeeps, PressSlashKeeps,
     SearchAnswersKeeps, SearchFailsKeeps, RefreshedKeeps, RefreshFailedKeeps DEF Next

-----------------------------------------------------------------------------
\* Once nothing is on its way the items shown answer the filter and the page
\* of the controls, in whatever order edits, pages, links and answers come
\* (searchRequestVersion, loadFilteredSearch); or they are the empty answer for
\* a category that this answer did not offer and renderSearch has cleared.
THEOREM SearchStaysInOrder == Spec => []SearchInOrder
<1>1. SearchInvariant => SearchInOrder
  BY DEF SearchInvariant, SearchInOrder, ItemsAnswer, ItemsAnswerFilter, Settled
<1> QED
  BY <1>1, SearchInit, SearchStep, PTL DEF Spec
=============================================================================
