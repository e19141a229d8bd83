---------------------------- MODULE SearchView ----------------------------
(***************************************************************************)
(* The search view of the web client (src/web/app.js): its filter and page *)
(* number, the requests they are sent in, the items shown, and the filter  *)
(* kept in localStorage.                                                   *)
(*                                                                         *)
(* Of the nine fields of the filter three are kept, one of each kind: text *)
(* (the seven fields any value of which stays), category (cleared by the   *)
(* rendering when the last answer does not offer it) and channel (which    *)
(* the channel links of the lists set).  An item list is the filter and    *)
(* the page it answers.  An answer tells of any number of pages and of any *)
(* categories the guide may have at that moment.                           *)
(* searchRequestVersion appears as the field current of a request: no      *)
(* later request has been sent.                                            *)
(***************************************************************************)
EXTENDS Integers

CONSTANTS
  None,        \* no request, no items
  Texts, Categories, Channels,  \* values of the fields, "" apart
  LegacyLinks, \* filters and pages of legacy addresses
  MaxPages,    \* bound: pages of a search
  MaxEvents    \* bound: things the user does, refreshes, failures

Filters == [text : Texts \cup {""}, category : Categories \cup {""},
            channel : Channels \cup {""}]

ASSUME FieldsAssumption == "" \notin Texts \cup Categories \cup Channels
ASSUME LinksAssumption == LegacyLinks \subseteq [filter : Filters, page : 1 .. MaxPages]
ASSUME SearchBoundsAssumption == MaxPages \in Nat \ {0} /\ MaxEvents \in Nat

VARIABLES
  filter,      \* state.listFilters.search
  page,        \* state.searchPage
  saved,       \* the filter in localStorage
  items,       \* state.searchItems: what they answer
  total,       \* pages of state.searchTotal
  categories,  \* state.searchCategories
  loaded,      \* state.searchLoaded
  inflight,    \* the requests not yet answered
  debounced,   \* the timer of loadFilteredSearch is set
  inSearch,    \* state.currentView is "search"
  hash,        \* the address: "search", "legacy" or another view
  arriving,    \* a hashchange event is on its way
  hasLoaded,   \* state.hasLoaded
  legacy,      \* the filter and page of the legacy address
  failed,      \* the last load has failed and said so
  unasked,     \* what changed the filter since the last load was called
  events       \* events so far

vars == <<filter, page, saved, items, total, categories, loaded, inflight, debounced,
          inSearch, hash, arriving, hasLoaded, legacy, failed, unasked, events>>

defaultListFilter == [text |-> "", category |-> "", channel |-> ""]

Clamp(p, pages) == IF p > pages THEN (IF pages > 0 THEN pages ELSE 1) ELSE IF p < 1 THEN 1 ELSE p

\* renderSearch on filter f and page p: a category the last answer did not
\* offer is cleared, the page is brought into what it told of.
renderSearch(f, p, cats, pages) ==
  /\ filter' = IF f.category \in cats \cup {""} THEN f ELSE [f EXCEPT !.category = ""]
  /\ page' = Clamp(p, pages)

\* loadSearchPage with the filter and page of the next state; the requests rs
\* are still on their way.
loadSearchPage(rs) ==
  /\ inflight' = {[r EXCEPT !.current = FALSE] : r \in rs}
                  \cup {[filter |-> filter', page |-> page', current |-> TRUE]}
  /\ failed' = FALSE
  /\ unasked' = "no"

\* Nothing is sent: what has changed has not been asked for.
NoLoad(why) ==
  /\ unasked' = IF <<filter', page'>> = <<filter, page>> THEN unasked ELSE why
  /\ UNCHANGED <<inflight, failed>>

Event == events < MaxEvents /\ events' = events + 1

-----------------------------------------------------------------------------
(* A page is opened at an address; its list filters come from              *)
(* localStorage, those of the search from a legacy address if it is one.   *)

Open(store, old) ==
  /\ hash \in {"search", "legacy", "elsewhere"}
  /\ legacy = old
  /\ filter = IF hash = "legacy" THEN legacy.filter ELSE store
  /\ page = IF hash = "legacy" THEN legacy.page ELSE 1
  /\ saved = store
  /\ items = None
  /\ total = 0
  /\ categories = {}
  /\ loaded = FALSE
  /\ inflight = {}
  /\ debounced = FALSE
  /\ inSearch = (hash # "elsewhere")
  /\ arriving = FALSE
  /\ hasLoaded = FALSE
  /\ failed = FALSE
  /\ unasked = "no"

Init == /\ events = 0
        /\ \E old \in LegacyLinks : Open(defaultListFilter, old)

\* The page is loaded again: Open with what was saved.
Reload ==
  /\ Event
  /\ hash' = hash /\ legacy' = legacy /\ saved' = saved
  /\ filter' = IF hash = "legacy" THEN legacy.filter ELSE saved
  /\ page' = IF hash = "legacy" THEN legacy.page ELSE 1
  /\ items' = None /\ total' = 0 /\ categories' = {} /\ loaded' = FALSE
  /\ inflight' = {} /\ debounced' = FALSE /\ arriving' = FALSE
  /\ inSearch' = (hash # "elsewhere")
  /\ hasLoaded' = FALSE /\ failed' = FALSE /\ unasked' = "no"

-----------------------------------------------------------------------------
(* The controls: bindSearchControls.                                       *)

\* A field is edited: the old items stay until the search is answered.
Edit(f) ==
  /\ Event
  /\ inSearch
  /\ renderSearch(f, 1, categories, total)
  /\ saved' = f
  /\ loaded' = FALSE
  /\ UNCHANGED <<items, total, categories, inSearch, hash, arriving, hasLoaded, legacy>>

\* Typed text: the load waits until 180 ms have gone by without a key.
TypeText ==
  \E t \in Texts \cup {""} :
    /\ t # filter.text
    /\ Edit([filter EXCEPT !.text = t])
    /\ debounced' = TRUE
    /\ UNCHANGED <<inflight, failed, unasked>>

\* Variant: typing does not ask.
OnlyMarked == UNCHANGED <<inflight, failed, unasked>>

SearchTyped == loadSearchPage(inflight)

DebounceElapses ==
  /\ debounced
  /\ debounced' = FALSE
  /\ UNCHANGED <<filter, page>>
  /\ SearchTyped
  /\ UNCHANGED <<saved, items, total, categories, loaded, inSearch, hash, arriving,
                 hasLoaded, legacy, events>>

\* A select offers what the last answer told of; the load is immediate.
Select ==
  /\ \/ \E c \in categories \cup {""} :
          c # filter.category /\ Edit([filter EXCEPT !.category = c])
     \/ \E k \in Channels \cup {""} :
          items # None /\ k # filter.channel /\ Edit([filter EXCEPT !.channel = k])
  /\ loadSearchPage(inflight)
  /\ UNCHANGED debounced

ResetFilter ==
  /\ Edit(defaultListFilter)
  /\ loadSearchPage(inflight)
  /\ UNCHANGED debounced

\* First, previous, next, last; disabled where there is no such page.
TurnPage ==
  /\ Event
  /\ inSearch
  /\ total > 0
  /\ \E p \in {1, page - 1, page + 1, total} :
       /\ p # page /\ p \in 1 .. total
       /\ renderSearch(filter, p, categories, total)
  /\ loadSearchPage(inflight)
  /\ UNCHANGED <<saved, items, total, categories, loaded, debounced, inSearch, hash,
                 arriving, hasLoaded, legacy>>

-----------------------------------------------------------------------------
(* Addresses and links.                                                    *)

\* channelLink, in the rows of any list: the filter is set and rendered; only
\* a change of the address makes a hashchange event.
FollowChannelLink ==
  /\ Event
  /\ hasLoaded
  /\ \E k \in Channels :
       /\ saved' = [filter EXCEPT !.channel = k]
       /\ renderSearch(saved', 1, categories, total)
  /\ hash' = "search"
  /\ arriving' = (arriving \/ hash # "search")
  /\ unasked' = "channel"
  /\ UNCHANGED <<items, total, categories, loaded, inflight, debounced, inSearch,
                 hasLoaded, legacy, failed>>

\* A link to a view, a bookmark of the original program.
ChangeAddress ==
  /\ Event
  /\ \E h \in {"search", "legacy", "elsewhere"} : h # hash /\ hash' = h
  /\ arriving' = TRUE
  /\ UNCHANGED <<filter, page, saved, items, total, categories, loaded, inflight,
                 debounced, inSearch, hasLoaded, legacy, failed, unasked>>

\* hashchange: currentView applies a legacy address, setView enters the view.
HashChange ==
  LET f == IF hash = "legacy" THEN legacy.filter ELSE filter
      p == IF hash = "legacy" THEN legacy.page ELSE page
  IN  /\ arriving
      /\ arriving' = FALSE
      /\ inSearch' = (hash # "elsewhere")
      /\ IF inSearch' /\ hasLoaded
         THEN renderSearch(f, p, categories, total)
         ELSE filter' = f /\ page' = p
      /\ IF inSearch' /\ hasLoaded /\ ~loaded
         THEN loadSearchPage(inflight)
         ELSE NoLoad(IF hash = "legacy" THEN "legacy" ELSE "cleared")
      /\ UNCHANGED <<saved, items, total, categories, loaded, debounced, hash,
                     hasLoaded, legacy, events>>

\* The key "/": focusCurrentSearch asks currentView, which applies a legacy
\* address again; nothing is rendered.
PressSlash ==
  /\ Event
  /\ hash = "legacy"
  /\ filter' = legacy.filter
  /\ page' = legacy.page
  /\ NoLoad("legacy")
  /\ UNCHANGED <<saved, items, total, categories, loaded, debounced, inSearch,
                 hash, arriving, hasLoaded, legacy>>

-----------------------------------------------------------------------------
(* Answers, and the refresh of the client's data.                          *)

\* Variant: every answer is taken.
OutdatedNever(r) == FALSE

Outdated(r) == ~r.current

\* searchPrograms and searchFacets look at the same programs that have not
\* ended: a category that is not offered has none, and without a condition
\* whatever has an offered category is found.
Offers(f, offered, pages) ==
  /\ f.category \notin offered \cup {""} => pages = 0
  /\ f = defaultListFilter /\ offered # {} => pages > 0

\* A page the answer no longer has is asked for again as the last it has.  A
\* category the answer no longer offers is cleared after its (empty) items
\* were taken, and is not asked for again.
SearchAnswers(r) ==
  /\ r \in inflight
  /\ LET rest == inflight \ {r}
     IN  \E offered \in SUBSET Categories, pages \in 0 .. MaxPages :
           /\ Offers(r.filter, offered, pages)
           /\ \/ /\ Outdated(r)
                 /\ inflight' = rest
                 /\ UNCHANGED <<filter, page, items, total, categories, loaded, failed, unasked>>
              \/ /\ ~Outdated(r) /\ Clamp(page, pages) # page
                 /\ page' = Clamp(page, pages)
                 /\ UNCHANGED <<filter, items, total, categories, loaded>>
                 /\ loadSearchPage(rest)
              \/ /\ ~Outdated(r) /\ Clamp(page, pages) = page
                 /\ items' = [filter |-> r.filter, page |-> r.page]
                 /\ total' = pages /\ categories' = offered /\ loaded' = TRUE
                 /\ renderSearch(filter, page, offered, pages)
                 /\ inflight' = rest
                 /\ UNCHANGED <<failed, unasked>>
  /\ UNCHANGED <<saved, debounced, inSearch, hash, arriving, hasLoaded, legacy, events>>

SearchFails(r) ==
  /\ Event
  /\ r \in inflight
  /\ inflight' = inflight \ {r}
  /\ failed' = (failed \/ r.current)
  /\ UNCHANGED <<filter, page, saved, items, total, categories, loaded, debounced,
                 inSearch, hash, arriving, hasLoaded, legacy, unasked>>

\* A refresh has been answered: everything is rendered, and in the search
\* view the search is asked again ...
Refreshed ==
  /\ Event
  /\ hasLoaded' = TRUE
  /\ renderSearch(filter, page, categories, total)
  /\ IF inSearch
     THEN loaded' = FALSE /\ loadSearchPage(inflight)
     ELSE UNCHANGED loaded /\ NoLoad("cleared")
  /\ UNCHANGED <<saved, items, total, categories, debounced, inSearch, hash, arriving, legacy>>

\* ... as it is after a failed one, which renders nothing.
RefreshFailed ==
  /\ Event
  /\ inSearch /\ hasLoaded
  /\ UNCHANGED <<filter, page>>
  /\ loaded' = FALSE /\ loadSearchPage(inflight)
  /\ UNCHANGED <<saved, items, total, categories, debounced, inSearch, hash, arriving,
                 hasLoaded, legacy>>

-----------------------------------------------------------------------------

Next ==
  \/ Reload
  \/ TypeText \/ DebounceElapses \/ Select \/ ResetFilter \/ TurnPage
  \/ FollowChannelLink \/ ChangeAddress \/ HashChange \/ PressSlash
  \/ \E r \in inflight : SearchAnswers(r) \/ SearchFails(r)
  \/ Refreshed \/ RefreshFailed

\* Timers, events and answers arrive; nothing is assumed of the user.
Fairness == WF_vars(DebounceElapses) /\ WF_vars(HashChange) /\ WF_vars(\E r \in inflight : SearchAnswers(r))

Spec == Init /\ [][Next]_vars /\ Fairness

-----------------------------------------------------------------------------
(* Properties.                                                             *)

\* Type invariant; a page number is one there can be.
TypeOK ==
  /\ filter \in Filters /\ saved \in Filters
  /\ page \in 1 .. MaxPages
  /\ total \in 0 .. MaxPages
  /\ items \in [filter : Filters, page : 1 .. MaxPages] \cup {None}
  /\ inflight \subseteq [filter : Filters, page : 1 .. MaxPages, current : BOOLEAN]
  /\ categories \subseteq Categories
  /\ unasked \in {"no", "channel", "legacy", "cleared"}
  /\ hash \in {"search", "legacy", "elsewhere"}
  /\ {loaded, debounced, inSearch, arriving, hasLoaded, failed} \subseteq BOOLEAN

Settled == (\A r \in inflight : ~r.current) /\ ~debounced /\ ~arriving

\* The items are those of the filter and page of the controls, or the empty
\* answer for a category that the guide has lost and the controls no longer
\* show (the answer that brought it cleared it).
ItemsAnswerControls ==
  \/ items = [filter |-> filter, page |-> page]
  \/ /\ total = 0 /\ filter.category = ""
     /\ \E c \in Categories \ categories :
           items = [filter |-> [filter EXCEPT !.category = c], page |-> page]

\* The items shown are those of the filter and the page shown, once nothing
\* is on its way: whatever the order in which the user edits, turns pages and
\* is answered, and unless an error was shown or a link changed the filter.
\* The one exception of the code is a category no longer on offer.
ItemsAnswerFilter ==
  Settled /\ loaded /\ ~failed /\ unasked = "no" => ItemsAnswerControls

\* Both, the types and the answer shown.
SearchInOrder == TypeOK /\ ItemsAnswerFilter

\* What the user types is searched for: in the end the items answer the
\* controls, however many answers and refreshes come between, or an error was
\* shown, a link has changed the filter, or the page was loaded anew.
TypingIsAnswered ==
  debounced ~> (\/ loaded /\ ItemsAnswerControls
                \/ failed \/ unasked # "no" \/ ~hasLoaded)

\* What the view says of itself (index.html:208), that it searches the guide
\* for the upcoming programs that meet the conditions: with no condition set
\* and a category on offer there is a program in the list.
NoConditionFindsPrograms ==
  Settled /\ loaded /\ ~failed /\ unasked = "no"
    /\ filter = defaultListFilter /\ categories # {} => total > 0

=============================================================================
