------------------------------- MODULE Cards -------------------------------
(***************************************************************************)
(* The two other lists of the dashboard, NodeList and KernelSpecCard, each *)
(* in turn: the refreshes of its provider, the handler that takes a new    *)
(* listing, the parent that builds it again at each of its Renders, and    *)
(* the clicks of the user.                                                 *)
(*                                                                         *)
(* The component keeps an index (the selected tab or radio button) and, in *)
(* a NodeList, a map of expanded rows, while its list is replaced by two   *)
(* parties: by the handler, in the goroutine of a refresh, and by go-app,  *)
(* which copies the exported list of the component the parent has built.   *)
(* That one reads the provider's map key by key, at any moment of a        *)
(* refresh, which may end before the copy is made: a half filled list then *)
(* replaces the complete one of the handler (stale).                       *)
(***************************************************************************)
EXTENDS Naturals, Sequences, FiniteSets, SequencesExt

CONSTANT Items  \* node ids or spec names, in their order

ASSUME ItemsAssumption == Items \subseteq Nat /\ IsFiniteSet(Items)

VARIABLES
    kind,           \* the component: "nodes" or "specs"
    provided,       \* the keys of the provider's map
    answer,         \* what the running refresh was answered
    refresh,        \* "idle", "clearing", "filling" or "handling"
    incoming,       \* the listing given to the handler
    copied,         \* rows whose expanded flag the handler has copied
    refreshedExpanded,
    list,           \* Nodes or KernelSpecs
    expanded,       \* the ids whose entry is true
    selectedIdx,    \* selectedIdx or selectedKernelSpecIndex
    build,          \* the parent's new component: "none" in the making,
                    \* "clean" or, when a refresh ran meanwhile, "overlapped"
    unread,         \* keys its constructor has not come to
    draft,          \* rows it has found
    display,        \* the list of the last Render
    dirty,          \* a Render is scheduled
    crashed,
    shrunk,         \* history: the list was replaced by a shorter one
    touched,        \* history: rows clicked while the handler runs
    stale           \* history: the list was copied from an overlapped build

providerVars == <<provided, answer, refresh>>
handlerVars == <<incoming, copied, refreshedExpanded>>
cardVars == <<list, expanded, selectedIdx, display, dirty, crashed>>
buildVars == <<build, unread, draft>>
historyVars == <<shrunk, touched, stale>>
vars == <<kind, providerVars, handlerVars, cardVars, buildVars, historyVars>>

\* The lists made of a set of resources: nodes are sorted by id, specs stay in
\* the order in which the map yields them.
Listings(S) ==
    {l \in SetToSeqs(S) :
        kind = "nodes" => \A i, j \in 1 .. Len(l) : i < j => l[i] < l[j]}

Init ==
    /\ kind \in {"nodes", "specs"}
    /\ provided \in SUBSET Items
    /\ answer = {}
    /\ refresh = "idle"
    /\ incoming = <<>>
    /\ copied = 0
    /\ refreshedExpanded = {}
    /\ list \in Listings(provided)
    /\ expanded = {}
    /\ selectedIdx = 0
    /\ display = <<>>
    /\ dirty = TRUE
    /\ crashed = FALSE
    /\ build = "none" /\ unread = {} /\ draft = {}
    /\ shrunk = FALSE
    /\ touched = {}
    /\ stale = FALSE

Replace(l) ==
    /\ list' = l
    /\ shrunk' = (shrunk \/ Len(l) < Len(list))

-----------------------------------------------------------------------------
(* The goroutine of a refresh. *)

\* A query has been answered: what is being built is overlapped from now on.
BeginRefresh(S) ==
    /\ ~crashed
    /\ refresh = "idle"
    /\ answer' = S
    /\ refresh' = "clearing"
    /\ build' = IF build = "none" THEN "none" ELSE "overlapped"
    /\ UNCHANGED <<kind, provided, handlerVars, cardVars, unread, draft,
                   historyVars>>

ClearKey(k) ==
    /\ ~crashed
    /\ refresh = "clearing"
    /\ k \in provided
    /\ provided' = provided \ {k}
    /\ UNCHANGED <<kind, answer, refresh, handlerVars, cardVars, buildVars,
                   historyVars>>

Cleared ==
    /\ ~crashed
    /\ refresh = "clearing"
    /\ provided = {}
    /\ refresh' = "filling"
    /\ UNCHANGED <<kind, provided, answer, handlerVars, cardVars, buildVars,
                   historyVars>>

StoreKey(k) ==
    /\ ~crashed
    /\ refresh = "filling"
    /\ k \in answer \ provided
    /\ provided' = provided \cup {k}
    /\ UNCHANGED <<kind, answer, refresh, handlerVars, cardVars, buildVars,
                   historyVars>>

\* RefreshOccurred lists the map and calls the handler, which sorts nodes.
Notify ==
    /\ ~crashed
    /\ refresh = "filling"
    /\ provided = answer
    /\ incoming' \in Listings(provided)
    /\ refresh' = "handling"
    /\ UNCHANGED <<kind, provided, answer, copied, refreshedExpanded, cardVars,
                   buildVars, historyVars>>

\* One turn of handleNodesRefreshed's loop.
CopyExpanded ==
    /\ ~crashed
    /\ kind = "nodes"
    /\ refresh = "handling"
    /\ copied < Len(incoming)
    /\ copied' = copied + 1
    /\ refreshedExpanded' =
          refreshedExpanded \cup ({incoming[copied + 1]} \cap expanded)
    /\ UNCHANGED <<kind, providerVars, incoming, cardVars, buildVars, historyVars>>

Handled(newExpanded, update) ==
    /\ ~crashed
    /\ refresh = "handling"
    /\ kind = "nodes" => copied = Len(incoming)
    /\ Replace(incoming)
    /\ expanded' = newExpanded
    /\ dirty' = (dirty \/ update)
    /\ refresh' = "idle"
    /\ answer' = {} /\ incoming' = <<>> /\ copied' = 0 /\ refreshedExpanded' = {}
    /\ touched' = {}
    /\ stale' = FALSE
    /\ UNCHANGED <<kind, provided, selectedIdx, display, crashed, buildVars>>

\* Mutants: the rows collapse at each refresh; no Update.
FinishCollapsed == Handled({}, TRUE)
FinishQuietly == Handled(refreshedExpanded, FALSE)

\* The handler assigns what it has made, calls Update and answers true.
Finish == Handled(refreshedExpanded, TRUE)

-----------------------------------------------------------------------------
(* The UI goroutine.  While a constructor waits for the map, it takes       *)
(* neither frames nor events.                                              *)

\* Mutant: the body of the card is rendered for an empty list too.
ShowUnguarded(l) ==
    /\ display' = l
    /\ dirty' = FALSE
    /\ crashed' = (kind = "specs" /\ selectedIdx >= Len(l))

\* The body of the card shows the selected spec; no body for an empty list.
Show(l) ==
    /\ display' = l
    /\ dirty' = FALSE
    /\ crashed' = (kind = "specs" /\ l # <<>> /\ selectedIdx >= Len(l))

Idle == ~crashed /\ build = "none"

Render ==
    /\ Idle
    /\ dirty
    /\ Show(list)
    /\ UNCHANGED <<kind, providerVars, handlerVars, list, expanded, selectedIdx,
                   buildVars, historyVars>>

\* getPhaseThreeUI calls the constructor again.
ParentRenders ==
    /\ Idle
    /\ build' = IF refresh = "idle" THEN "clean" ELSE "overlapped"
    /\ unread' = Items
    /\ UNCHANGED <<kind, providerVars, handlerVars, cardVars, draft, historyVars>>

\* Resources reads the map, one shard after the other.
ReadKey(k) ==
    /\ ~crashed
    /\ k \in unread
    /\ unread' = unread \ {k}
    /\ draft' = draft \cup ({k} \cap provided)
    /\ UNCHANGED <<kind, providerVars, handlerVars, cardVars, build, historyVars>>

\* go-app copies the list of the new component into the mounted one, which
\* keeps its index and its map, and renders it.
CopyFields ==
    /\ ~crashed
    /\ build # "none"
    /\ unread = {}
    /\ \E l \in Listings(draft) : Replace(l) /\ Show(l)
    /\ stale' = (build = "overlapped")
    /\ build' = "none"
    /\ draft' = {}
    /\ UNCHANGED <<kind, providerVars, handlerVars, expanded, selectedIdx, unread,
                   touched>>

\* Mutant: tabs counted from one.
SelectFromOne(i) ==
    /\ Idle
    /\ i < Len(display)
    /\ selectedIdx' = i + 1
    /\ dirty' = TRUE
    /\ UNCHANGED <<kind, providerVars, handlerVars, list, expanded, display,
                   crashed, buildVars, historyVars>>

\* A click on a tab, or on a radio button of a NodeList.
Select(i) ==
    /\ Idle
    /\ i < Len(display)
    /\ selectedIdx' = i
    /\ dirty' = TRUE
    /\ UNCHANGED <<kind, providerVars, handlerVars, list, expanded, display,
                   crashed, buildVars, historyVars>>

\* A click on the expand button of a row on display.
ToggleExpanded(n) ==
    /\ Idle
    /\ kind = "nodes"
    /\ n \in ToSet(display)
    /\ expanded' = IF n \in expanded THEN expanded \ {n} ELSE expanded \cup {n}
    /\ touched' = IF refresh = "handling" THEN touched \cup {n} ELSE touched
    /\ dirty' = TRUE
    /\ UNCHANGED <<kind, providerVars, handlerVars, list, selectedIdx, display,
                   crashed, buildVars, shrunk, stale>>

-----------------------------------------------------------------------------
RefreshStep ==
    \/ \E k \in Items : ClearKey(k) \/ StoreKey(k)
    \/ Cleared \/ Notify \/ CopyExpanded \/ Finish

BuildStep == CopyFields \/ \E k \in Items : ReadKey(k)

Next ==
    \/ \E S \in SUBSET Items : BeginRefresh(S)
    \/ RefreshStep \/ Render \/ ParentRenders \/ BuildStep
    \/ \E i \in 0 .. Cardinality(Items) - 1 : Select(i)
    \/ \E n \in Items : ToggleExpanded(n)

\* The scheduler runs the goroutine of a refresh and a constructor that has been
\* called, and go-app renders what is scheduled.
Spec ==
    /\ Init /\ [][Next]_vars
    /\ WF_vars(RefreshStep) /\ WF_vars(Render) /\ WF_vars(BuildStep)

-----------------------------------------------------------------------------
(* Properties. *)

\* Type correctness; lists have no duplicates.
TypeOK ==
    /\ kind \in {"nodes", "specs"}
    /\ provided \subseteq Items
    /\ answer \subseteq Items
    /\ refresh \in {"idle", "clearing", "filling", "handling"}
    /\ \A l \in {incoming, list, display} : l \in Seq(Items) /\ IsInjective(l)
    /\ copied \in 0 .. Len(incoming)
    /\ refreshedExpanded \subseteq ToSet(incoming)
    /\ expanded \subseteq Items
    /\ selectedIdx \in Nat
    /\ touched \subseteq Items
    /\ build \in {"none", "clean", "overlapped"}
    /\ unread \subseteq Items /\ draft \subseteq Items
    /\ build = "none" => unread = {} /\ draft = {}
    /\ stale \in BOOLEAN
    /\ dirty \in BOOLEAN /\ crashed \in BOOLEAN /\ shrunk \in BOOLEAN

\* The card indexes its list with a tab chosen on an earlier one.  However
\* refreshes, parent Renders and clicks interleave, the index is out of range
\* only after a shorter list has replaced a longer one.
PanicNeedsShorterList == crashed => shrunk

\* A refresh neither expands nor collapses a row that stays, unless the user
\* clicked it while the handler was copying the flags.
ExpansionSurvives ==
    [][Finish => \A n \in ToSet(incoming) \ touched :
                     n \in expanded' <=> n \in expanded]_vars

\* When the refreshes cease, the page comes to show what the provider has,
\* however often the parent has copied a half filled list in between, unless
\* the last list to be copied was built while a refresh ran.
DisplayCatchesUp ==
    <>[](refresh = "idle" /\ ~stale) => <>[](crashed \/ ToSet(display) = provided)

-----------------------------------------------------------------------------
(* The inductive invariant behind PanicNeedsShorterList and                 *)
(* ExpansionSurvives.                                                       *)

\* As long as no list has shrunk, the rows on display are all in the list, and
\* so is the selected one.
IndexInRange ==
    ~shrunk => /\ Len(display) <= Len(list)
               /\ selectedIdx = 0 \/ selectedIdx < Len(list)

\* A handler at rest holds nothing.
HandlerAtRest ==
    refresh # "handling" =>
        incoming = <<>> /\ copied = 0 /\ refreshedExpanded = {} /\ touched = {}

\* The flags copied so far are those of the rows, but for the clicked ones.
FlagsCopied ==
    /\ refreshedExpanded \subseteq {incoming[i] : i \in 1 .. copied}
    /\ \A i \in 1 .. copied : incoming[i] \notin touched =>
          (incoming[i] \in refreshedExpanded <=> incoming[i] \in expanded)

\* Only rows of a NodeList expand.
OnlyNodesExpand == kind = "specs" => expanded = {} /\ refreshedExpanded = {}

\* What the parent builds while no refresh runs has the rows it has read.
BuildIsCurrent ==
    build = "clean" => refresh = "idle" /\ draft = provided \ unread

\* Between refreshes the list has the provider's resources, unless it was built
\* during one, and what is not on display yet will be: no Update is lost.
ListIsCurrent ==
    /\ refresh = "idle" /\ ~stale => ToSet(list) = provided
    /\ refresh = "handling" => ToSet(incoming) = provided
    /\ dirty \/ display = list

\* Type correctness, what the index and the flags of the rows rely on, and that
\* the list is kept up to date.
IInv ==
    /\ TypeOK
    /\ PanicNeedsShorterList
    /\ IndexInRange
    /\ HandlerAtRest
    /\ FlagsCopied
    /\ OnlyNodesExpand
    /\ BuildIsCurrent
    /\ ListIsCurrent
=============================================================================
