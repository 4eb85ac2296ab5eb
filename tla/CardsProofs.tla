----------------------------- MODULE CardsProofs -----------------------------
(* Theorems about Cards, for every set of nodes or kernel specs.           *)
EXTENDS Cards, FiniteSetTheorems, SequenceTheorems, TLAPS

\* A listing is a sequence of items without duplicates.
LEMMA ListingType ==
    ASSUME NEW S \in SUBSET Items, NEW l \in Listings(S)
    PROVE  l \in Seq(Items) /\ IsInjective(l)
<1>1. Cardinality(S) \in Nat
      BY ItemsAssumption, FS_Subset, FS_CardinalityType
<1>2. /\ l \in [1 .. Cardinality(S) -> S]
      /\ \A i, j \in 1 .. Cardinality(S) : i # j => l[i] # l[j]
      BY DEF Listings, SetToSeqs
<1>3. l \in Seq(S)
      BY <1>1, <1>2, SeqDef
<1>4. l \in Seq(Items)
      BY <1>3, SeqMonotonic
<1>5. IsInjective(l)
      BY <1>2 DEF IsInjective
<1>6. QED BY <1>4, <1>5

\* A listing has all of them.
LEMMA ListingIsComplete ==
    ASSUME NEW S \in SUBSET Items, NEW l \in Listings(S)
    PROVE  ToSet(l) = S
<1> DEFINE n == Cardinality(S)
<1>1. IsFiniteSet(S) /\ n \in Nat
      BY ItemsAssumption, FS_Subset, FS_CardinalityType
<1>2. l \in Injection(1 .. n, S)
      BY DEF Listings, SetToSeqs, Injection, IsInjective
<1>3. Cardinality(1 .. n) = Cardinality(S)
      BY <1>1, FS_Interval
<1>4. l \in Surjection(1 .. n, S)
      BY <1>1, <1>2, <1>3, FS_Injection
<1>5. QED BY <1>4 DEF Surjection, ToSet

LEMMA NoRows == <<>> \in Seq(Items) /\ IsInjective(<<>>) /\ Len(<<>>) = 0
BY EmptySeq DEF IsInjective

\* The rows of a list, by their positions.
LEMMA RowsOf ==
    ASSUME NEW l \in Seq(Items)
    PROVE  /\ Len(l) \in Nat
           /\ ToSet(l) = {l[i] : i \in 1 .. Len(l)}
           /\ \A i \in 1 .. Len(l) : l[i] \in Items
BY LenProperties, ElementOfSeq DEF ToSet

\* What happens in the goroutine of a refresh before the handler is called, and
\* in the UI goroutine.
Querying ==
    \/ \E S \in SUBSET Items : BeginRefresh(S)
    \/ \E k \in Items : ClearKey(k) \/ StoreKey(k)
    \/ Cleared

Clicks ==
    \/ \E i \in 0 .. Cardinality(Items) - 1 : Select(i)
    \/ \E n \in Items : ToggleExpanded(n)

\* A new component in the making.
Building == ParentRenders \/ \E k \in Items : ReadKey(k)

LEMMA NextCases ==
    ASSUME [Next]_vars
    PROVE  \/ Querying \/ Notify \/ CopyExpanded \/ Finish
           \/ Render \/ Building \/ CopyFields \/ Clicks \/ UNCHANGED vars
BY DEF Next, RefreshStep, BuildStep, Querying, Building, Clicks

LEMMA ItemsAreFinite == Cardinality(Items) \in Nat
BY ItemsAssumption, FS_CardinalityType

-----------------------------------------------------------------------------
(* Type correctness. *)

LEMMA TypeInit == Init => TypeOK /\ HandlerAtRest
<1> SUFFICES ASSUME Init PROVE TypeOK /\ HandlerAtRest
    OBVIOUS
<1>1. list \in Seq(Items) /\ IsInjective(list)
      BY ListingType DEF Init
<1>2. \A l \in {incoming, list, display} : l \in Seq(Items) /\ IsInjective(l)
      BY <1>1, NoRows DEF Init
<1>3. copied \in 0 .. Len(incoming) /\ refreshedExpanded \subseteq ToSet(incoming)
      BY NoRows DEF Init
<1>4. QED BY <1>2, <1>3 DEF Init, TypeOK, HandlerAtRest

LEMMA TypeNext == TypeOK /\ HandlerAtRest /\ [Next]_vars => TypeOK' /\ HandlerAtRest'
<1> SUFFICES ASSUME TypeOK, HandlerAtRest, [Next]_vars
             PROVE  TypeOK' /\ HandlerAtRest'
    OBVIOUS
<1> USE DEF TypeOK, HandlerAtRest, buildVars, historyVars
<1>1. CASE Querying
      BY <1>1 DEF Querying, BeginRefresh, ClearKey, StoreKey, Cleared, handlerVars,
                  cardVars
<1>2. CASE Notify
  <2>1. incoming' \in Seq(Items) /\ IsInjective(incoming')
        BY <1>2, ListingType DEF Notify
  <2>2. copied' = 0 /\ refreshedExpanded' = {} /\ Len(incoming') \in Nat
        BY <1>2, <2>1, RowsOf DEF Notify
  <2>3. QED BY <1>2, <2>1, <2>2 DEF Notify, cardVars
<1>3. CASE CopyExpanded
  <2>1. copied' \in 0 .. Len(incoming') /\ copied + 1 \in 1 .. Len(incoming)
        BY <1>3, RowsOf DEF CopyExpanded
  <2>2. incoming[copied + 1] \in ToSet(incoming)
        BY <2>1, RowsOf
  <2>3. QED BY <1>3, <2>1, <2>2 DEF CopyExpanded, providerVars, cardVars
<1>4. CASE Finish
  <2>1. refreshedExpanded \subseteq Items
        BY RowsOf
  <2>2. copied' \in 0 .. Len(incoming') /\ refreshedExpanded' \subseteq ToSet(incoming')
        BY <1>4, NoRows DEF Finish, Handled
  <2>3. \A l \in {incoming', list', display'} : l \in Seq(Items) /\ IsInjective(l)
        BY <1>4, NoRows DEF Finish, Handled, Replace
  <2>4. QED BY <1>4, <2>1, <2>2, <2>3 DEF Finish, Handled, Replace
<1>5. CASE Render
      BY <1>5 DEF Render, Show, providerVars, handlerVars
<1>6. CASE CopyFields
  <2>1. PICK l \in Listings(draft) : Replace(l) /\ Show(l)
        BY <1>6 DEF CopyFields
  <2>2. l \in Seq(Items) /\ IsInjective(l)
        BY <2>1, ListingType
  <2>3. QED BY <1>6, <2>1, <2>2 DEF CopyFields, Replace, Show, providerVars,
                                    handlerVars
<1>7. CASE Clicks
  <2>1. ASSUME NEW i \in 0 .. Cardinality(Items) - 1, Select(i)
        PROVE  TypeOK' /\ HandlerAtRest'
    <3>1. i \in Nat
          BY ItemsAreFinite
    <3>2. QED BY <2>1, <3>1 DEF Select, Idle, providerVars, handlerVars
  <2>2. ASSUME NEW n \in Items, ToggleExpanded(n) PROVE TypeOK' /\ HandlerAtRest'
        BY <2>2 DEF ToggleExpanded, Idle, providerVars, handlerVars
  <2>3. QED BY <1>7, <2>1, <2>2 DEF Clicks
<1>8. CASE Building
      BY <1>8 DEF Building, ParentRenders, ReadKey, Idle, providerVars, handlerVars,
                  cardVars, historyVars
<1>9. CASE UNCHANGED vars
      BY <1>9 DEF vars, providerVars, handlerVars, cardVars, buildVars, historyVars
<1>10. QED BY <1>1, <1>2, <1>3, <1>4, <1>5, <1>6, <1>7, <1>8, <1>9, NextCases

-----------------------------------------------------------------------------
(* The selected index. *)

\* The lengths of the lists are numbers.
LEMMA Lengths ==
    ASSUME TypeOK
    PROVE  Len(list) \in Nat /\ Len(display) \in Nat /\ Len(incoming) \in Nat
BY RowsOf DEF TypeOK

\* A list that is not shorter keeps the index in its range.
LEMMA ShowInRange ==
    ASSUME TypeOK, IndexInRange, PanicNeedsShorterList,
           NEW l \in Seq(Items), Replace(l), Show(l), UNCHANGED selectedIdx
    PROVE  IndexInRange' /\ PanicNeedsShorterList'
<1>1. Len(list) \in Nat /\ Len(display) \in Nat /\ Len(l) \in Nat
      BY Lengths, RowsOf
<1>2. l # <<>> => Len(l) > 0
      BY <1>1, EmptySeq
<1>3. selectedIdx \in Nat /\ shrunk \in BOOLEAN
      BY DEF TypeOK
<1>4. list' = l /\ display' = l
      BY DEF Replace, Show
<1>5. ~shrunk' => ~shrunk /\ ~(Len(l) < Len(list))
      BY Zenon DEF Replace
<1>6. IndexInRange'
      BY <1>1, <1>3, <1>4, <1>5 DEF IndexInRange
<1>7. ~shrunk' => l = <<>> \/ selectedIdx < Len(l)
      BY <1>1, <1>2, <1>3, <1>5 DEF IndexInRange
<1>8. crashed' => l # <<>> /\ selectedIdx >= Len(l)
      BY DEF Show
<1>9. QED BY <1>1, <1>3, <1>6, <1>7, <1>8 DEF PanicNeedsShorterList

LEMMA IndexNext ==
    ASSUME TypeOK, IndexInRange, PanicNeedsShorterList, [Next]_vars
    PROVE  IndexInRange' /\ PanicNeedsShorterList'
<1>1. CASE Querying \/ Notify \/ CopyExpanded \/ Building
  <2>1. UNCHANGED <<list, display, selectedIdx, crashed, shrunk>>
        BY <1>1 DEF Querying, BeginRefresh, ClearKey, StoreKey, Cleared, Notify,
                    CopyExpanded, Building, ParentRenders, ReadKey, cardVars,
                    historyVars
  <2>2. QED BY <2>1 DEF IndexInRange, PanicNeedsShorterList
<1>2. CASE Finish
  <2>1. /\ list' = incoming
        /\ ~shrunk' => ~shrunk /\ ~(Len(incoming) < Len(list))
        /\ shrunk => shrunk'
        /\ UNCHANGED <<display, selectedIdx, crashed>>
        BY <1>2, Zenon DEF Finish, Handled, Replace
  <2>2. selectedIdx \in Nat /\ shrunk \in BOOLEAN
        BY DEF TypeOK
  <2>3. IndexInRange'
        BY <2>1, <2>2, Lengths DEF IndexInRange
  <2>4. QED BY <2>1, <2>3 DEF PanicNeedsShorterList
<1>3. CASE Render
  <2>1. /\ UNCHANGED <<list, selectedIdx, shrunk>>
        /\ display' = list
        /\ crashed' => list # <<>> /\ selectedIdx >= Len(list)
        BY <1>3 DEF Render, Show, historyVars
  <2>2. list # <<>> => Len(list) > 0
        BY EmptySeq DEF TypeOK
  <2>3. selectedIdx \in Nat /\ Len(list) \in Nat
        BY Lengths DEF TypeOK
  <2>4. QED BY <2>1, <2>2, <2>3 DEF IndexInRange, PanicNeedsShorterList
<1>4. CASE CopyFields
  <2>1. PICK l \in Listings(draft) : Replace(l) /\ Show(l)
        BY <1>4 DEF CopyFields
  <2>2. l \in Seq(Items)
        BY <2>1, ListingType DEF TypeOK
  <2>3. QED BY <1>4, <2>1, <2>2, ShowInRange DEF CopyFields
<1>5. ASSUME NEW i \in 0 .. Cardinality(Items) - 1, Select(i)
      PROVE  IndexInRange' /\ PanicNeedsShorterList'
  <2>1. /\ i < Len(display) /\ selectedIdx' = i
        /\ UNCHANGED <<list, display, crashed, shrunk>>
        BY <1>5 DEF Select, historyVars
  <2>2. i \in Int
        BY ItemsAreFinite
  <2>3. QED BY <2>1, <2>2, Lengths DEF IndexInRange, PanicNeedsShorterList
<1>6. ASSUME NEW n \in Items, ToggleExpanded(n)
      PROVE  IndexInRange' /\ PanicNeedsShorterList'
      BY <1>6 DEF ToggleExpanded, IndexInRange, PanicNeedsShorterList
<1>7. CASE UNCHANGED vars
      BY <1>7 DEF vars, cardVars, historyVars, IndexInRange, PanicNeedsShorterList
<1>8. QED BY <1>1, <1>2, <1>3, <1>4, <1>5, <1>6, <1>7, NextCases DEF Clicks

-----------------------------------------------------------------------------
(* The expanded rows. *)

LEMMA FlagsNext ==
    ASSUME TypeOK, HandlerAtRest, FlagsCopied, OnlyNodesExpand, [Next]_vars
    PROVE  FlagsCopied' /\ OnlyNodesExpand'
<1> USE DEF FlagsCopied, OnlyNodesExpand, historyVars
<1>1. CASE Querying \/ Render \/ Building \/ CopyFields
      BY <1>1 DEF Querying, BeginRefresh, ClearKey, StoreKey, Cleared, handlerVars,
                  cardVars, Render, Building, ParentRenders, ReadKey, CopyFields
<1>2. CASE Notify
  <2>1. copied' = 0 /\ UNCHANGED <<kind, refreshedExpanded, expanded>>
        /\ refreshedExpanded = {}
        BY <1>2 DEF Notify, cardVars, HandlerAtRest
  <2>2. QED BY <2>1
<1>3. CASE CopyExpanded
  <2> DEFINE row == incoming[copied + 1]
  <2>1. /\ copied \in Nat /\ copied + 1 \in 1 .. Len(incoming)
        /\ copied' = copied + 1
        /\ refreshedExpanded' = refreshedExpanded \cup ({row} \cap expanded)
        /\ UNCHANGED <<incoming, expanded, touched, kind>>
        BY <1>3, Lengths DEF CopyExpanded, cardVars, TypeOK
  <2>2. \A i \in 1 .. copied : incoming[i] # row
    <3>1. IsInjective(incoming) /\ DOMAIN incoming = 1 .. Len(incoming)
          BY LenProperties DEF TypeOK
    <3>2. QED BY <2>1, <3>1, Lengths DEF IsInjective
  <2>3. row \notin refreshedExpanded
        BY <2>2
  <2>4. 1 .. copied' = (1 .. copied) \cup {copied + 1}
        BY <2>1
  <2>5. ASSUME NEW i \in 1 .. copied', incoming'[i] \notin touched'
        PROVE  incoming'[i] \in refreshedExpanded' <=> incoming'[i] \in expanded'
    <3>1. CASE i \in 1 .. copied
          BY <2>1, <2>2, <2>5, <3>1
    <3>2. CASE i = copied + 1
          BY <2>1, <2>3, <3>2
    <3>3. QED BY <2>4, <3>1, <3>2
  <2>6. refreshedExpanded' \subseteq {incoming'[i] : i \in 1 .. copied'}
    <3>1. {incoming[i] : i \in 1 .. copied} \subseteq {incoming'[i] : i \in 1 .. copied'}
          BY <2>1, <2>4
    <3>2. row \in {incoming'[i] : i \in 1 .. copied'}
          BY <2>1, <2>4
    <3>3. QED BY <2>1, <3>1, <3>2
  <2>7. OnlyNodesExpand'
        BY <2>1
  <2>8. QED BY <2>5, <2>6, <2>7
<1>4. CASE Finish
  <2>1. /\ copied' = 0 /\ refreshedExpanded' = {} /\ UNCHANGED kind
        /\ expanded' = refreshedExpanded
        BY <1>4 DEF Finish, Handled
  <2>2. QED BY <2>1
<1>5. ASSUME NEW i \in 0 .. Cardinality(Items) - 1, Select(i)
      PROVE  FlagsCopied' /\ OnlyNodesExpand'
      BY <1>5 DEF Select, handlerVars
<1>6. ASSUME NEW n \in Items, ToggleExpanded(n)
      PROVE  FlagsCopied' /\ OnlyNodesExpand'
  <2>1. /\ kind' = "nodes"
        /\ UNCHANGED <<incoming, copied, refreshedExpanded, refresh>>
        /\ \A k : k # n => (k \in expanded' <=> k \in expanded)
        /\ refresh = "handling" => touched' = touched \cup {n}
        BY <1>6 DEF ToggleExpanded, handlerVars, providerVars, TypeOK
  <2>2. CASE refresh = "handling"
        BY <2>1, <2>2
  <2>3. CASE refresh # "handling"
        BY <2>1, <2>3 DEF HandlerAtRest
  <2>4. QED BY <2>2, <2>3
<1>7. CASE UNCHANGED vars
      BY <1>7 DEF vars, handlerVars, cardVars
<1>8. QED BY <1>1, <1>2, <1>3, <1>4, <1>5, <1>6, <1>7, NextCases DEF Clicks

-----------------------------------------------------------------------------
(* Keeping up to date. *)

\* Only a refresh writes the map, and its first step marks what is being built.
LEMMA BuildNext ==
    ASSUME TypeOK, BuildIsCurrent, [Next]_vars
    PROVE  BuildIsCurrent'
<1> USE DEF BuildIsCurrent, TypeOK
<1>1. CASE Querying
      BY <1>1 DEF Querying, BeginRefresh, ClearKey, StoreKey, Cleared, buildVars
<1>2. CASE Notify \/ CopyExpanded \/ Finish
      BY <1>2 DEF Notify, CopyExpanded, Finish, Handled, providerVars, buildVars
<1>3. CASE Render \/ Clicks
      BY <1>3 DEF Render, Clicks, Select, ToggleExpanded, providerVars, buildVars
<1>4. CASE Building
      BY <1>4 DEF Building, ParentRenders, ReadKey, Idle, providerVars
<1>5. CASE CopyFields
      BY <1>5 DEF CopyFields
<1>6. CASE UNCHANGED vars
      BY <1>6 DEF vars, providerVars, buildVars
<1>7. QED BY <1>1, <1>2, <1>3, <1>4, <1>5, <1>6, NextCases

LEMMA CurrentNext ==
    ASSUME TypeOK, BuildIsCurrent, ListIsCurrent, [Next]_vars
    PROVE  ListIsCurrent'
<1> USE DEF ListIsCurrent, historyVars
<1>1. CASE Querying
      BY <1>1 DEF Querying, BeginRefresh, ClearKey, StoreKey, Cleared, cardVars
<1>2. CASE Notify
  <2>1. ToSet(incoming') = provided
        BY <1>2, ListingIsComplete DEF Notify, TypeOK
  <2>2. QED BY <1>2, <2>1 DEF Notify, cardVars
<1>3. CASE CopyExpanded
      BY <1>3 DEF CopyExpanded, providerVars, cardVars
<1>4. CASE Finish
      BY <1>4 DEF Finish, Handled, Replace
<1>5. CASE Render
      BY <1>5 DEF Render, Show, providerVars, handlerVars
<1>6. CASE Building
      BY <1>6 DEF Building, ParentRenders, ReadKey, providerVars, handlerVars, cardVars
<1>7. CASE CopyFields
  <2>1. PICK l \in Listings(draft) : Replace(l) /\ Show(l)
        BY <1>7 DEF CopyFields
  <2>2. ToSet(l) = draft
        BY <2>1, ListingIsComplete DEF TypeOK
  <2>3. ~stale' => draft = provided
        BY <1>7 DEF CopyFields, BuildIsCurrent, TypeOK
  <2>4. QED BY <1>7, <2>1, <2>2, <2>3 DEF CopyFields, Replace, Show, providerVars,
                                          handlerVars
<1>8. CASE Clicks
      BY <1>8 DEF Clicks, Select, ToggleExpanded, providerVars, handlerVars
<1>9. CASE UNCHANGED vars
      BY <1>9 DEF vars, providerVars, handlerVars, cardVars
<1>10. QED BY <1>1, <1>2, <1>3, <1>4, <1>5, <1>6, <1>7, <1>8, <1>9, NextCases

-----------------------------------------------------------------------------
LEMMA InvInit == Init => IInv
<1> SUFFICES ASSUME Init PROVE IInv
    OBVIOUS
<1>1. TypeOK /\ HandlerAtRest
      BY TypeInit
<1>2. Len(display) = 0 /\ Len(list) \in Nat
      BY <1>1, NoRows, Lengths DEF Init
<1>3. ListIsCurrent
      BY ListingIsComplete DEF Init, ListIsCurrent
<1>4. QED BY <1>1, <1>2, <1>3 DEF Init, IInv, PanicNeedsShorterList, IndexInRange,
                                  FlagsCopied, OnlyNodesExpand, BuildIsCurrent

LEMMA InvNext == IInv /\ [Next]_vars => IInv'
BY TypeNext, IndexNext, FlagsNext, BuildNext, CurrentNext DEF IInv

\* The inductive invariant of the two lists: the selected index stays in the
\* range of every list that is not shorter than the one it was chosen on, and
\* the handler's copy of the flags agrees with the rows it has passed; a list that
\* was not built while a refresh ran has all rows, and the display loses no Update.
THEOREM Invariance == Spec => []IInv
BY InvInit, InvNext, PTL DEF Spec

\* Type correctness; no list ever holds a row twice.
THEOREM TypeCorrect == Spec => []TypeOK
<1>1. IInv => TypeOK
      BY DEF IInv
<1>2. QED BY <1>1, Invariance, PTL

\* KernelSpecCard's Render indexes its list out of range only after a list has
\* been replaced by a shorter one, however many specs there are.
THEOREM PanicsOnlyAfterShrinking == Spec => []PanicNeedsShorterList
<1>1. IInv => PanicNeedsShorterList
      BY DEF IInv
<1>2. QED BY <1>1, Invariance, PTL

\* What DisplayCatchesUp rests on: once the refreshes have ceased and nothing is
\* left to be rendered, the page shows what the provider has, unless the last
\* list copied into the component was built while a refresh ran.
THEOREM RestIsCurrent ==
    Spec => [](refresh = "idle" /\ ~dirty /\ ~stale => ToSet(display) = provided)
<1>1. IInv => (refresh = "idle" /\ ~dirty /\ ~stale => ToSet(display) = provided)
      BY DEF IInv, ListIsCurrent
<1>2. QED BY <1>1, Invariance, PTL

LEMMA FinishKeepsFlags ==
    ASSUME IInv, Finish, NEW n \in ToSet(incoming) \ touched
    PROVE  n \in expanded' <=> n \in expanded
<1>1. expanded' = refreshedExpanded
      BY DEF Finish, Handled
<1>2. CASE kind = "specs"
      BY <1>1, <1>2 DEF IInv, OnlyNodesExpand
<1>3. CASE kind = "nodes"
  <2>1. copied = Len(incoming)
        BY <1>3 DEF Finish, Handled
  <2>2. PICK i \in 1 .. Len(incoming) : n = incoming[i]
        BY RowsOf DEF IInv, TypeOK
  <2>3. QED BY <1>1, <2>1, <2>2 DEF IInv, FlagsCopied
<1>4. QED BY <1>2, <1>3 DEF IInv, TypeOK

\* handleNodesRefreshed keeps the rows that stay as the user has left them,
\* whatever is clicked between the turns of its loop.
THEOREM ExpansionKept == Spec => ExpansionSurvives
<1>1. IInv /\ [Next]_vars =>
         [Finish => \A n \in ToSet(incoming) \ touched :
                       n \in expanded' <=> n \in expanded]_vars
      BY FinishKeepsFlags
<1>2. QED BY <1>1, Invariance, PTL DEF Spec, ExpansionSurvives
=============================================================================
