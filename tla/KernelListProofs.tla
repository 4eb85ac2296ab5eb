-------------------------- MODULE KernelListProofs --------------------------
(* Theorems about KernelList, for every set of kernels, finite or not.     *)
EXTENDS KernelList, FiniteSetTheorems, TLAPS

-----------------------------------------------------------------------------
(* Counting. *)

\* A counter that follows a set through the arrival of an element.
LEMMA CountIn ==
    ASSUME NEW S, IsFiniteSet(S), NEW k, k \notin S
    PROVE  /\ IsFiniteSet(S \cup {k})
           /\ Cardinality(S) \in Nat
           /\ Cardinality(S \cup {k}) = Cardinality(S) + 1
BY FS_AddElement, FS_CardinalityType

\* And through its departure.
LEMMA CountOut ==
    ASSUME NEW S, IsFiniteSet(S), NEW k \in S
    PROVE  /\ IsFiniteSet(S \ {k})
           /\ Cardinality(S \ {k}) \in Nat
           /\ Cardinality(S \ {k}) = Cardinality(S) - 1
<1>1. /\ IsFiniteSet(S \ {k})
      /\ Cardinality(S \ {k}) = Cardinality(S) - 1
      BY FS_RemoveElement
<1>2. QED BY <1>1, FS_CardinalityType

\* The counter of nothing.
LEMMA CountNone == IsFiniteSet({}) /\ Cardinality({}) = 0
BY FS_EmptySet

-----------------------------------------------------------------------------
(* The inductive invariant. *)

LEMMA InvInit == Init => IInv
<1> SUFFICES ASSUME Init PROVE IInv
    OBVIOUS
<1>1. TypeOK
      BY DEF Init, TypeOK
<1>2. CountsMatch
      BY CountNone DEF Init, CountsMatch
<1>3. Walk /\ CopiesAgree
      BY DEF Init, Walk, CopiesAgree, ExpandedCopied, SelectedCopied
<1>4. QED BY <1>1, <1>2, <1>3 DEF IInv

LEMMA BeginPreserves ==
    ASSUME IInv, NEW list \in SUBSET Kernels, BeginRefresh(list)
    PROVE  IInv'
<1> USE DEF IInv, BeginRefresh, listVars
<1>1. TypeOK'
      BY DEF TypeOK
<1>2. CountsMatch'
      BY CountNone DEF CountsMatch
<1>3. current = None /\ current' = None
      BY DEF Walk
<1>4. Walk' /\ CopiesAgree'
      BY <1>3 DEF Walk, CopiesAgree, ExpandedCopied, SelectedCopied
<1>5. QED BY <1>1, <1>2, <1>4

\* The selected entry of a kernel is copied, and counted if it is true.
LEMMA CopySelectedPreserves ==
    ASSUME IInv, NEW k \in Kernels, CopySelected(k)
    PROVE  IInv'
<1> USE DEF IInv, CopySelected, listVars
<1>1. k \notin newSelected /\ k # None
      BY NoneAssumption DEF Walk, ExpandedCopied, SelectedCopied
<1>2. CountsMatch' /\ newNum' \in Nat
  <2>1. CASE k \in selected
    <3>1. newSelected' = newSelected \cup {k}
          BY <2>1
    <3>2. QED BY <1>1, <2>1, <3>1, CountIn DEF CountsMatch, TypeOK
  <2>2. CASE k \notin selected
    <3>1. newSelected' = newSelected
          BY <2>2
    <3>2. QED BY <2>2, <3>1 DEF CountsMatch, TypeOK
  <2>3. QED BY <2>1, <2>2
<1>3. TypeOK'
      BY <1>2 DEF TypeOK
<1>4. Walk'
      BY <1>1 DEF Walk, ExpandedCopied, SelectedCopied
<1>5. CopiesAgree'
      BY <1>1 DEF Walk, CopiesAgree, ExpandedCopied, SelectedCopied
<1>6. QED BY <1>2, <1>3, <1>4, <1>5

LEMMA CopyExpandedPreserves ==
    ASSUME IInv, CopyExpanded
    PROVE  IInv'
<1> USE DEF IInv, CopyExpanded, listVars
<1>1. TypeOK'
      BY DEF TypeOK
<1>2. CountsMatch'
      BY DEF CountsMatch
<1>3. /\ ExpandedCopied' = ExpandedCopied \cup {current}
      /\ SelectedCopied' = SelectedCopied
      BY DEF Walk, ExpandedCopied, SelectedCopied
<1>4. current \notin newExpanded /\ handling
      BY DEF Walk, ExpandedCopied
<1>5. Walk'
      BY <1>3, <1>4 DEF Walk
<1>6. CopiesAgree'
      BY <1>3, <1>4 DEF CopiesAgree
<1>7. QED BY <1>1, <1>2, <1>5, <1>6

LEMMA FinishPreserves ==
    ASSUME IInv, FinishRefresh
    PROVE  IInv'
<1> USE DEF IInv, FinishRefresh
<1>1. current = None
      BY DEF Walk
<1>2. TypeOK'
      BY DEF TypeOK
<1>3. CountsMatch'
      BY CountNone DEF CountsMatch
<1>4. Walk' /\ CopiesAgree'
      BY <1>1 DEF Walk, CopiesAgree, ExpandedCopied, SelectedCopied
<1>5. QED BY <1>2, <1>3, <1>4

\* A click is counted; while recreateState runs it is also remembered.
LEMMA ClickPreserves ==
    ASSUME IInv, NEW k \in Kernels, ToggleExpanded(k) \/ ToggleSelected(k)
    PROVE  IInv'
<1> USE DEF IInv, handlerVars
<1>1. /\ UNCHANGED <<handlerVars, kernels, rendered>>
      /\ touched' = IF handling THEN touched \cup {k} ELSE touched
      BY DEF ToggleExpanded, ToggleSelected, Touch
<1>2. TypeOK' /\ CountsMatch'
  <2>1. CASE ToggleExpanded(k)
        BY <1>1, <2>1 DEF ToggleExpanded, TypeOK, CountsMatch
  <2>2. CASE ToggleSelected(k) /\ k \in selected
    <3>1. selected' = selected \ {k} /\ numSelected' = numSelected - 1 /\ expanded' = expanded
          BY <2>2 DEF ToggleSelected
    <3>2. CountsMatch' /\ numSelected' \in Nat
          BY <1>1, <2>2, <3>1, CountOut DEF CountsMatch
    <3>3. QED BY <1>1, <3>1, <3>2 DEF TypeOK
  <2>3. CASE ToggleSelected(k) /\ k \notin selected
    <3>1. selected' = selected \cup {k} /\ numSelected' = numSelected + 1 /\ expanded' = expanded
          BY <2>3 DEF ToggleSelected
    <3>2. CountsMatch' /\ numSelected' \in Nat
          BY <1>1, <2>3, <3>1, CountIn DEF CountsMatch
    <3>3. QED BY <1>1, <3>1, <3>2 DEF TypeOK
  <2>4. QED BY <2>1, <2>2, <2>3
<1>3. Walk'
      BY <1>1 DEF Walk, ExpandedCopied, SelectedCopied
<1>4. CopiesAgree'
  <2>1. ExpandedCopied' = ExpandedCopied /\ SelectedCopied' = SelectedCopied
        BY <1>1 DEF ExpandedCopied, SelectedCopied
  <2>2. CASE ~handling
    <3>1. ExpandedCopied = {} /\ SelectedCopied = {}
          BY <2>2 DEF Walk, ExpandedCopied, SelectedCopied
    <3>2. QED BY <2>1, <3>1 DEF CopiesAgree
  <2>3. CASE handling
    <3>1. \A j \in Kernels \ touched' :
             (j \in expanded' <=> j \in expanded) /\ (j \in selected' <=> j \in selected)
          BY <1>1, <2>3 DEF ToggleExpanded, ToggleSelected
    <3>2. ExpandedCopied \subseteq Kernels /\ SelectedCopied \subseteq Kernels
          BY DEF TypeOK, ExpandedCopied, SelectedCopied
    <3>3. touched \subseteq touched'
          BY <1>1
    <3>4. QED BY <1>1, <2>1, <3>1, <3>2, <3>3 DEF CopiesAgree
  <2>4. QED BY <2>2, <2>3
<1>5. QED BY <1>2, <1>3, <1>4

LEMMA InvNext == IInv /\ [Next]_vars => IInv'
<1> SUFFICES ASSUME IInv, [Next]_vars PROVE IInv'
    OBVIOUS
<1>1. CASE Render \/ UNCHANGED vars
      BY <1>1 DEF Render, vars, listVars, handlerVars, IInv, TypeOK, CountsMatch,
                  Walk, CopiesAgree, ExpandedCopied, SelectedCopied
<1>2. QED BY <1>1, BeginPreserves, CopySelectedPreserves, CopyExpandedPreserves,
             FinishPreserves, ClickPreserves DEF Next

-----------------------------------------------------------------------------
(* Theorems. *)

\* What the list remembers, what recreateState has copied of it and the two
\* counters belong together, however clicks and refreshes interleave.
THEOREM Invariance == Spec => []IInv
BY InvInit, InvNext, PTL DEF Spec

\* Type correctness of the list and of recreateState.
THEOREM TypeCorrect == Spec => []TypeOK
<1>1. IInv => TypeOK
      BY DEF IInv
<1>2. QED BY <1>1, Invariance, PTL

\* numSelected counts the selected kernels, through any interleaving of clicks
\* with a refresh.
THEOREM SelectionCounted == Spec => []CountMatches
<1>1. IInv => CountMatches
      BY DEF IInv, CountsMatch, CountMatches
<1>2. QED BY <1>1, Invariance, PTL

\* A refresh changes no choice of the user but those clicked while it ran.
THEOREM ChoicesAreKept == Spec => ChoicesSurvive
<1> DEFINE Kept == FinishRefresh => \A k \in newKernels \ touched :
          /\ k \in expanded' <=> k \in expanded
          /\ k \in selected' <=> k \in selected
<1>1. IInv => [Kept]_vars
  <2> SUFFICES ASSUME IInv, FinishRefresh, NEW k \in newKernels \ touched
               PROVE  /\ k \in expanded' <=> k \in expanded
                      /\ k \in selected' <=> k \in selected
      OBVIOUS
  <2>1. k \in ExpandedCopied \ touched /\ k \in SelectedCopied \ touched
        BY DEF FinishRefresh, ExpandedCopied, SelectedCopied
  <2>2. QED BY <2>1 DEF IInv, CopiesAgree, FinishRefresh
<1>2. QED BY <1>1, Invariance, PTL DEF Spec, ChoicesSurvive
=============================================================================
