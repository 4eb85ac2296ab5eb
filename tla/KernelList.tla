---------------------------- MODULE KernelList ----------------------------
(***************************************************************************)
(* The KernelList component: what it remembers of each kernel (expanded,   *)
(* selected), the handler that rebuilds that memory when a refresh brings  *)
(* a new list (recreateState, in the goroutine of the refresh) and the     *)
(* clicks of the user (in the UI goroutine).                               *)
(*                                                                         *)
(* The two goroutines share the maps without a lock.  In the browser build *)
(* one runs at a time and may be suspended where it allocates: between two *)
(* reads of recreateState's loop, but not among its final assignments.     *)
(* A map entry that is missing reads as false, so a map is the set of the  *)
(* kernels it holds true for.                                              *)
(***************************************************************************)
EXTENDS Integers, FiniteSets

CONSTANTS
    Kernels,  \* kernel ids
    None      \* no kernel

ASSUME NoneAssumption == None \notin Kernels

VARIABLES
    kernels,        \* the kernels listed
    expanded,
    selected,
    numSelected,
    todo,           \* recreateState: kernels of the new list not yet copied
    current,        \* the kernel whose expanded entry it reads next, or None
    newKernels,     \* refreshedKernels
    newExpanded,    \* refreshedExpanded
    newSelected,    \* refreshedSelected
    newNum,         \* its local numSelected
    handling,       \* whether recreateState is running
    rendered,       \* the kernels on display
    touched         \* kernels clicked while recreateState runs

listVars == <<kernels, expanded, selected, numSelected>>
handlerVars == <<todo, current, newKernels, newExpanded, newSelected, newNum, handling>>
vars == <<listVars, handlerVars, rendered, touched>>

\* The constructor lists what the provider has; nothing is selected.
Init ==
    /\ kernels \in SUBSET Kernels
    /\ expanded = {}
    /\ selected = {}
    /\ numSelected = 0
    /\ todo = {}
    /\ current = None
    /\ newKernels = {}
    /\ newExpanded = {}
    /\ newSelected = {}
    /\ newNum = 0
    /\ handling = FALSE
    /\ rendered = {}
    /\ touched = {}

-----------------------------------------------------------------------------
(* handleKernelsRefresh; refreshMutex admits one at a time. *)

BeginRefresh(list) ==
    /\ ~handling
    /\ handling' = TRUE
    /\ todo' = list
    /\ newKernels' = list
    /\ newExpanded' = {}
    /\ newSelected' = {}
    /\ newNum' = 0
    /\ UNCHANGED <<listVars, current, rendered, touched>>

CopySelected(k) ==
    /\ handling
    /\ current = None
    /\ k \in todo
    /\ newSelected' = newSelected \cup ({k} \cap selected)
    /\ newNum' = IF k \in selected THEN newNum + 1 ELSE newNum
    /\ current' = k
    /\ UNCHANGED <<listVars, todo, newKernels, newExpanded, handling, rendered,
                   touched>>

\* Mutant: the flag is read from the wrong map.
CopyExpandedFromSelected ==
    /\ current # None
    /\ newExpanded' = newExpanded \cup ({current} \cap selected)
    /\ todo' = todo \ {current}
    /\ current' = None
    /\ UNCHANGED <<listVars, newKernels, newSelected, newNum, handling, rendered,
                   touched>>

CopyExpanded ==
    /\ current # None
    /\ newExpanded' = newExpanded \cup ({current} \cap expanded)
    /\ todo' = todo \ {current}
    /\ current' = None
    /\ UNCHANGED <<listVars, newKernels, newSelected, newNum, handling, rendered,
                   touched>>

\* Mutants: numSelected is not recomputed, or starts from zero again.
FinishKeepsCount ==
    /\ handling
    /\ todo = {}
    /\ expanded' = newExpanded
    /\ selected' = newSelected
    /\ kernels' = newKernels
    /\ handling' = FALSE
    /\ newKernels' = {} /\ newExpanded' = {} /\ newSelected' = {} /\ newNum' = 0
    /\ touched' = {}
    /\ UNCHANGED <<numSelected, todo, current, rendered>>

FinishClearsCount ==
    /\ handling
    /\ todo = {}
    /\ expanded' = newExpanded
    /\ selected' = newSelected
    /\ kernels' = newKernels
    /\ numSelected' = 0
    /\ handling' = FALSE
    /\ newKernels' = {} /\ newExpanded' = {} /\ newSelected' = {} /\ newNum' = 0
    /\ touched' = {}
    /\ UNCHANGED <<todo, current, rendered>>

FinishRefresh ==
    /\ handling
    /\ todo = {}
    /\ expanded' = newExpanded
    /\ selected' = newSelected
    /\ kernels' = newKernels
    /\ numSelected' = newNum
    /\ handling' = FALSE
    /\ newKernels' = {} /\ newExpanded' = {} /\ newSelected' = {} /\ newNum' = 0
    /\ touched' = {}
    /\ UNCHANGED <<todo, current, rendered>>

-----------------------------------------------------------------------------
(* The UI goroutine. *)

Render ==
    /\ rendered' = kernels
    /\ UNCHANGED <<listVars, handlerVars, touched>>

\* Clicks act on the kernels on display, which may be gone from the list.
Touch(k) == touched' = IF handling THEN touched \cup {k} ELSE touched

ToggleExpanded(k) ==
    /\ k \in rendered
    /\ Touch(k)
    /\ expanded' = IF k \in expanded THEN expanded \ {k} ELSE expanded \cup {k}
    /\ UNCHANGED <<kernels, selected, numSelected, handlerVars, rendered>>

ToggleSelected(k) ==
    /\ k \in rendered
    /\ Touch(k)
    /\ IF k \in selected
          THEN selected' = selected \ {k} /\ numSelected' = numSelected - 1
          ELSE selected' = selected \cup {k} /\ numSelected' = numSelected + 1
    /\ UNCHANGED <<kernels, expanded, handlerVars, rendered>>

Next ==
    \/ \E list \in SUBSET Kernels : BeginRefresh(list)
    \/ \E k \in Kernels : CopySelected(k) \/ ToggleExpanded(k) \/ ToggleSelected(k)
    \/ CopyExpanded \/ FinishRefresh \/ Render

Spec == Init /\ [][Next]_vars

-----------------------------------------------------------------------------
(* Properties. *)

\* Type correctness; a negative numSelected would be a negative length.
TypeOK ==
    /\ kernels \subseteq Kernels
    /\ expanded \subseteq Kernels
    /\ selected \subseteq Kernels
    /\ numSelected \in Nat
    /\ todo \subseteq Kernels
    /\ current \in Kernels \cup {None}
    /\ newKernels \subseteq Kernels
    /\ newExpanded \subseteq Kernels
    /\ newSelected \subseteq Kernels
    /\ newNum \in Nat
    /\ handling \in BOOLEAN
    /\ rendered \subseteq Kernels
    /\ touched \subseteq Kernels

\* numSelected counts the selected kernels, through any interleaving of clicks
\* with a refresh: the terminate button is disabled exactly when nothing is
\* selected, and the slice it makes never has a negative length.
CountMatches == numSelected = Cardinality(selected)

\* A refresh neither expands, collapses, selects nor deselects a kernel that
\* stays listed, unless the user clicked it while recreateState was running:
\* such a click may be overwritten.
ChoicesSurvive ==
    [][FinishRefresh => \A k \in newKernels \ touched :
          /\ k \in expanded' <=> k \in expanded
          /\ k \in selected' <=> k \in selected]_vars

-----------------------------------------------------------------------------
(* The inductive invariant behind CountMatches and ChoicesSurvive. *)

\* The kernels whose flags have been copied.
ExpandedCopied == newKernels \ todo
SelectedCopied == ExpandedCopied \cup ({current} \ {None})

CountsMatch ==
    /\ IsFiniteSet(selected)
    /\ numSelected = Cardinality(selected)
    /\ IsFiniteSet(newSelected)
    /\ newNum = Cardinality(newSelected)

\* recreateState walks over the new list, and holds nothing between refreshes.
Walk ==
    /\ todo \subseteq newKernels
    /\ current # None => current \in todo
    /\ newExpanded \subseteq ExpandedCopied
    /\ newSelected \subseteq SelectedCopied
    /\ ~handling => newKernels = {}

\* What was copied and not clicked since is still what the list has.
CopiesAgree ==
    /\ \A k \in ExpandedCopied \ touched : k \in newExpanded <=> k \in expanded
    /\ \A k \in SelectedCopied \ touched : k \in newSelected <=> k \in selected

IInv ==
    /\ TypeOK
    /\ CountsMatch
    /\ Walk
    /\ CopiesAgree
=============================================================================
