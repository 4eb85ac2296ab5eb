------------------------ MODULE SpoofedKernelsProofs ------------------------
(* Theorems about SpoofedKernels, for every bound of the pool and every    *)
(* set of goroutines and kernel lists.                                     *)
EXTENDS SpoofedKernels, FiniteSetTheorems, TLAPS

\* What a goroutine does while it holds the lock, and what it does else.
Locking(g) == Trigger(g) \/ TryLockSucceeds(g) \/ TryLockFails(g)
Informing(g) == RefreshOccurred(g) \/ Notify(g) \/ Return(g)

LEMMA NextCases ==
    ASSUME Next
    PROVE  \/ \E g \in Goroutines : Locking(g) \/ Spoof(g) \/ Informing(g)
           \/ \E c \in Components : Mount(c) \/ Dismount(c)
BY DEF Next, RefreshResources, Locking, Informing

\* The numbers that are drawn are natural numbers.
LEMMA DrawType ==
    ASSUME TypeOK
    PROVE  LET n == Cardinality(resources)
           IN  n \in Nat /\ MaxDelete(n) \in Nat /\ MaxAdd(n) \in Nat
<1>1. IsFiniteSet(resources)
      BY KernelsAssumption, FS_Subset DEF TypeOK
<1>2. Cardinality(resources) \in Nat
      BY <1>1, FS_CardinalityType
<1>3. QED BY <1>2 DEF MaxDelete, MaxAdd

-----------------------------------------------------------------------------
(* Type correctness. *)

LEMMA TypeInit == Init => TypeOK
<1> SUFFICES ASSUME Init PROVE TypeOK
    OBVIOUS
<1>1. /\ numToDelete \in [Goroutines -> Nat]
      /\ numToAdd \in [Goroutines -> Nat]
      /\ pc \in [Goroutines -> Labels]
      BY DEF Init, Labels
<1>2. /\ toDelete \in [Goroutines -> SUBSET Kernels]
      /\ listing \in [Goroutines -> SUBSET Kernels]
      /\ pending \in [Goroutines -> SUBSET Components]
      /\ inHandler \in [Goroutines -> SUBSET Components]
      BY DEF Init
<1>3. /\ status \in [Components -> {"constructing", "mounted", "dismounted"}]
      /\ view \in [Components -> SUBSET Kernels]
      BY DEF Init
<1>4. resources \subseteq Kernels /\ locked \in BOOLEAN /\ panicked \in BOOLEAN
      BY DEF Init
<1>5. QED BY <1>1, <1>2, <1>3, <1>4 DEF TypeOK

LEMMA SpoofType ==
    ASSUME TypeOK, NEW g \in Goroutines, Spoof(g)
    PROVE  TypeOK'
<1> USE DEF TypeOK, Labels, Goto, At
<1>1. CASE Plan(g)
  <2> DEFINE n == Cardinality(resources)
  <2>1. PICK d \in 0 .. MaxDelete(n), a \in 0 .. MaxAdd(n) :
           /\ numToDelete' = [numToDelete EXCEPT ![g] = d]
           /\ numToAdd' = [numToAdd EXCEPT ![g] = a]
        BY <1>1 DEF Plan
  <2>2. d \in Nat /\ a \in Nat
        BY DrawType
  <2>3. numToDelete' \in [Goroutines -> Nat] /\ numToAdd' \in [Goroutines -> Nat]
        BY <2>1, <2>2
  <2>4. QED BY <1>1, <2>3 DEF Plan, uiVars
<1>2. CASE PlanInitial(g)
  <2>1. PICK a \in 2 .. 7 : numToAdd' = [numToAdd EXCEPT ![g] = a]
        BY <1>2 DEF PlanInitial
  <2>2. numToAdd' \in [Goroutines -> Nat]
        BY <2>1
  <2>3. QED BY <1>2, <2>2 DEF PlanInitial, uiVars
<1>3. CASE ChooseVictims(g)
      BY <1>3 DEF ChooseVictims, uiVars
<1>4. CASE DeleteVictim(g)
      BY <1>4 DEF DeleteVictim, uiVars
<1>5. CASE Deleted(g)
      BY <1>5 DEF Deleted, uiVars
<1>6. CASE AddKernel(g)
      BY <1>6 DEF AddKernel, Fresh, uiVars
<1>7. CASE Added(g)
      BY <1>7 DEF Added, uiVars
<1>8. QED BY <1>1, <1>2, <1>3, <1>4, <1>5, <1>6, <1>7 DEF Spoof

LEMMA TypeNext == TypeOK /\ [Next]_vars => TypeOK'
<1> SUFFICES ASSUME TypeOK, [Next]_vars PROVE TypeOK'
    OBVIOUS
<1> USE DEF TypeOK, Labels, Goto, At
<1>1. ASSUME NEW g \in Goroutines, Locking(g) PROVE TypeOK'
      BY <1>1 DEF Locking, Trigger, TryLockSucceeds, TryLockFails, localVars, uiVars
<1>2. ASSUME NEW g \in Goroutines, Informing(g) PROVE TypeOK'
  <2>1. CASE RefreshOccurred(g)
        BY <2>1 DEF RefreshOccurred, uiVars
  <2>2. CASE Notify(g)
        BY <2>2 DEF Notify, NotifyMounted, TakeList, NotifyDismounted, uiVars
  <2>3. CASE Return(g)
        BY <2>3 DEF Return, uiVars
  <2>4. QED BY <1>2, <2>1, <2>2, <2>3 DEF Informing
<1>3. ASSUME NEW c \in Components, Mount(c) \/ Dismount(c) PROVE TypeOK'
      BY <1>3 DEF Mount, Dismount, localVars
<1>4. CASE UNCHANGED vars
      BY <1>4 DEF vars, localVars, uiVars
<1>5. QED BY <1>1, <1>2, <1>3, <1>4, SpoofType, NextCases

-----------------------------------------------------------------------------
(* The lock keeps the refreshes apart. *)

\* Spoofing stays inside the refresh, does not touch the lock and panics only
\* without a victim.
LEMMA SpoofInside ==
    ASSUME TypeOK, VictimsExist, NEW g \in Goroutines, Spoof(g)
    PROVE  /\ pc[g] \in {"planning", "choosing", "deleting", "adding"}
           /\ pc'[g] \in {"choosing", "deleting", "adding", "sleeping"}
           /\ pc' = [pc EXCEPT ![g] = pc'[g]]
           /\ pc'[g] = "choosing" => resources' # {}
           /\ UNCHANGED <<locked, listing, pending, inHandler, panicked>>
<1> USE DEF TypeOK, Goto, At
<1>1. CASE Plan(g) \/ PlanInitial(g)
      BY <1>1 DEF Plan, PlanInitial
<1>2. CASE ChooseVictims(g)
      BY <1>2 DEF ChooseVictims, VictimsExist
<1>3. CASE DeleteVictim(g) \/ Deleted(g)
      BY <1>3 DEF DeleteVictim, Deleted
<1>4. CASE AddKernel(g) \/ Added(g)
      BY <1>4 DEF AddKernel, Added
<1>5. QED BY <1>1, <1>2, <1>3, <1>4 DEF Spoof

LEMMA RefreshInit == Init => RefreshInv
BY TypeInit DEF Init, RefreshInv, NeverPanics, LockHeld, VictimsExist, ListingIsMap,
                HandlersInRefresh, Inside, Labels

LEMMA RefreshNext == RefreshInv /\ [Next]_vars => RefreshInv'
<1> SUFFICES ASSUME RefreshInv, [Next]_vars PROVE RefreshInv'
    OBVIOUS
<1> USE DEF RefreshInv, NeverPanics, LockHeld, VictimsExist, ListingIsMap,
            HandlersInRefresh, Inside, Labels
<1>1. TypeOK /\ TypeOK'
      BY TypeNext
<1>2. ASSUME NEW g \in Goroutines, Locking(g) PROVE RefreshInv'
  <2> USE DEF TypeOK, Goto, At
  <2>1. CASE Trigger(g) \/ TryLockFails(g)
        BY <1>1, <2>1 DEF Trigger, TryLockFails, localVars
  <2>2. CASE TryLockSucceeds(g)
        BY <1>1, <2>2 DEF TryLockSucceeds, localVars
  <2>3. QED BY <1>2, <2>1, <2>2 DEF Locking
<1>3. ASSUME NEW g \in Goroutines, Spoof(g) PROVE RefreshInv'
  <2>1. /\ pc[g] \in Inside /\ pc'[g] \in Inside
        /\ pc' = [pc EXCEPT ![g] = pc'[g]]
        /\ pc[g] # "notifying" /\ pc'[g] # "notifying"
        /\ pc'[g] = "choosing" => resources' # {}
        /\ UNCHANGED <<locked, listing, pending, inHandler, panicked>>
        BY <1>1, <1>3, SpoofInside
  <2>2. \A h \in Goroutines : h # g => pc'[h] = pc[h] /\ pc[h] \notin Inside
        BY <1>1, <2>1 DEF TypeOK
  <2>3. NeverPanics' /\ LockHeld'
        BY <1>1, <2>1, <2>2 DEF TypeOK
  <2>4. VictimsExist' /\ ListingIsMap'
        BY <1>1, <2>1, <2>2 DEF TypeOK
  <2>5. HandlersInRefresh'
        BY <1>1, <2>1, <2>2 DEF TypeOK
  <2>6. QED BY <1>1, <2>3, <2>4, <2>5
<1>4. ASSUME NEW g \in Goroutines, Informing(g) PROVE RefreshInv'
  <2> USE DEF TypeOK, Goto, At
  <2>1. CASE RefreshOccurred(g)
        BY <1>1, <2>1 DEF RefreshOccurred, uiVars
  <2>2. CASE Notify(g)
        BY <1>1, <2>2 DEF Notify, NotifyMounted, TakeList, NotifyDismounted, uiVars
  <2>3. CASE Return(g)
        BY <1>1, <2>3 DEF Return, uiVars
  <2>4. QED BY <1>4, <2>1, <2>2, <2>3 DEF Informing
<1>5. ASSUME NEW c \in Components, Mount(c) \/ Dismount(c) PROVE RefreshInv'
      BY <1>1, <1>5 DEF Mount, Dismount, localVars
<1>6. CASE UNCHANGED vars
      BY <1>1, <1>6 DEF vars, localVars
<1>7. QED BY <1>2, <1>3, <1>4, <1>5, <1>6, NextCases

-----------------------------------------------------------------------------
(* Keeping half. *)

LEMMA KeepsAll ==
    ASSUME NEW S, IsFiniteSet(S)
    PROVE  KeepsHalf(S, S)
<1>1. Cardinality(S) \in Nat
      BY FS_CardinalityType
<1>2. S \cap S = S
      OBVIOUS
<1>3. Cardinality(S \cap S) = Cardinality(S)
      BY <1>2, Zenon
<1>4. QED BY <1>1, <1>3 DEF KeepsHalf

\* More is left of the same set.
LEMMA KeepsMore ==
    ASSUME NEW S, IsFiniteSet(S), NEW T, NEW U, T \subseteq U, KeepsHalf(S, T)
    PROVE  KeepsHalf(S, U)
<1>1. IsFiniteSet(S \cap U)
      BY FS_Intersection
<1>2. S \cap T \in SUBSET (S \cap U)
      OBVIOUS
<1>3. IsFiniteSet(S \cap T) /\ Cardinality(S \cap T) <= Cardinality(S \cap U)
      BY <1>1, <1>2, FS_Subset
<1>4. /\ Cardinality(S) \in Nat
      /\ Cardinality(S \cap U) \in Nat
      /\ Cardinality(S \cap T) \in Nat
      BY <1>1, <1>3, FS_CardinalityType
<1>5. QED BY <1>3, <1>4 DEF KeepsHalf

\* The same is left of fewer.
LEMMA KeepsOfFewer ==
    ASSUME NEW S, IsFiniteSet(S), NEW R \in SUBSET S, NEW T,
           S \cap T \subseteq R, KeepsHalf(S, T)
    PROVE  KeepsHalf(R, T)
<1>1. R \cap T = S \cap T
      OBVIOUS
<1>2. IsFiniteSet(R) /\ Cardinality(R) <= Cardinality(S)
      BY FS_Subset
<1>3. IsFiniteSet(S \cap T)
      BY FS_Intersection
<1>4. /\ Cardinality(R) \in Nat
      /\ Cardinality(S) \in Nat
      /\ Cardinality(S \cap T) \in Nat
      BY <1>2, <1>3, FS_CardinalityType
<1>5. Cardinality(R \cap T) = Cardinality(S \cap T)
      BY <1>1, Zenon
<1>6. QED BY <1>2, <1>4, <1>5 DEF KeepsHalf

\* A draw leaves half.
LEMMA DrawKeepsHalf ==
    ASSUME NEW S, IsFiniteSet(S), NEW V \in SUBSET S,
           Cardinality(V) <= MaxDelete(Cardinality(S))
    PROVE  KeepsHalf(S, S \ V)
<1>1. S \cap V = V /\ S \cap (S \ V) = S \ V
      OBVIOUS
<1>2. IsFiniteSet(V) /\ IsFiniteSet(S \ V)
      BY FS_Subset, FS_Difference
<1>3. Cardinality(S \ V) = Cardinality(S) - Cardinality(V)
      BY <1>1, FS_Difference
<1>4. Cardinality(S) \in Nat /\ Cardinality(V) \in Nat
      BY <1>2, FS_CardinalityType
<1>5. QED BY <1>1, <1>3, <1>4 DEF KeepsHalf, MaxDelete

-----------------------------------------------------------------------------
(* What becomes of the lists. *)

LEMMA FiniteMap ==
    ASSUME TypeOK
    PROVE  /\ IsFiniteSet(resources)
           /\ \A c \in Components : IsFiniteSet(view[c])
<1>1. \A c \in Components : view[c] \in SUBSET Kernels
      BY DEF TypeOK
<1>2. QED BY <1>1, KernelsAssumption, FS_Subset DEF TypeOK

\* Whoever is inside is alone: the others are not deleting, changing or notifying.
LEMMA Alone ==
    ASSUME RefreshInv, DrawHolds, NEW g \in Goroutines, pc[g] \in Inside
    PROVE  \A h \in Goroutines \ {g} : pc[h] \notin Inside /\ toDelete[h] = {}
BY DEF RefreshInv, LockHeld, DrawHolds, Inside, Labels

LEMMA ListInit == Init => ListInv
BY DEF Init, ListInv, DrawHolds, HalfIsLeft, HalfIsTold, ListsAreCurrent, Changing

\* A change of g changes nothing that the invariant says of the others.
LEMMA ListsOfOne ==
    ASSUME TypeOK, TypeOK', NEW g \in Goroutines,
           \A h \in Goroutines \ {g} :
              pc'[h] = pc[h] /\ pc[h] \notin Inside /\ toDelete'[h] = {},
           pc'[g] = "choosing" => numToDelete'[g] <= MaxDelete(Cardinality(resources')),
           pc'[g] # "deleting" => toDelete'[g] = {},
           pc'[g] \in Changing =>
              /\ KeepsHalf(resources', resources' \ toDelete'[g])
              /\ \A c \in Components : status'[c] = "mounted" =>
                    KeepsHalf(view'[c], resources' \ toDelete'[g]),
           pc'[g] = "notifying" =>
              \A c \in Components : status'[c] = "mounted" =>
                 IF c \in pending'[g] THEN KeepsHalf(view'[c], resources')
                                      ELSE view'[c] = resources',
           pc'[g] \notin Changing \cup {"notifying"} =>
              \A c \in Components : status'[c] = "mounted" => view'[c] = resources'
    PROVE  ListInv'
<1>1. \A h \in Goroutines \ {g} :
         pc'[h] \notin Changing \cup {"notifying", "choosing", "deleting"}
      BY DEF Inside, Labels, Changing
<1>2. DrawHolds'
      BY <1>1 DEF DrawHolds
<1>3. HalfIsLeft'
      BY <1>1 DEF HalfIsLeft
<1>4. HalfIsTold'
      BY <1>1 DEF HalfIsTold
<1>5. ListsAreCurrent'
      BY <1>1 DEF ListsAreCurrent
<1>6. QED BY <1>2, <1>3, <1>4, <1>5 DEF ListInv

LEMMA SpoofKeepsLists ==
    ASSUME IInv, TypeOK', NEW g \in Goroutines, Spoof(g)
    PROVE  ListInv'
<1> USE DEF At, Goto
<1>1. /\ TypeOK
      /\ DrawHolds
      /\ IsFiniteSet(resources)
      /\ \A c \in Components : IsFiniteSet(view[c])
      BY FiniteMap DEF IInv, RefreshInv, ListInv
<1>2. UNCHANGED <<status, view>>
      BY DEF Spoof, Plan, PlanInitial, ChooseVictims, DeleteVictim, Deleted,
             AddKernel, Added, uiVars
<1>3. /\ pc[g] \in {"planning", "choosing", "deleting", "adding"}
      /\ pc' = [pc EXCEPT ![g] = pc'[g]]
      /\ panicked' = panicked
      BY SpoofInside DEF IInv, RefreshInv
<1>4. \A h \in Goroutines \ {g} : pc[h] \notin Inside /\ toDelete[h] = {}
      BY <1>1, <1>3, Alone DEF IInv, Inside, Labels
<1>5. \A h \in Goroutines \ {g} :
         pc'[h] = pc[h] /\ pc[h] \notin Inside /\ toDelete'[h] = {}
  <2>1. \A h \in Goroutines \ {g} : pc'[h] = pc[h]
        BY <1>1, <1>3 DEF TypeOK
  <2>2. \A h \in Goroutines \ {g} : toDelete'[h] = toDelete[h]
        BY <1>1 DEF Spoof, Plan, PlanInitial, ChooseVictims, DeleteVictim,
                    Deleted, AddKernel, Added, TypeOK
  <2>3. QED BY <1>4, <2>1, <2>2
<1>6. pc[g] \in {"planning", "choosing"} =>
         \A c \in Components : status[c] = "mounted" => view[c] = resources
  <2>1. pc[g] \in {"planning", "choosing"} =>
           \A h \in Goroutines : pc[h] \notin Changing \cup {"notifying"}
        BY <1>4 DEF Changing, Inside, Labels
  <2>2. QED BY <2>1 DEF IInv, ListInv, ListsAreCurrent
<1>7. CASE Plan(g)
  <2>1. numToDelete'[g] <= MaxDelete(Cardinality(resources)) /\ resources' = resources
    <3>1. PICK d \in 0 .. MaxDelete(Cardinality(resources)) :
             numToDelete' = [numToDelete EXCEPT ![g] = d]
          BY <1>7 DEF Plan
    <3>2. MaxDelete(Cardinality(resources)) \in Nat
          BY <1>1, DrawType
    <3>3. QED BY <1>1, <1>7, <3>1, <3>2 DEF Plan, TypeOK
  <2>2. pc[g] = "planning" /\ pc'[g] = "choosing" /\ toDelete' = toDelete
        BY <1>1, <1>7 DEF Plan, TypeOK
  <2>3. toDelete'[g] = {}
        BY <1>1, <2>2 DEF DrawHolds
  <2>4. QED BY <1>1, <1>2, <1>5, <1>6, <2>1, <2>2, <2>3, ListsOfOne DEF Changing
<1>8. CASE PlanInitial(g)
  <2>1. /\ pc[g] = "planning" /\ pc'[g] = "adding"
        /\ UNCHANGED <<toDelete, resources>>
        BY <1>1, <1>8 DEF PlanInitial, TypeOK
  <2>2. toDelete'[g] = {} /\ resources' \ toDelete'[g] = resources
        BY <1>1, <2>1 DEF DrawHolds
  <2>3. KeepsHalf(resources, resources)
        BY <1>1, KeepsAll
  <2>4. QED BY <1>1, <1>2, <1>5, <1>6, <2>1, <2>2, <2>3, ListsOfOne DEF Changing
<1>9. CASE ChooseVictims(g)
  <2>1. /\ pc[g] = "choosing"
        /\ ~(numToDelete[g] > 0 /\ resources = {})
        BY <1>3, <1>9 DEF ChooseVictims
  <2>2. PICK V \in SUBSET resources :
           /\ Cardinality(V) <= numToDelete[g]
           /\ toDelete' = [toDelete EXCEPT ![g] = V]
        BY <1>9, <2>1 DEF ChooseVictims
  <2>3. pc'[g] = "deleting" /\ resources' = resources /\ toDelete'[g] = V
        BY <1>1, <1>9, <2>1, <2>2 DEF ChooseVictims, TypeOK
  <2>4. Cardinality(V) <= MaxDelete(Cardinality(resources))
    <3>1. IsFiniteSet(V) /\ Cardinality(V) \in Nat
          BY <1>1, FS_Subset, FS_CardinalityType
    <3>2. numToDelete[g] \in Nat /\ MaxDelete(Cardinality(resources)) \in Nat
          BY <1>1, DrawType DEF TypeOK
    <3>3. numToDelete[g] <= MaxDelete(Cardinality(resources))
          BY <1>1, <2>1 DEF DrawHolds
    <3>4. QED BY <2>2, <3>1, <3>2, <3>3
  <2>5. KeepsHalf(resources, resources \ V)
        BY <1>1, <2>4, DrawKeepsHalf
  <2>6. QED BY <1>1, <1>2, <1>5, <1>6, <2>1, <2>3, <2>5, ListsOfOne DEF Changing
<1>10. ASSUME pc[g] \in Changing
       PROVE  /\ KeepsHalf(resources, resources \ toDelete[g])
              /\ \A c \in Components : status[c] = "mounted" =>
                    KeepsHalf(view[c], resources \ toDelete[g])
       BY <1>10 DEF IInv, ListInv, HalfIsLeft
<1>11. CASE DeleteVictim(g)
  <2>1. PICK k \in toDelete[g] :
           /\ toDelete' = [toDelete EXCEPT ![g] = @ \ {k}]
           /\ resources' = resources \ {k}
        BY <1>11 DEF DeleteVictim
  <2>2. pc[g] = "deleting" /\ pc'[g] = "deleting" /\ toDelete'[g] = toDelete[g] \ {k}
        BY <1>1, <1>11, <2>1 DEF DeleteVictim, TypeOK
  <2>3. resources' \ toDelete'[g] = resources \ toDelete[g]
        BY <2>1, <2>2
  <2>4. KeepsHalf(resources', resources \ toDelete[g])
        BY <1>1, <1>10, <2>1, <2>2, KeepsOfFewer DEF Changing
  <2>5. QED BY <1>1, <1>2, <1>5, <1>10, <2>2, <2>3, <2>4, ListsOfOne DEF Changing
<1>12. CASE Deleted(g)
  <2>1. /\ pc[g] = "deleting" /\ pc'[g] = "adding" /\ toDelete[g] = {}
        /\ UNCHANGED <<resources, toDelete>>
        BY <1>1, <1>12 DEF Deleted, TypeOK
  <2>2. QED BY <1>1, <1>2, <1>5, <1>10, <2>1, ListsOfOne DEF Changing
<1>13. CASE AddKernel(g)
  <2>1. PICK k \in Fresh : resources' = resources \cup {k}
        BY <1>13 DEF AddKernel
  <2>2. pc[g] = "adding" /\ pc'[g] = "adding" /\ UNCHANGED toDelete
        BY <1>13 DEF AddKernel
  <2>3. toDelete[g] = {} /\ toDelete'[g] = {}
        BY <1>1, <2>2 DEF DrawHolds
  <2>4. resources \ toDelete[g] \subseteq resources' \ toDelete'[g]
        BY <2>1, <2>3
  <2>5. \A c \in Components : status[c] = "mounted" =>
           KeepsHalf(view[c], resources' \ toDelete'[g])
        BY <1>1, <1>10, <2>2, <2>4, KeepsMore DEF Changing
  <2>6. KeepsHalf(resources', resources' \ toDelete'[g])
    <3>1. resources' \ toDelete'[g] = resources'
          BY <2>3
    <3>2. IsFiniteSet(resources')
          BY <1>1, <2>1, FS_AddElement
    <3>3. QED BY <3>1, <3>2, KeepsAll
  <2>7. QED BY <1>1, <1>2, <1>5, <2>2, <2>3, <2>5, <2>6, ListsOfOne DEF Changing
<1>14. CASE Added(g)
  <2>1. /\ pc[g] = "adding" /\ pc'[g] = "sleeping"
        /\ UNCHANGED <<resources, toDelete>>
        BY <1>1, <1>14 DEF Added, TypeOK
  <2>2. toDelete[g] = {}
        BY <1>1, <2>1 DEF DrawHolds
  <2>3. QED BY <1>1, <1>2, <1>5, <1>10, <2>1, <2>2, ListsOfOne DEF Changing
<1>15. QED BY <1>7, <1>8, <1>9, <1>11, <1>12, <1>13, <1>14 DEF Spoof

LEMMA InformingKeepsLists ==
    ASSUME IInv, TypeOK', NEW g \in Goroutines, Informing(g)
    PROVE  ListInv'
<1> USE DEF At, Goto
<1>1. /\ TypeOK
      /\ DrawHolds
      /\ UNCHANGED <<resources, toDelete, numToDelete, status>>
      BY DEF IInv, RefreshInv, ListInv, Informing, RefreshOccurred, Notify,
             NotifyMounted, TakeList, NotifyDismounted, Return, uiVars
<1>2. pc[g] \in {"sleeping", "notifying"} /\ toDelete[g] = {}
      BY <1>1 DEF Informing, RefreshOccurred, Notify, NotifyMounted, TakeList,
                  NotifyDismounted, Return, DrawHolds
<1>3. \A h \in Goroutines \ {g} : pc[h] \notin Inside /\ toDelete[h] = {}
      BY <1>1, <1>2, Alone DEF IInv, Inside, Labels
<1>4. \A h \in Goroutines \ {g} :
         pc'[h] = pc[h] /\ pc[h] \notin Inside /\ toDelete'[h] = {}
      BY <1>1, <1>3 DEF Informing, RefreshOccurred, Notify, NotifyMounted,
                        TakeList, NotifyDismounted, Return, TypeOK
<1>5. CASE RefreshOccurred(g)
  <2>1. /\ pc[g] = "sleeping" /\ pc'[g] = "notifying" /\ view' = view
        /\ pending'[g] = {c \in Components : status[c] = "mounted"}
        BY <1>1, <1>5 DEF RefreshOccurred, TypeOK, uiVars
  <2>2. \A c \in Components : status[c] = "mounted" => KeepsHalf(view[c], resources)
    <3>1. resources \ toDelete[g] = resources
          BY <1>2
    <3>2. QED BY <2>1, <3>1 DEF IInv, ListInv, HalfIsLeft, Changing
  <2>3. QED BY <1>1, <1>2, <1>4, <2>1, <2>2, ListsOfOne DEF Changing
<1>6. ASSUME pc[g] = "notifying", NEW c \in Components, status[c] = "mounted"
      PROVE  IF c \in pending[g] THEN KeepsHalf(view[c], resources)
                                 ELSE view[c] = resources
      BY <1>6 DEF IInv, ListInv, HalfIsTold
<1>7. CASE Notify(g)
  <2>1. PICK d \in Components :
           \/ pending' = pending /\ view' = view
           \/ /\ pending' = [pending EXCEPT ![g] = @ \ {d}]
              /\ view' = [view EXCEPT ![d] = listing[g]]
           \/ /\ pending' = [pending EXCEPT ![g] = @ \ {d}]
              /\ view' = view /\ status[d] # "mounted"
        BY <1>7 DEF Notify, NotifyMounted, TakeList, NotifyDismounted, uiVars
  <2>2. pc[g] = "notifying" /\ pc'[g] = "notifying" /\ listing[g] = resources
        BY <1>7 DEF Notify, NotifyMounted, TakeList, NotifyDismounted, IInv,
                    RefreshInv, ListingIsMap
  <2>3. ASSUME NEW c \in Components, status[c] = "mounted"
        PROVE  IF c \in pending'[g] THEN KeepsHalf(view'[c], resources)
                                    ELSE view'[c] = resources
        BY <1>1, <1>6, <2>1, <2>2, <2>3 DEF TypeOK
  <2>4. QED BY <1>1, <1>2, <1>4, <2>2, <2>3, ListsOfOne DEF Changing
<1>8. CASE Return(g)
  <2>1. pc[g] = "notifying" /\ pc'[g] = "idle" /\ pending[g] = {} /\ view' = view
        BY <1>1, <1>8 DEF Return, TypeOK, uiVars
  <2>2. \A c \in Components : status[c] = "mounted" => view[c] = resources
        BY <1>6, <2>1
  <2>3. QED BY <1>1, <1>2, <1>4, <2>1, <2>2, ListsOfOne DEF Changing
<1>9. QED BY <1>5, <1>7, <1>8 DEF Informing

\* A list is built from the map as it is, and keeps half of itself in what the
\* refresh of the moment will leave.
LEMMA MountKeepsLists ==
    ASSUME IInv, NEW c \in Components, Mount(c) \/ Dismount(c)
    PROVE  ListInv'
<1>1. /\ TypeOK
      /\ KeepsHalf(resources, resources)
      BY FiniteMap, KeepsAll DEF IInv, RefreshInv
<1>2. UNCHANGED <<resources, pc, numToDelete, toDelete, pending>>
      BY DEF Mount, Dismount, localVars
<1>3. \A d \in Components : status'[d] = "mounted" =>
         \/ status[d] = "mounted" /\ view'[d] = view[d]
         \/ view'[d] = resources
      BY <1>1 DEF Mount, Dismount, TypeOK
<1>4. DrawHolds'
      BY <1>2 DEF IInv, ListInv, DrawHolds
<1>5. HalfIsLeft'
      BY <1>2, <1>3 DEF IInv, ListInv, HalfIsLeft
<1>6. HalfIsTold'
      BY <1>1, <1>2, <1>3 DEF IInv, ListInv, HalfIsTold
<1>7. ListsAreCurrent'
      BY <1>2, <1>3 DEF IInv, ListInv, ListsAreCurrent
<1>8. QED BY <1>4, <1>5, <1>6, <1>7 DEF ListInv

LEMMA LockingKeepsLists ==
    ASSUME IInv, NEW g \in Goroutines, Locking(g)
    PROVE  ListInv'
<1>1. TypeOK /\ UNCHANGED <<resources, numToDelete, toDelete, pending, status, view>>
      BY DEF IInv, RefreshInv, Locking, Trigger, TryLockSucceeds, TryLockFails,
             localVars, uiVars
<1>2. \A h \in Goroutines : pc'[h] = pc[h] \/
         (pc[h] \in {"idle", "locking"} /\ pc'[h] \in {"idle", "locking", "planning"})
      BY <1>1 DEF Locking, Trigger, TryLockSucceeds, TryLockFails, At, Goto, TypeOK
<1>3. DrawHolds' /\ HalfIsLeft' /\ HalfIsTold' /\ ListsAreCurrent'
      BY <1>1, <1>2 DEF IInv, ListInv, DrawHolds, HalfIsLeft, HalfIsTold,
                        ListsAreCurrent, Changing
<1>4. QED BY <1>3 DEF ListInv

LEMMA InvInit == Init => IInv
BY RefreshInit, ListInit DEF IInv

LEMMA InvNext == IInv /\ [Next]_vars => IInv'
<1> SUFFICES ASSUME IInv, [Next]_vars PROVE IInv'
    OBVIOUS
<1>1. RefreshInv' /\ TypeOK'
      BY RefreshNext DEF IInv, RefreshInv
<1>2. CASE UNCHANGED vars
      BY <1>1, <1>2 DEF IInv, ListInv, DrawHolds, HalfIsLeft, HalfIsTold,
                        ListsAreCurrent, vars, localVars, uiVars
<1>3. CASE Next
  <2>1. ListInv'
        BY <1>1, <1>3, NextCases, SpoofKeepsLists, InformingKeepsLists,
           MountKeepsLists, LockingKeepsLists
  <2>2. QED BY <1>1, <2>1 DEF IInv
<1>4. QED BY <1>2, <1>3

\* The inductive invariant: the refreshes are kept apart, so what one has seen
\* of the map stays true until it acts on it, and the lists on display keep half.
THEOREM Invariance == Spec => []IInv
BY InvInit, InvNext, PTL DEF Spec

\* Type correctness of the pool, its goroutines and its kernel lists.
THEOREM TypeCorrect == Spec => []TypeOK
<1>1. IInv => TypeOK
      BY DEF IInv, RefreshInv
<1>2. QED BY <1>1, Invariance, PTL

\* However many refreshes are triggered, no victim is drawn from an empty pool.
THEOREM DrawsSucceed == Spec => []NeverPanics
<1>1. IInv => NeverPanics
      BY DEF IInv, RefreshInv
<1>2. QED BY <1>1, Invariance, PTL

LEMMA HalfStep ==
    ASSUME IInv, [Next]_vars, NEW c \in Components, status[c] = "mounted"
    PROVE  KeepsHalf(view[c], view'[c])
<1>1. /\ TypeOK
      /\ KeepsHalf(view[c], view[c])
      BY FiniteMap, KeepsAll DEF IInv, RefreshInv
<1>2. CASE UNCHANGED view
      BY <1>1, <1>2
<1>3. ASSUME NEW g \in Goroutines, Notify(g) PROVE KeepsHalf(view[c], view'[c])
  <2>1. PICK d \in Components :
           \/ view' = view
           \/ d \in inHandler[g] /\ view' = [view EXCEPT ![d] = listing[g]]
        BY <1>3 DEF Notify, NotifyMounted, TakeList, NotifyDismounted, uiVars
  <2>2. /\ listing[g] = resources /\ pc[g] = "notifying"
        /\ inHandler[g] \subseteq pending[g]
        BY <1>3 DEF Notify, NotifyMounted, TakeList, NotifyDismounted, At, IInv,
                    RefreshInv, ListingIsMap, HandlersInRefresh
  <2>3. c \in pending[g] => KeepsHalf(view[c], resources)
        BY <2>2 DEF IInv, ListInv, HalfIsTold
  <2>4. view'[c] = view[c] \/ (c = d /\ c \in pending[g] /\ view'[c] = resources)
        BY <1>1, <2>1, <2>2 DEF TypeOK
  <2>5. QED BY <1>1, <2>3, <2>4
<1>4. ASSUME NEW d \in Components, Mount(d) PROVE view'[c] = view[c]
      BY <1>1, <1>4 DEF Mount, TypeOK
<1>5. QED
  <2>1. ASSUME NEW g \in Goroutines, Locking(g) \/ Spoof(g) PROVE UNCHANGED view
        BY <2>1 DEF Locking, Trigger, TryLockSucceeds, TryLockFails, Spoof, Plan,
                    PlanInitial, ChooseVictims, DeleteVictim, Deleted, AddKernel,
                    Added, uiVars
  <2>2. ASSUME NEW g \in Goroutines, RefreshOccurred(g) \/ Return(g)
        PROVE  UNCHANGED view
        BY <2>2 DEF RefreshOccurred, Return, uiVars
  <2>3. ASSUME NEW d \in Components, Dismount(d) PROVE UNCHANGED view
        BY <2>3 DEF Dismount
  <2>4. CASE UNCHANGED vars
        BY <1>2, <2>4 DEF vars, uiVars
  <2>5. QED BY <1>1, <1>2, <1>3, <1>4, <2>1, <2>2, <2>3, <2>4, NextCases
            DEF Informing

\* Whatever the refreshes delete and add, and whenever a list is built, a list
\* on display loses no more than half of its kernels when it is told of them.
THEOREM HalfStays == Spec => HalfOfTheListStays
<1>1. IInv /\ [Next]_vars =>
         [\A c \in Components : status[c] = "mounted" => KeepsHalf(view[c], view'[c])]_vars
      BY HalfStep
<1>2. QED BY <1>1, Invariance, PTL DEF Spec, HalfOfTheListStays

-----------------------------------------------------------------------------
(* The pool implements ResourceFeed. *)

\* The lists as the feed sees them.
Images == [c \in Components |-> Image(view[c])]

LEMMA ImageType ==
    ASSUME NEW S
    PROVE  Image(S) \in [Kernels -> {"listed"} \cup {"absent"}]
BY DEF Image

\* A list of one component replaced is one image replaced.
LEMMA ImageReplaced ==
    ASSUME view \in [Components -> SUBSET Kernels], NEW c \in Components, NEW S,
           view' = [view EXCEPT ![c] = S]
    PROVE  Images' = [Images EXCEPT ![c] = Image(S)]
<1>1. \A d \in Components : view'[d] = IF d = c THEN S ELSE view[d]
      OBVIOUS
<1>2. \A d \in Components : Image(view'[d]) = IF d = c THEN Image(S) ELSE Image(view[d])
      BY <1>1
<1>3. Images' = [d \in Components |-> Image(view'[d])]
      BY DEF Images
<1>4. QED BY <1>2, <1>3 DEF Images

LEMMA FeedInit == Init => Feed!Init
<1> SUFFICES ASSUME Init PROVE Feed!Init
    OBVIOUS
<1>1. Image(resources) = Feed!Empty
      BY DEF Init, Image, Feed!Empty
<1>2. Images = [c \in Components |-> Feed!Empty]
  <2>1. \A c \in Components : Image(view[c]) = Feed!Empty
        BY DEF Init, Image, Feed!Empty
  <2>2. QED BY <2>1 DEF Images
<1>3. Taking = {}
      BY DEF Init, Taking
<1>4. QED BY <1>1, <1>2, <1>3 DEF Init, Feed!Init, Image, Images

\* Whoever is in a handler is alone in the refresh.
LEMMA OneHandler ==
    ASSUME RefreshInv, NEW g \in Goroutines, NEW h \in Goroutines,
           pc[g] \in Inside, inHandler[h] # {}
    PROVE  h = g
BY DEF RefreshInv, LockHeld, HandlersInRefresh, Inside, Labels

\* What a goroutine's own call of a handler does to the lists that are being
\* handed the map.
LEMMA TakingOf ==
    ASSUME RefreshInv, NEW g \in Goroutines, pc[g] = "notifying", NEW S,
           inHandler' = [inHandler EXCEPT ![g] = S]
    PROVE  Taking = inHandler[g] /\ Taking' = S
<1>1. \A h \in Goroutines \ {g} : inHandler[h] = {}
      BY OneHandler DEF Inside, Labels
<1>2. \A h \in Goroutines : inHandler'[h] = IF h = g THEN S ELSE inHandler[h]
      BY DEF RefreshInv, TypeOK
<1>3. QED BY <1>1, <1>2 DEF Taking

\* A refresh that changes the map is in no handler, and nobody else is.
LEMMA ChangeIsAlone ==
    ASSUME RefreshInv, NEW g \in Goroutines, Spoof(g)
    PROVE  Taking = {}
<1>1. pc[g] \in Inside /\ pc[g] # "notifying"
      BY SpoofInside DEF RefreshInv, Inside, Labels
<1>2. inHandler[g] = {}
      BY <1>1 DEF RefreshInv, HandlersInRefresh
<1>3. QED BY <1>1, <1>2, OneHandler DEF Taking

LEMMA FeedNext == IInv /\ [Next]_vars => [Feed!Next]_(Feed!vars)
<1> SUFFICES ASSUME IInv, [Next]_vars PROVE [Feed!Next]_(Feed!vars)
    OBVIOUS
<1>1. RefreshInv /\ TypeOK /\ ListingIsMap
      BY DEF IInv, RefreshInv
<1>2. CASE UNCHANGED <<resources, inHandler, uiVars>>
  <2>1. UNCHANGED <<status, view>>
        BY <1>2 DEF uiVars
  <2>2. QED BY <1>2, <2>1 DEF Feed!vars, Image, Taking
<1>3. ASSUME NEW g \in Goroutines, Spoof(g) PROVE [Feed!Next]_(Feed!vars)
  <2>1. Image(resources') \in Feed!Listings
        BY ImageType DEF Feed!Listings
  <2>2. UNCHANGED <<status, view>>
        BY <1>3 DEF Spoof, Plan, PlanInitial, ChooseVictims, DeleteVictim,
                    Deleted, AddKernel, Added, uiVars
  <2>3. Taking = {} /\ Taking' = Taking
    <3>1. inHandler' = inHandler
          BY <1>1, <1>3, SpoofInside DEF RefreshInv
    <3>2. QED BY <1>1, <1>3, <3>1, ChangeIsAlone DEF Taking
  <2>4. Feed!Publish
        BY <2>1, <2>2, <2>3 DEF Feed!Publish, Image
  <2>5. QED BY <2>4 DEF Feed!Next
<1>4. ASSUME NEW g \in Goroutines, NEW c \in Components, NotifyMounted(g, c)
      PROVE  [Feed!Next]_(Feed!vars)
  <2>1. Taking' = Taking \cup {c}
        BY <1>1, <1>4, TakingOf DEF NotifyMounted, At
  <2>2. /\ status[c] = "mounted"
        /\ UNCHANGED <<resources, status, view>>
        BY <1>4 DEF NotifyMounted, uiVars
  <2>3. Feed!Begin(c)
        BY <2>1, <2>2 DEF Feed!Begin, Image
  <2>4. QED BY <2>3 DEF Feed!Next
<1>5. ASSUME NEW g \in Goroutines, NEW c \in Components, TakeList(g, c)
      PROVE  [Feed!Next]_(Feed!vars)
  <2>1. /\ listing[g] = resources
        /\ UNCHANGED <<resources, status>>
        BY <1>1, <1>5 DEF TakeList, At, ListingIsMap
  <2>2. c \in Taking /\ Taking' = Taking \ {c}
        BY <1>1, <1>5, TakingOf DEF TakeList, At
  <2>3. Images' = [Images EXCEPT ![c] = Image(resources)]
        BY <1>1, <1>5, <2>1, ImageReplaced DEF TakeList, TypeOK
  <2>4. Feed!Deliver(c)
        BY <2>1, <2>2, <2>3 DEF Feed!Deliver, Image, Images
  <2>5. QED BY <2>4 DEF Feed!Next
<1>6. ASSUME NEW c \in Components, Mount(c) PROVE [Feed!Next]_(Feed!vars)
  <2>1. Images' = [Images EXCEPT ![c] = Image(resources)]
        BY <1>1, <1>6, ImageReplaced DEF Mount, TypeOK
  <2>2. Image(resources) \in Feed!Listings
        BY ImageType DEF Feed!Listings
  <2>3. Feed!Join(c)
        BY <1>6, <2>1, <2>2 DEF Mount, Feed!Join, Image, Images, Taking, localVars
  <2>4. QED BY <2>3 DEF Feed!Next
<1>7. ASSUME NEW c \in Components, Dismount(c) PROVE [Feed!Next]_(Feed!vars)
  <2>1. Feed!Leave(c)
        BY <1>7 DEF Dismount, Feed!Leave, Image, Taking, localVars
  <2>2. QED BY <2>1 DEF Feed!Next
<1>8. ASSUME NEW g \in Goroutines, Locking(g) \/ RefreshOccurred(g) \/ Return(g)
      PROVE  UNCHANGED <<resources, inHandler, uiVars>>
      BY <1>8 DEF Locking, Trigger, TryLockSucceeds, TryLockFails, RefreshOccurred,
                  Return, localVars
<1>9. ASSUME NEW g \in Goroutines, NEW c \in Components, NotifyDismounted(g, c)
      PROVE  UNCHANGED <<resources, inHandler, uiVars>>
      BY <1>9 DEF NotifyDismounted
<1>10. CASE UNCHANGED vars
       BY <1>2, <1>10 DEF vars, localVars
<1>11. QED BY <1>2, <1>3, <1>4, <1>5, <1>6, <1>7, <1>8, <1>9, <1>10, NextCases
           DEF Informing, Notify

\* The spoofed pool, its refreshes and its lock implement ResourceFeed.
THEOREM Refinement == Spec => ImplementsFeed
<1>1. Init => Feed!Init
      BY FeedInit
<1>2. IInv /\ [Next]_vars => [Feed!Next]_(Feed!vars)
      BY FeedNext
<1>3. QED BY <1>1, <1>2, Invariance, PTL DEF Spec, Feed!Spec, ImplementsFeed
=============================================================================
