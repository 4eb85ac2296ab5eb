---------------------- MODULE ResourceProviderProofs ----------------------
(* Theorems about ResourceProvider, for every set of keys, components and  *)
(* goroutines, and their proofs.                                           *)
EXTENDS ResourceProvider, TLAPS

-----------------------------------------------------------------------------
(* Facts about listings. *)

LEMMA EmptyIsListing == Empty \in Listings
BY DEF Empty, Listings

LEMMA PresentKeys == ASSUME NEW l \in Listings PROVE Present(l) \subseteq Keys
BY DEF Present

LEMMA ComponentsRun == Components \subseteq Goroutines /\ Triggers \subseteq Goroutines
BY DEF Goroutines

\* Writing one key of a listing with a value or Absent gives a listing.
LEMMA WriteKey ==
    ASSUME NEW l \in Listings, NEW k \in Keys, NEW x \in Values \cup {Absent}
    PROVE  [l EXCEPT ![k] = x] \in Listings
BY DEF Listings

\* What a listing holds for a key is a value or Absent.
LEMMA ReadKey ==
    ASSUME NEW l \in Listings, NEW k \in Keys
    PROVE  l[k] \in Values \cup {Absent}
BY DEF Listings

-----------------------------------------------------------------------------
(* Type correctness. *)

LEMMA TypeInit == Init => TypeOK
BY EmptyIsListing DEF Init, TypeOK, Labels

LEMMA TypeNext == TypeOK /\ [Next]_vars => TypeOK'
<1> SUFFICES ASSUME TypeOK, [Next]_vars PROVE TypeOK'
    OBVIOUS
<1> USE ComponentsRun DEF TypeOK, Goto
<1>1. ASSUME NEW g \in Triggers, Trigger(g) PROVE TypeOK'
      BY <1>1, ConstantsAssumption DEF Trigger, providerVars, uiVars, Labels
<1>2. ASSUME NEW g \in Goroutines, Query(g) PROVE TypeOK'
  <2>1. CASE QueryFails(g)
        BY <2>1 DEF QueryFails, providerVars, uiVars, Labels
  <2>2. ASSUME NEW a \in Listings, QuerySucceeds(g, a) PROVE TypeOK'
        BY <2>2, PresentKeys DEF QuerySucceeds, providerVars, uiVars, Labels
  <2>3. QED BY <1>2, <2>1, <2>2 DEF Query
<1>3. ASSUME NEW g \in Goroutines, Advance(g) PROVE TypeOK'
  <2>1. CASE TryLockSucceeds(g)
        BY <2>1, ConstantsAssumption DEF TryLockSucceeds, uiVars, Labels
  <2>2. CASE TryLockFails(g)
        BY <2>2 DEF TryLockFails, providerVars, uiVars, Labels
  <2>3. ASSUME NEW k \in Keys, ClearKey(g, k) PROVE TypeOK'
        BY <2>3, WriteKey DEF ClearKey, uiVars
  <2>4. ASSUME NEW k \in Keys, StoreKey(g, k) PROVE TypeOK'
    <3>1. resources' \in Listings
          BY <2>4, WriteKey, ReadKey DEF StoreKey
    <3>2. QED BY <2>4, <3>1 DEF StoreKey, uiVars
  <2>5. CASE ClearDone(g)
        BY <2>5, PresentKeys DEF ClearDone, providerVars, uiVars, Labels
  <2>6. CASE RefreshOccurred(g)
        BY <2>6 DEF RefreshOccurred, providerVars, uiVars, Labels
  <2>7. CASE SnapshotDone(g)
        BY <2>7 DEF SnapshotDone, providerVars, uiVars, Labels
  <2>8. ASSUME NEW c \in Components, LookUpSubscriber(g, c) PROVE TypeOK'
        BY <2>8 DEF LookUpSubscriber, providerVars, uiVars
  <2>9. ASSUME NEW c \in Components, NotifyMounted(g, c) PROVE TypeOK'
        BY <2>9 DEF NotifyMounted, providerVars, uiVars
  <2>10. ASSUME NEW c \in Components, NotifyDismounted(g, c) PROVE TypeOK'
        BY <2>10 DEF NotifyDismounted, providerVars, uiVars
  <2>11. ASSUME NEW c \in Components, Prune(g, c) PROVE TypeOK'
        BY <2>11 DEF Prune, uiVars
  <2>12. CASE NotifyDone(g)
        BY <2>12 DEF NotifyDone, providerVars, uiVars, Labels
  <2>13. CASE PruneDone(g)
        BY <2>13 DEF PruneDone, providerVars, uiVars, Labels
  <2>14. CASE Return(g)
        BY <2>14, EmptyIsListing DEF Return, uiVars, Labels
  <2>15. ASSUME NEW c \in Components, TakeList(g, c) PROVE TypeOK'
        BY <2>15 DEF TakeList, providerVars
  <2>16. QED
        BY <1>3, <2>1, <2>2, <2>3, <2>4, <2>5, <2>6, <2>7, <2>8, <2>9, <2>10,
           <2>11, <2>12, <2>13, <2>14, <2>15 DEF Advance
<1>4. ASSUME NEW c \in Components, UserInterface(c) PROVE TypeOK'
  <2>1. ASSUME NEW k \in Keys, ReadResource(c, k) PROVE TypeOK'
    <3>1. [draft[c] EXCEPT ![k] = resources[k]] \in Listings
          BY WriteKey, ReadKey
    <3>2. QED BY <2>1, <3>1 DEF ReadResource, providerVars, localVars
  <2>2. CASE Mount(c)
        BY <2>2, EmptyIsListing DEF Mount, Built, Labels
  <2>3. CASE ParentRenders(c)
        BY <2>3 DEF ParentRenders, providerVars, localVars
  <2>4. CASE CopyFields(c)
        BY <2>4, EmptyIsListing DEF CopyFields, Built, providerVars, localVars
  <2>5. CASE Dismount(c)
        BY <2>5 DEF Dismount, localVars
  <2>6. QED BY <1>4, <2>1, <2>2, <2>3, <2>4, <2>5 DEF UserInterface
<1>5. CASE UNCHANGED vars
      BY <1>5 DEF vars, providerVars, localVars, uiVars
<1>6. QED BY <1>1, <1>2, <1>3, <1>4, <1>5 DEF Next

-----------------------------------------------------------------------------
(* The inductive invariant. *)

\* At most one goroutine is inside a refresh.
LEMMA OneRefresh ==
    ASSUME LockHeld, NEW g \in Goroutines, NEW h \in Goroutines,
           pc[g] \in InRefresh, pc[h] \in InRefresh
    PROVE  g = h
BY DEF LockHeld

LEMMA InvInit == Init => IInv
<1> SUFFICES ASSUME Init PROVE IInv
    OBVIOUS
<1>1. TypeOK
      BY TypeInit
<1>2. LockHeld
      BY ConstantsAssumption DEF Init, LockHeld, InRefresh, Labels
<1>3. FillProgress /\ MapSettled /\ ListingIsLatest
      BY DEF Init, FillProgress, MapSettled, ListingIsLatest, Filling, Informing
<1>4. /\ OnlyDeadMarked /\ HandlersInRefresh /\ SubscribersWereMounted
      /\ RunsAfterMount /\ OnlyExportedRebuilt /\ MountedStaySubscribed
      BY ComponentsRun
      DEF Init, Mounted, OnlyDeadMarked, HandlersInRefresh, SubscribersWereMounted,
          RunsAfterMount, OnlyExportedRebuilt, MountedStaySubscribed
<1>5. QED BY <1>1, <1>2, <1>3, <1>4 DEF IInv

\* Handlers are run by the goroutine that informs the subscribers.
LEMMA HandlersNext == IInv /\ [Next]_vars => HandlersInRefresh'
<1> SUFFICES ASSUME IInv, [Next]_vars PROVE HandlersInRefresh'
    OBVIOUS
<1>t. TypeOK /\ HandlersInRefresh /\ RunsAfterMount
      BY DEF IInv
<1> USE <1>t, ComponentsRun
    DEF TypeOK, HandlersInRefresh, Goto, providerVars, localVars, uiVars
<1>1. ASSUME NEW g \in Triggers, Trigger(g) PROVE HandlersInRefresh'
      BY <1>1 DEF Trigger
<1>2. ASSUME NEW g \in Goroutines, Query(g) PROVE HandlersInRefresh'
      BY <1>2 DEF Query, QueryFails, QuerySucceeds
<1>3. ASSUME NEW g \in Goroutines, Advance(g) PROVE HandlersInRefresh'
  <2>1. CASE TryLockSucceeds(g) \/ TryLockFails(g) \/ ClearDone(g)
                \/ RefreshOccurred(g) \/ SnapshotDone(g) \/ NotifyDone(g)
                \/ PruneDone(g) \/ Return(g)
        BY <2>1 DEF TryLockSucceeds, TryLockFails, ClearDone, RefreshOccurred,
                    SnapshotDone, NotifyDone, PruneDone, Return
  <2>2. ASSUME NEW k \in Keys, ClearKey(g, k) \/ StoreKey(g, k)
        PROVE  HandlersInRefresh'
        BY <2>2 DEF ClearKey, StoreKey
  <2>3. ASSUME NEW c \in Components, LookUpSubscriber(g, c) \/ Prune(g, c)
        PROVE  HandlersInRefresh'
        BY <2>3 DEF LookUpSubscriber, Prune
  <2>4. ASSUME NEW c \in Components,
               NotifyMounted(g, c) \/ TakeList(g, c) \/ NotifyDismounted(g, c)
        PROVE  HandlersInRefresh'
        BY <2>4 DEF NotifyMounted, TakeList, NotifyDismounted
  <2>5. QED BY <1>3, <2>1, <2>2, <2>3, <2>4 DEF Advance
<1>4. ASSUME NEW c \in Components, UserInterface(c) PROVE HandlersInRefresh'
      BY <1>4 DEF UserInterface, ReadResource, Mount, Built, ParentRenders,
                  CopyFields, Dismount, RunsAfterMount
<1>5. CASE UNCHANGED vars
      BY <1>5 DEF vars
<1>6. QED BY <1>1, <1>2, <1>3, <1>4, <1>5 DEF Next

LEMMA InvNext == IInv /\ [Next]_vars => IInv'
<1> SUFFICES ASSUME IInv, [Next]_vars PROVE IInv'
    OBVIOUS
<1>t. TypeOK /\ TypeOK'
      BY TypeNext DEF IInv
<1> DEFINE Parts == /\ LockHeld /\ FillProgress /\ MapSettled /\ ListingIsLatest
                    /\ OnlyDeadMarked /\ SubscribersWereMounted
                    /\ RunsAfterMount /\ OnlyExportedRebuilt /\ MountedStaySubscribed
<1>p. Parts
      BY DEF IInv
<1> SUFFICES Parts'
    BY <1>t, HandlersNext DEF IInv
<1>h. HandlersInRefresh
      BY DEF IInv
<1> USE <1>t, <1>p, ComponentsRun
    DEF TypeOK, Mounted, Goto, Labels, InRefresh, Filling, Informing, providerVars, localVars, uiVars
<1>1. ASSUME NEW g \in Triggers, Trigger(g) PROVE Parts'
      BY <1>1, ConstantsAssumption DEF Trigger,
         LockHeld, FillProgress, MapSettled, ListingIsLatest, OnlyDeadMarked,
         SubscribersWereMounted, RunsAfterMount, OnlyExportedRebuilt,
           MountedStaySubscribed
<1>2. ASSUME NEW g \in Goroutines, Query(g) PROVE Parts'
  <2>1. CASE QueryFails(g)
        BY <2>1 DEF QueryFails,
           LockHeld, FillProgress, MapSettled, ListingIsLatest, OnlyDeadMarked,
           SubscribersWereMounted, RunsAfterMount, OnlyExportedRebuilt,
           MountedStaySubscribed
  <2>2. ASSUME NEW a \in Listings, QuerySucceeds(g, a) PROVE Parts'
    <3>1. LockHeld'
          BY <2>2, ConstantsAssumption DEF QuerySucceeds, LockHeld
    <3>2. FillProgress'
          BY <2>2, OneRefresh DEF QuerySucceeds, LockHeld, FillProgress, MapSettled, Present
    <3>3. MapSettled'
          BY <2>2, OneRefresh DEF QuerySucceeds, LockHeld, FillProgress, MapSettled
    <3>4. ListingIsLatest'
          BY <2>2, OneRefresh DEF QuerySucceeds, LockHeld, ListingIsLatest
    <3>5. OnlyDeadMarked'
          BY <2>2 DEF QuerySucceeds, OnlyDeadMarked
    <3>6. SubscribersWereMounted'
          BY <2>2 DEF QuerySucceeds, SubscribersWereMounted
    <3>7. MountedStaySubscribed'
          BY <2>2 DEF QuerySucceeds, MountedStaySubscribed
    <3>8. RunsAfterMount'
          BY <2>2 DEF QuerySucceeds, RunsAfterMount
    <3>9. OnlyExportedRebuilt'
          BY <2>2 DEF QuerySucceeds, OnlyExportedRebuilt
    <3>10. QED BY <3>1, <3>2, <3>3, <3>4, <3>5, <3>6, <3>7, <3>8, <3>9
  <2>3. QED BY <1>2, <2>1, <2>2 DEF Query
<1>3. ASSUME NEW g \in Goroutines, Advance(g) PROVE Parts'
  <2>1. CASE TryLockSucceeds(g)
        BY <2>1, ConstantsAssumption DEF TryLockSucceeds,
           LockHeld, FillProgress, MapSettled, ListingIsLatest, OnlyDeadMarked,
           SubscribersWereMounted, RunsAfterMount, OnlyExportedRebuilt,
           MountedStaySubscribed
  <2>2. CASE TryLockFails(g)
        BY <2>2 DEF TryLockFails,
           LockHeld, FillProgress, MapSettled, ListingIsLatest, OnlyDeadMarked,
           SubscribersWereMounted, RunsAfterMount, OnlyExportedRebuilt,
           MountedStaySubscribed
  <2>3. ASSUME NEW k \in Keys, ClearKey(g, k) PROVE Parts'
    <3>1. LockHeld'
          BY <2>3, ConstantsAssumption DEF ClearKey, LockHeld
    <3>2. FillProgress'
      <4>1. \A h \in Goroutines : pc[h] \in Filling => h = g
            BY <2>3, OneRefresh DEF ClearKey
      <4>2. resp[g] = latest /\ resources'[k] = Absent
            BY <2>3 DEF ClearKey, FillProgress, Listings
      <4>3. \A j \in Keys \ {k} : resources'[j] = resources[j]
            BY <2>3 DEF ClearKey, Listings
      <4>4. keysLeft'[g] = keysLeft[g] \ {k}
            BY <2>3 DEF ClearKey
      <4>5. pc' = pc /\ pc[g] = "clearing" /\ resp' = resp /\ latest' = latest
            BY <2>3 DEF ClearKey
      <4>6. QED BY <4>1, <4>2, <4>3, <4>4, <4>5 DEF FillProgress
    <3>3. MapSettled'
          BY <2>3, OneRefresh DEF ClearKey, LockHeld, FillProgress, MapSettled
    <3>4. ListingIsLatest'
          BY <2>3, OneRefresh DEF ClearKey, LockHeld, ListingIsLatest
    <3>5. OnlyDeadMarked'
          BY <2>3 DEF ClearKey, OnlyDeadMarked
    <3>6. SubscribersWereMounted'
          BY <2>3 DEF ClearKey, SubscribersWereMounted
    <3>7. MountedStaySubscribed'
          BY <2>3 DEF ClearKey, MountedStaySubscribed
    <3>8. RunsAfterMount'
          BY <2>3 DEF ClearKey, RunsAfterMount
    <3>9. OnlyExportedRebuilt'
          BY <2>3 DEF ClearKey, OnlyExportedRebuilt
    <3>10. QED BY <3>1, <3>2, <3>3, <3>4, <3>5, <3>6, <3>7, <3>8, <3>9
  <2>4. ASSUME NEW k \in Keys, StoreKey(g, k) PROVE Parts'
    <3>1. LockHeld'
          BY <2>4, ConstantsAssumption DEF StoreKey, LockHeld
    <3>2. FillProgress'
      <4>1. \A h \in Goroutines : pc[h] \in Filling => h = g
            BY <2>4, OneRefresh DEF StoreKey
      <4>2. resp[g] = latest /\ resources'[k] = latest[k]
            BY <2>4 DEF StoreKey, FillProgress, Listings
      <4>3. \A j \in Keys \ {k} : resources'[j] = resources[j]
            BY <2>4 DEF StoreKey, Listings
      <4>4. keysLeft'[g] = keysLeft[g] \ {k}
            BY <2>4 DEF StoreKey
      <4>5. pc' = pc /\ pc[g] = "storing" /\ resp' = resp /\ latest' = latest
            BY <2>4 DEF StoreKey
      <4>6. QED BY <4>1, <4>2, <4>3, <4>4, <4>5 DEF FillProgress
    <3>3. MapSettled'
          BY <2>4, OneRefresh DEF StoreKey, LockHeld, FillProgress, MapSettled
    <3>4. ListingIsLatest'
          BY <2>4, OneRefresh DEF StoreKey, LockHeld, ListingIsLatest
    <3>5. OnlyDeadMarked'
          BY <2>4 DEF StoreKey, OnlyDeadMarked
    <3>6. SubscribersWereMounted'
          BY <2>4 DEF StoreKey, SubscribersWereMounted
    <3>7. MountedStaySubscribed'
          BY <2>4 DEF StoreKey, MountedStaySubscribed
    <3>8. RunsAfterMount'
          BY <2>4 DEF StoreKey, RunsAfterMount
    <3>9. OnlyExportedRebuilt'
          BY <2>4 DEF StoreKey, OnlyExportedRebuilt
    <3>10. QED BY <3>1, <3>2, <3>3, <3>4, <3>5, <3>6, <3>7, <3>8, <3>9
  <2>5. CASE ClearDone(g)
    <3>1. LockHeld'
          BY <2>5, ConstantsAssumption DEF ClearDone, LockHeld
    <3>2. FillProgress'
          BY <2>5, OneRefresh DEF ClearDone, LockHeld, FillProgress, MapSettled, Present
    <3>3. MapSettled'
          BY <2>5, OneRefresh DEF ClearDone, LockHeld, FillProgress, MapSettled
    <3>4. ListingIsLatest'
          BY <2>5, OneRefresh DEF ClearDone, LockHeld, ListingIsLatest
    <3>5. OnlyDeadMarked'
          BY <2>5 DEF ClearDone, OnlyDeadMarked
    <3>6. SubscribersWereMounted'
          BY <2>5 DEF ClearDone, SubscribersWereMounted
    <3>7. MountedStaySubscribed'
          BY <2>5 DEF ClearDone, MountedStaySubscribed
    <3>8. RunsAfterMount'
          BY <2>5 DEF ClearDone, RunsAfterMount
    <3>9. OnlyExportedRebuilt'
          BY <2>5 DEF ClearDone, OnlyExportedRebuilt
    <3>10. QED BY <3>1, <3>2, <3>3, <3>4, <3>5, <3>6, <3>7, <3>8, <3>9
  <2>6. CASE RefreshOccurred(g)
    <3>1. LockHeld'
          BY <2>6, ConstantsAssumption DEF RefreshOccurred, LockHeld
    <3>2. FillProgress'
          BY <2>6, OneRefresh DEF RefreshOccurred, LockHeld, FillProgress, MapSettled, Present
    <3>r. resources = latest
          BY <2>6 DEF RefreshOccurred, FillProgress, Listings
    <3>3. MapSettled'
          BY <2>6, <3>r DEF RefreshOccurred, MapSettled
    <3>4. ListingIsLatest'
          BY <2>6, <3>r DEF RefreshOccurred, ListingIsLatest
    <3>5. OnlyDeadMarked'
          BY <2>6 DEF RefreshOccurred, OnlyDeadMarked
    <3>6. SubscribersWereMounted'
          BY <2>6 DEF RefreshOccurred, SubscribersWereMounted
    <3>7. MountedStaySubscribed'
          BY <2>6 DEF RefreshOccurred, MountedStaySubscribed
    <3>8. RunsAfterMount'
          BY <2>6 DEF RefreshOccurred, RunsAfterMount
    <3>9. OnlyExportedRebuilt'
          BY <2>6 DEF RefreshOccurred, OnlyExportedRebuilt
    <3>10. QED BY <3>1, <3>2, <3>3, <3>4, <3>5, <3>6, <3>7, <3>8, <3>9
  <2>7. CASE SnapshotDone(g)
        BY <2>7 DEF SnapshotDone,
           LockHeld, FillProgress, MapSettled, ListingIsLatest, OnlyDeadMarked,
           SubscribersWereMounted, RunsAfterMount, OnlyExportedRebuilt,
           MountedStaySubscribed
  <2>8. ASSUME NEW c \in Components, LookUpSubscriber(g, c) PROVE Parts'
        BY <2>8 DEF LookUpSubscriber,
           LockHeld, FillProgress, MapSettled, ListingIsLatest, OnlyDeadMarked,
           SubscribersWereMounted, RunsAfterMount, OnlyExportedRebuilt,
           MountedStaySubscribed
  <2>9. ASSUME NEW c \in Components, NotifyMounted(g, c) PROVE Parts'
        BY <2>9 DEF NotifyMounted,
           LockHeld, FillProgress, MapSettled, ListingIsLatest, OnlyDeadMarked,
           SubscribersWereMounted, RunsAfterMount, OnlyExportedRebuilt,
           MountedStaySubscribed
  <2>10. ASSUME NEW c \in Components, NotifyDismounted(g, c) PROVE Parts'
        BY <2>10 DEF NotifyDismounted,
           LockHeld, FillProgress, MapSettled, ListingIsLatest, OnlyDeadMarked,
           SubscribersWereMounted, RunsAfterMount, OnlyExportedRebuilt,
           MountedStaySubscribed
  <2>11. ASSUME NEW c \in Components, Prune(g, c) PROVE Parts'
        BY <2>11 DEF Prune,
           LockHeld, FillProgress, MapSettled, ListingIsLatest, OnlyDeadMarked,
           SubscribersWereMounted, RunsAfterMount, OnlyExportedRebuilt,
           MountedStaySubscribed
  <2>12. CASE NotifyDone(g)
        BY <2>12 DEF NotifyDone,
           LockHeld, FillProgress, MapSettled, ListingIsLatest, OnlyDeadMarked,
           SubscribersWereMounted, RunsAfterMount, OnlyExportedRebuilt,
           MountedStaySubscribed
  <2>13. CASE PruneDone(g)
        BY <2>13 DEF PruneDone,
           LockHeld, FillProgress, MapSettled, ListingIsLatest, OnlyDeadMarked,
           SubscribersWereMounted, RunsAfterMount, OnlyExportedRebuilt,
           MountedStaySubscribed
  <2>14. CASE Return(g)
    <3>1. LockHeld'
          BY <2>14, ConstantsAssumption DEF Return, LockHeld
    <3>2. FillProgress'
          BY <2>14, OneRefresh DEF Return, LockHeld, FillProgress, MapSettled, Present
    <3>3. MapSettled'
          BY <2>14, OneRefresh DEF Return, LockHeld, FillProgress, MapSettled
    <3>4. ListingIsLatest'
          BY <2>14, OneRefresh DEF Return, LockHeld, ListingIsLatest
    <3>5. OnlyDeadMarked'
          BY <2>14 DEF Return, OnlyDeadMarked
    <3>6. SubscribersWereMounted'
          BY <2>14 DEF Return, SubscribersWereMounted
    <3>7. MountedStaySubscribed'
          BY <2>14 DEF Return, MountedStaySubscribed
    <3>8. RunsAfterMount'
          BY <2>14 DEF Return, RunsAfterMount
    <3>9. OnlyExportedRebuilt'
          BY <2>14 DEF Return, OnlyExportedRebuilt
    <3>10. QED BY <3>1, <3>2, <3>3, <3>4, <3>5, <3>6, <3>7, <3>8, <3>9
  <2>15. ASSUME NEW c \in Components, TakeList(g, c) PROVE Parts'
        BY <2>15 DEF TakeList,
           LockHeld, FillProgress, MapSettled, ListingIsLatest, OnlyDeadMarked,
           SubscribersWereMounted, RunsAfterMount, OnlyExportedRebuilt,
           MountedStaySubscribed
  <2>16. QED
        BY <1>3, <2>1, <2>2, <2>3, <2>4, <2>5, <2>6, <2>7, <2>8, <2>9,
           <2>10, <2>11, <2>12, <2>13, <2>14, <2>15 DEF Advance
<1>4. ASSUME NEW c \in Components, UserInterface(c) PROVE Parts'
  <2>1. ASSUME NEW k \in Keys, ReadResource(c, k) PROVE Parts'
        BY <2>1 DEF ReadResource,
           LockHeld, FillProgress, MapSettled, ListingIsLatest, OnlyDeadMarked,
           SubscribersWereMounted, RunsAfterMount, OnlyExportedRebuilt,
           MountedStaySubscribed
  <2>2. CASE Mount(c)
    <3>1. LockHeld'
          BY <2>2 DEF Mount, Built, LockHeld, RunsAfterMount
    <3>2. FillProgress'
          BY <2>2 DEF Mount, Built, FillProgress, RunsAfterMount
    <3>3. MapSettled'
          BY <2>2 DEF Mount, Built, MapSettled, RunsAfterMount
    <3>4. ListingIsLatest'
          BY <2>2, OneRefresh DEF Mount, Built, LockHeld, ListingIsLatest
    <3>5. OnlyDeadMarked'
          BY <2>2 DEF Mount, Built, OnlyDeadMarked
    <3>6. SubscribersWereMounted'
          BY <2>2 DEF Mount, Built, SubscribersWereMounted
    <3>7. MountedStaySubscribed'
          BY <2>2 DEF Mount, Built, MountedStaySubscribed
    <3>8. RunsAfterMount'
          BY <2>2 DEF Mount, Built, RunsAfterMount
    <3>9. OnlyExportedRebuilt'
          BY <2>2 DEF Mount, Built, OnlyExportedRebuilt
    <3>10. QED BY <3>1, <3>2, <3>3, <3>4, <3>5, <3>6, <3>7, <3>8, <3>9
  <2>3. CASE ParentRenders(c)
        BY <2>3 DEF ParentRenders,
           LockHeld, FillProgress, MapSettled, ListingIsLatest, OnlyDeadMarked,
           SubscribersWereMounted, RunsAfterMount, OnlyExportedRebuilt,
           MountedStaySubscribed
  <2>4. CASE CopyFields(c)
        BY <2>4 DEF CopyFields, Built,
           LockHeld, FillProgress, MapSettled, ListingIsLatest, OnlyDeadMarked,
           SubscribersWereMounted, RunsAfterMount, OnlyExportedRebuilt,
           MountedStaySubscribed
  <2>5. CASE Dismount(c)
        BY <2>5 DEF Dismount,
           LockHeld, FillProgress, MapSettled, ListingIsLatest, OnlyDeadMarked,
           SubscribersWereMounted, RunsAfterMount, OnlyExportedRebuilt,
           MountedStaySubscribed
  <2>6. QED BY <1>4, <2>1, <2>2, <2>3, <2>4, <2>5 DEF UserInterface
<1>5. CASE UNCHANGED vars
      BY <1>5 DEF vars,
         LockHeld, FillProgress, MapSettled, ListingIsLatest, OnlyDeadMarked,
         SubscribersWereMounted, RunsAfterMount, OnlyExportedRebuilt,
           MountedStaySubscribed
<1>6. QED BY <1>1, <1>2, <1>3, <1>4, <1>5 DEF Next

-----------------------------------------------------------------------------
(* The theorems. *)

\* The provider's state keeps its type.
THEOREM TypeCorrect == Spec => []TypeOK
<1>1. Init => TypeOK
      BY TypeInit
<1>2. TypeOK /\ [Next]_vars => TypeOK'
      BY TypeNext
<1>3. QED BY <1>1, <1>2, PTL DEF Spec

\* The inductive invariant holds in every reachable state.
THEOREM Invariance == Spec => []IInv
<1>1. Init => IInv
      BY InvInit
<1>2. IInv /\ [Next]_vars => IInv'
      BY InvNext
<1>3. QED BY <1>1, <1>2, PTL DEF Spec

LEMMA InvImpliesMap == IInv => MapIsLatestAnswer
<1> SUFFICES ASSUME IInv, refreshMutex = NoOne PROVE resources = latest
    BY DEF MapIsLatestAnswer
<1>1. \A g \in Goroutines : pc[g] \notin InRefresh
      BY ConstantsAssumption DEF IInv, LockHeld
<1>2. Filling \subseteq InRefresh
      BY DEF Filling, InRefresh, Labels
<1>3. QED BY <1>1, <1>2 DEF IInv, MapSettled

\* Whenever no refresh is running the map is the gateway's last answer.
THEOREM MapCorrect == Spec => []MapIsLatestAnswer
<1>1. IInv => MapIsLatestAnswer
      BY InvImpliesMap
<1>2. QED BY <1>1, Invariance, PTL

\* A mounted component never loses its subscription to the pruning.
THEOREM SubscriptionKept == Spec => []MountedStaySubscribed
<1>1. IInv => MountedStaySubscribed
      BY DEF IInv
<1>2. QED BY <1>1, Invariance, PTL

\* A step that changes what a component shows, and not where it is in its
\* life, is a call of its handler, and it brings the last answer.
LEMMA StepDelivers ==
    ASSUME IInv, [Next]_vars, NEW c \in Components,
           status'[c] = status[c], view'[c] # view[c]
    PROVE  view'[c] = latest
<1> USE DEF providerVars, localVars, uiVars
<1>t. TypeOK
      BY DEF IInv
<1>1. \/ \E g \in Goroutines, d \in Components : TakeList(g, d)
      \/ \E d \in Components : Mount(d) \/ CopyFields(d)
      \/ view' = view
      BY DEF Next, vars, Trigger, Query, QueryFails, QuerySucceeds, Advance,
             TryLockSucceeds, TryLockFails, ClearKey, StoreKey, ClearDone,
             RefreshOccurred, SnapshotDone, LookUpSubscriber, NotifyMounted,
             NotifyDismounted, Prune, NotifyDone, PruneDone, Return,
             UserInterface, ReadResource,
             ParentRenders, Dismount
<1>2. ASSUME NEW g \in Goroutines, NEW d \in Components, TakeList(g, d)
      PROVE  view'[c] = latest
  <2>1. pc[g] = "notifying"
        BY <1>2 DEF IInv, HandlersInRefresh, TakeList
  <2>2. listing[g] = latest
        BY <2>1 DEF IInv, ListingIsLatest, Informing
  <2>3. QED BY <1>2, <2>2, <1>t DEF TakeList, TypeOK
<1>3. ASSUME NEW d \in Components, Mount(d) \/ CopyFields(d)
      PROVE  FALSE
  <2>1. d = c
        BY <1>3, <1>t DEF Mount, CopyFields, Built, TypeOK
  <2>2. status'[c] = "mounted" /\ status[c] # "mounted"
        BY <1>3, <1>t, <2>1 DEF Mount, CopyFields, Built, TypeOK
  <2>3. QED BY <2>2
<1>4. QED BY <1>1, <1>2, <1>3

\* Components are only ever handed the last answer.
THEOREM DeliveryCorrect == Spec => DeliversLatest
<1> DEFINE Delivers == \A c \in Components :
              Mounted(c) /\ status'[c] = status[c] /\ view'[c] # view[c]
                  => view'[c] = latest
<1>1. IInv /\ [Next]_vars => [Delivers]_vars
      BY StepDelivers
<1>2. QED BY <1>1, Invariance, PTL DEF Spec, DeliversLatest

-----------------------------------------------------------------------------
(* The provider implements the feed. *)

LEMMA FeedInit == Init => Feed!Init
<1> SUFFICES ASSUME Init PROVE Feed!Init
    OBVIOUS
<1>1. Taking = {}
      BY DEF Init, Taking
<1>2. QED BY <1>1 DEF Init, Feed!Init, Empty, Feed!Empty, LifeCycle

\* A step that leaves the life cycle of every component alone.
LEMMA SameLifeCycle ==
    ASSUME status' = status PROVE LifeCycle' = LifeCycle
BY DEF LifeCycle

\* Whoever is in a handler is alone in the refresh: no query is answered and
\* nobody else hands out a list.
LEMMA OneHandler ==
    ASSUME IInv, NEW g \in Goroutines, NEW h \in Goroutines,
           pc[g] \in InRefresh, inHandler[h] # {}
    PROVE  h = g
<1>1. pc[h] \in InRefresh
      BY DEF IInv, HandlersInRefresh, InRefresh, Labels
<1>2. QED BY <1>1, OneRefresh DEF IInv

\* What a goroutine's own call of a handler does to the components that are
\* being handed a list.
LEMMA TakingOf ==
    ASSUME IInv, NEW g \in Goroutines, pc[g] = "notifying", NEW S,
           inHandler' = [inHandler EXCEPT ![g] = S]
    PROVE  Taking = inHandler[g] /\ Taking' = S
<1>1. \A h \in Goroutines \ {g} : inHandler[h] = {}
      BY OneHandler DEF InRefresh, Labels
<1>2. \A h \in Goroutines : inHandler'[h] = IF h = g THEN S ELSE inHandler[h]
      BY DEF IInv, TypeOK
<1>3. QED BY <1>1, <1>2 DEF Taking

LEMMA SameTaking ==
    ASSUME inHandler' = inHandler PROVE Taking' = Taking
BY DEF Taking

LEMMA FeedNext == IInv /\ [Next]_vars => [Feed!Next]_(Feed!vars)
<1> SUFFICES ASSUME IInv, [Next]_vars PROVE Feed!Next \/ UNCHANGED Feed!vars
    OBVIOUS
<1>t. TypeOK
      BY DEF IInv
<1>l. Listings = Feed!Listings
      BY DEF Listings, Feed!Listings
<1> USE DEF providerVars, localVars, uiVars
<1>1. \/ \E g \in Goroutines, d \in Components : NotifyMounted(g, d) \/ TakeList(g, d)
      \/ \E g \in Goroutines, a \in Listings : QuerySucceeds(g, a)
      \/ \E c \in Components : UserInterface(c)
      \/ latest' = latest /\ status' = status /\ view' = view /\ inHandler' = inHandler
      BY DEF Next, vars, Trigger, Query, QueryFails, Advance,
             TryLockSucceeds, TryLockFails, ClearKey, StoreKey, ClearDone,
             RefreshOccurred, SnapshotDone, LookUpSubscriber, NotifyDismounted,
             Prune, NotifyDone, PruneDone, Return
<1>2. ASSUME NEW g \in Goroutines, NEW c \in Components, NotifyMounted(g, c)
      PROVE  Feed!Begin(c)
  <2>1. LifeCycle[c] = "mounted"
        BY <1>2 DEF NotifyMounted, Mounted, LifeCycle
  <2>2. LifeCycle' = LifeCycle
        BY <1>2, SameLifeCycle DEF NotifyMounted
  <2>3. Taking' = Taking \cup {c}
        BY <1>2, TakingOf DEF NotifyMounted
  <2>4. QED BY <1>2, <2>1, <2>2, <2>3 DEF NotifyMounted, Feed!Begin
<1>2d. ASSUME NEW g \in Goroutines, NEW c \in Components, TakeList(g, c)
       PROVE  Feed!Deliver(c)
  <2>1. pc[g] = "notifying"
        BY <1>2d DEF IInv, HandlersInRefresh, TakeList
  <2>2. listing[g] = latest
        BY <2>1 DEF IInv, ListingIsLatest, Informing
  <2>3. Taking = inHandler[g] /\ Taking' = Taking \ {c}
        BY <1>2d, <2>1, TakingOf DEF TakeList
  <2>4. c \in Taking
        BY <1>2d, <2>3 DEF TakeList
  <2>5. LifeCycle' = LifeCycle
        BY <1>2d, SameLifeCycle DEF TakeList
  <2>6. QED BY <1>2d, <2>2, <2>3, <2>4, <2>5 DEF TakeList, Feed!Deliver
<1>3. ASSUME NEW g \in Goroutines, NEW a \in Listings, QuerySucceeds(g, a)
      PROVE  Feed!Publish
  <2>1. pc[g] \in InRefresh /\ inHandler[g] = {}
        BY <1>3 DEF QuerySucceeds, IInv, HandlersInRefresh, InRefresh, Labels
  <2>2. Taking = {}
        BY <2>1, OneHandler DEF Taking
  <2>3. QED BY <1>3, <1>l, <2>2, SameLifeCycle, SameTaking DEF QuerySucceeds, Feed!Publish
<1>4. ASSUME NEW c \in Components, NEW k \in Keys, ReadResource(c, k)
      PROVE  UNCHANGED Feed!vars
      BY <1>4, SameLifeCycle, SameTaking DEF ReadResource, Feed!vars
<1>5. ASSUME NEW c \in Components, Mount(c) PROVE Feed!Join(c)
  <2>1. LifeCycle[c] = "constructing"
        BY <1>5 DEF Mount, LifeCycle
  <2>2. LifeCycle' = [LifeCycle EXCEPT ![c] = "mounted"]
        BY <1>5, <1>t DEF Mount, Built, LifeCycle, TypeOK
  <2>3. draft[c] \in Feed!Listings
        BY <1>t, <1>l DEF TypeOK
  <2>4. QED BY <1>5, <2>1, <2>2, <2>3, SameTaking DEF Mount, Built, Feed!Join
<1>6. ASSUME NEW c \in Components, ParentRenders(c) PROVE UNCHANGED Feed!vars
  <2>1. LifeCycle' = LifeCycle
        BY <1>6, <1>t DEF ParentRenders, LifeCycle, TypeOK
  <2>2. QED BY <1>6, <2>1, SameTaking DEF ParentRenders, Feed!vars
<1>7. ASSUME NEW c \in Components, CopyFields(c) PROVE Feed!Replace(c)
  <2>1. LifeCycle[c] = "mounted" /\ c \in Exported
        BY <1>7 DEF CopyFields, LifeCycle, IInv, OnlyExportedRebuilt
  <2>2. LifeCycle' = LifeCycle
        BY <1>7, <1>t DEF CopyFields, Built, LifeCycle, TypeOK
  <2>3. draft[c] \in Feed!Listings
        BY <1>t, <1>l DEF TypeOK
  <2>4. QED BY <1>7, <2>1, <2>2, <2>3, SameTaking DEF CopyFields, Built, Feed!Replace
<1>8. ASSUME NEW c \in Components, Dismount(c) PROVE Feed!Leave(c)
  <2>1. LifeCycle[c] = "mounted"
        BY <1>8 DEF Dismount, LifeCycle
  <2>2. LifeCycle' = [LifeCycle EXCEPT ![c] = "dismounted"]
        BY <1>8, <1>t DEF Dismount, LifeCycle, TypeOK
  <2>3. QED BY <1>8, <2>1, <2>2, SameTaking DEF Dismount, Feed!Leave
<1>9. ASSUME latest' = latest, status' = status, view' = view, inHandler' = inHandler
      PROVE  UNCHANGED Feed!vars
      BY <1>9, SameLifeCycle, SameTaking DEF Feed!vars
<1>10. QED
       BY <1>1, <1>2, <1>2d, <1>3, <1>4, <1>5, <1>6, <1>7, <1>8, <1>9
       DEF UserInterface, Feed!Next

\* Every behaviour of the provider is one of the feed: goroutines, locks and
\* subscriptions are invisible to the components it serves.
THEOREM Refinement == Spec => ImplementsFeed
<1>1. Init => Feed!Init
      BY FeedInit
<1>2. IInv /\ [Next]_vars => [Feed!Next]_(Feed!vars)
      BY FeedNext
<1>3. QED BY <1>1, <1>2, Invariance, PTL DEF Spec, Feed!Spec, ImplementsFeed
=============================================================================
