--------------------------- MODULE SpoofedKernels ---------------------------
(***************************************************************************)
(* The kernel provider of spoof mode, which makes up its answers: each     *)
(* refresh deletes some kernels of the map at random and adds new ones,    *)
(* one by one, or creates a first batch when the map is empty.             *)
(*                                                                         *)
(* Nothing starts its query loop: it is refreshed when the KernelList      *)
(* mounts and by its Refresh button, a goroutine each, and the refreshes   *)
(* are kept apart by refreshMutex only.                                    *)
(***************************************************************************)
EXTENDS Naturals, FiniteSets

CONSTANTS
    Kernels,     \* bounds the pool: additions beyond it do not happen
    Goroutines,
    Components   \* kernel lists that are mounted at some time

ASSUME KernelsAssumption == IsFiniteSet(Kernels)

VARIABLES
    resources,   \* the kernels in the provider's map
    locked,      \* refreshMutex
    pc,
    numToDelete,
    toDelete,    \* victims not yet deleted
    numToAdd,
    listing,     \* RefreshOccurred's list
    pending,     \* subscribers whose handler's call is not over
    inHandler,   \* the one whose handler it is in, past the check of Mounted
    status,      \* "constructing", "mounted" or "dismounted"
    view,        \* the kernels each component shows
    panicked

localVars == <<numToDelete, toDelete, numToAdd, listing, pending, inHandler>>
uiVars == <<status, view>>
vars == <<resources, locked, pc, localVars, uiVars, panicked>>

Init ==
    /\ resources = {}
    /\ locked = FALSE
    /\ pc = [g \in Goroutines |-> "idle"]
    /\ numToDelete = [g \in Goroutines |-> 0]
    /\ toDelete = [g \in Goroutines |-> {}]
    /\ numToAdd = [g \in Goroutines |-> 0]
    /\ listing = [g \in Goroutines |-> {}]
    /\ pending = [g \in Goroutines |-> {}]
    /\ inHandler = [g \in Goroutines |-> {}]
    /\ status = [c \in Components |-> "constructing"]
    /\ view = [c \in Components |-> {}]
    /\ panicked = FALSE

Goto(g, label) == pc' = [pc EXCEPT ![g] = label]

At(g, label) == ~panicked /\ pc[g] = label

\* Mutant: every kernel may be deleted.
MaxDeleteAll(n) == n

\* Half of them, rounded up.
MaxDelete(n) == (n + 1) \div 2

\* Five if there are two or less, else a quarter, rounded up.
MaxAdd(n) == IF n <= 2 THEN 5 ELSE (n + 3) \div 4

\* Kernel ids are new: uuids.
Shown == UNION {view[c] : c \in {d \in Components : status[d] = "mounted"}}
Fresh == Kernels \ (resources \cup Shown)

-----------------------------------------------------------------------------
(* RefreshResources. *)

Trigger(g) ==
    /\ At(g, "idle")
    /\ Goto(g, "locking")
    /\ UNCHANGED <<resources, locked, localVars, uiVars, panicked>>

TryLockSucceeds(g) ==
    /\ At(g, "locking")
    /\ ~locked
    /\ locked' = TRUE
    /\ Goto(g, "planning")
    /\ UNCHANGED <<resources, localVars, uiVars, panicked>>

TryLockFails(g) ==
    /\ At(g, "locking")
    /\ locked
    /\ Goto(g, "idle")
    /\ UNCHANGED <<resources, locked, localVars, uiVars, panicked>>

\* Mutant: the lock covers only the look at Count.
PlanUnlocks(g) ==
    /\ At(g, "planning")
    /\ resources # {}
    /\ LET n == Cardinality(resources)
       IN  /\ numToDelete' \in {[numToDelete EXCEPT ![g] = d] : d \in 0 .. MaxDelete(n)}
           /\ numToAdd' \in {[numToAdd EXCEPT ![g] = a] : a \in 0 .. MaxAdd(n)}
    /\ locked' = FALSE
    /\ Goto(g, "choosing")
    /\ UNCHANGED <<resources, toDelete, listing, pending, inHandler, uiVars, panicked>>

\* spoofKernels finds kernels and draws how many to delete and to add.
Plan(g) ==
    /\ At(g, "planning")
    /\ resources # {}
    /\ LET n == Cardinality(resources)
       IN  /\ numToDelete' \in {[numToDelete EXCEPT ![g] = d] : d \in 0 .. MaxDelete(n)}
           /\ numToAdd' \in {[numToAdd EXCEPT ![g] = a] : a \in 0 .. MaxAdd(n)}
    /\ Goto(g, "choosing")
    /\ UNCHANGED <<resources, locked, toDelete, listing, pending, inHandler,
                   uiVars, panicked>>

\* spoofInitialKernels.
PlanInitial(g) ==
    /\ At(g, "planning")
    /\ resources = {}
    /\ numToAdd' \in {[numToAdd EXCEPT ![g] = a] : a \in 2 .. 7}
    /\ Goto(g, "adding")
    /\ UNCHANGED <<resources, locked, numToDelete, toDelete, listing, pending,
                   inHandler, uiVars, panicked>>

\* The victims, the same one several times perhaps; rand.Intn(0) panics.
ChooseVictims(g) ==
    /\ At(g, "choosing")
    /\ IF numToDelete[g] > 0 /\ resources = {}
          THEN panicked' = TRUE /\ UNCHANGED <<pc, toDelete>>
          ELSE /\ \E V \in SUBSET resources :
                    /\ Cardinality(V) <= numToDelete[g]
                    /\ V = {} <=> numToDelete[g] = 0
                    /\ toDelete' = [toDelete EXCEPT ![g] = V]
               /\ Goto(g, "deleting")
               /\ UNCHANGED panicked
    /\ UNCHANGED <<resources, locked, numToDelete, numToAdd, listing, pending,
                   inHandler, uiVars>>

DeleteVictim(g) ==
    /\ At(g, "deleting")
    /\ \E k \in toDelete[g] :
          /\ toDelete' = [toDelete EXCEPT ![g] = @ \ {k}]
          /\ resources' = resources \ {k}
    /\ UNCHANGED <<locked, pc, numToDelete, numToAdd, listing, pending,
                   inHandler, uiVars, panicked>>

Deleted(g) ==
    /\ At(g, "deleting")
    /\ toDelete[g] = {}
    /\ numToDelete' = [numToDelete EXCEPT ![g] = 0]
    /\ Goto(g, "adding")
    /\ UNCHANGED <<resources, locked, toDelete, numToAdd, listing, pending,
                   inHandler, uiVars, panicked>>

\* Mutant: one kernel more than drawn.
AddKernelOnceMore(g) ==
    /\ At(g, "adding")
    /\ \E k \in Fresh : resources' = resources \cup {k}
    /\ numToAdd' = [numToAdd EXCEPT ![g] = @ - 1]
    /\ UNCHANGED <<locked, pc, numToDelete, toDelete, listing, pending,
                   inHandler, uiVars, panicked>>

AddKernel(g) ==
    /\ At(g, "adding")
    /\ numToAdd[g] > 0
    /\ \E k \in Fresh : resources' = resources \cup {k}
    /\ numToAdd' = [numToAdd EXCEPT ![g] = @ - 1]
    /\ UNCHANGED <<locked, pc, numToDelete, toDelete, listing, pending,
                   inHandler, uiVars, panicked>>

\* Mutant: the lock is released before the sleep.
AddedUnlocks(g) ==
    /\ At(g, "adding")
    /\ numToAdd[g] = 0 \/ Fresh = {}
    /\ numToAdd' = [numToAdd EXCEPT ![g] = 0]
    /\ locked' = FALSE
    /\ Goto(g, "sleeping")
    /\ UNCHANGED <<resources, numToDelete, toDelete, listing, pending,
                   inHandler, uiVars, panicked>>

\* All are added (or the bound is reached); then it sleeps for a while.
Added(g) ==
    /\ At(g, "adding")
    /\ numToAdd[g] = 0 \/ Fresh = {}
    /\ numToAdd' = [numToAdd EXCEPT ![g] = 0]
    /\ Goto(g, "sleeping")
    /\ UNCHANGED <<resources, locked, numToDelete, toDelete, listing, pending,
                   inHandler, uiVars, panicked>>

\* The sleep ends; RefreshOccurred lists the map.
RefreshOccurred(g) ==
    /\ At(g, "sleeping")
    /\ listing' = [listing EXCEPT ![g] = resources]
    /\ pending' = [pending EXCEPT ![g] = {c \in Components : status[c] = "mounted"}]
    /\ Goto(g, "notifying")
    /\ UNCHANGED <<resources, locked, numToDelete, toDelete, numToAdd, inHandler,
                   uiVars, panicked>>

\* The handler of a mounted list goes on ...
NotifyMounted(g, c) ==
    /\ At(g, "notifying")
    /\ c \in pending[g]
    /\ inHandler[g] = {}
    /\ status[c] = "mounted"
    /\ inHandler' = [inHandler EXCEPT ![g] = {c}]
    /\ UNCHANGED <<resources, locked, pc, numToDelete, toDelete, numToAdd,
                   listing, pending, uiVars, panicked>>

\* ... and assigns the new kernels once it has carried over the old flags.
TakeList(g, c) ==
    /\ At(g, "notifying")
    /\ c \in inHandler[g]
    /\ view' = [view EXCEPT ![c] = listing[g]]
    /\ pending' = [pending EXCEPT ![g] = @ \ {c}]
    /\ inHandler' = [inHandler EXCEPT ![g] = @ \ {c}]
    /\ UNCHANGED <<resources, locked, pc, numToDelete, toDelete, numToAdd,
                   listing, status, panicked>>

\* That of another one does nothing.
NotifyDismounted(g, c) ==
    /\ At(g, "notifying")
    /\ c \in pending[g]
    /\ inHandler[g] = {}
    /\ status[c] # "mounted"
    /\ pending' = [pending EXCEPT ![g] = @ \ {c}]
    /\ UNCHANGED <<resources, locked, pc, numToDelete, toDelete, numToAdd,
                   listing, inHandler, uiVars, panicked>>

\* Mutant: the lock is not released.
ReturnLocked(g) ==
    /\ At(g, "notifying")
    /\ pending[g] = {}
    /\ listing' = [listing EXCEPT ![g] = {}]
    /\ Goto(g, "idle")
    /\ UNCHANGED <<resources, locked, numToDelete, toDelete, numToAdd, pending,
                   inHandler, uiVars, panicked>>

\* The deferred Unlock.
Return(g) ==
    /\ At(g, "notifying")
    /\ pending[g] = {}
    /\ listing' = [listing EXCEPT ![g] = {}]
    /\ locked' = FALSE
    /\ Goto(g, "idle")
    /\ UNCHANGED <<resources, numToDelete, toDelete, numToAdd, pending,
                   inHandler, uiVars, panicked>>

-----------------------------------------------------------------------------
(* The kernel lists. *)

\* The constructor lists the map; then the list is mounted and subscribed, and
\* triggers a refresh.  One step is exact for the program's only kernel list:
\* it is built before anything has refreshed.
Mount(c) ==
    /\ ~panicked
    /\ status[c] = "constructing"
    /\ status' = [status EXCEPT ![c] = "mounted"]
    /\ view' = [view EXCEPT ![c] = resources]
    /\ UNCHANGED <<resources, locked, pc, localVars, panicked>>

Dismount(c) ==
    /\ ~panicked
    /\ status[c] = "mounted"
    /\ status' = [status EXCEPT ![c] = "dismounted"]
    /\ UNCHANGED <<resources, locked, pc, localVars, view, panicked>>

-----------------------------------------------------------------------------
Spoof(g) ==
    Plan(g) \/ PlanInitial(g) \/ ChooseVictims(g) \/ DeleteVictim(g)
      \/ Deleted(g) \/ AddKernel(g) \/ Added(g)

Notify(g) ==
    \E c \in Components :
        NotifyMounted(g, c) \/ TakeList(g, c) \/ NotifyDismounted(g, c)

RefreshResources(g) ==
    TryLockSucceeds(g) \/ TryLockFails(g) \/ Spoof(g)
      \/ RefreshOccurred(g) \/ Notify(g) \/ Return(g)

Next ==
    \/ \E g \in Goroutines : Trigger(g) \/ RefreshResources(g)
    \/ \E c \in Components : Mount(c) \/ Dismount(c)

\* The scheduler runs every goroutine, and a sleep takes 1.5 seconds at most.
Spec ==
    /\ Init
    /\ [][Next]_vars
    /\ \A g \in Goroutines : WF_vars(RefreshResources(g))

-----------------------------------------------------------------------------
(* Properties. *)

Labels == {"idle", "locking", "planning", "choosing", "deleting", "adding",
           "sleeping", "notifying"}

\* Type correctness.
TypeOK ==
    /\ resources \subseteq Kernels
    /\ locked \in BOOLEAN
    /\ pc \in [Goroutines -> Labels]
    /\ numToDelete \in [Goroutines -> Nat]
    /\ toDelete \in [Goroutines -> SUBSET Kernels]
    /\ numToAdd \in [Goroutines -> Nat]
    /\ listing \in [Goroutines -> SUBSET Kernels]
    /\ pending \in [Goroutines -> SUBSET Components]
    /\ inHandler \in [Goroutines -> SUBSET Components]
    /\ status \in [Components -> {"constructing", "mounted", "dismounted"}]
    /\ view \in [Components -> SUBSET Kernels]
    /\ panicked \in BOOLEAN

\* The draw of a victim never finds an empty map: between the look at Count
\* and the draw no other refresh deletes the last kernel.
NeverPanics == ~panicked

\* At least half of S, rounded down, is in T.
KeepsHalf(S, T) == 2 * Cardinality(S \cap T) + 1 >= Cardinality(S)

\* What a refresh shows the user keeps at least half, rounded down, of the
\* kernels shown before, wherever in a refresh the list was built.
HalfOfTheListStays ==
    [][\A c \in Components : status[c] = "mounted" => KeepsHalf(view[c], view'[c])]_vars

\* A refresh ends, turned away by the lock or not, and with one that holds the
\* lock the lock becomes free.
RefreshEnds ==
    /\ \A g \in Goroutines : pc[g] # "idle" ~> pc[g] = "idle"
    /\ locked ~> ~locked

\* A set of kernels as a listing: a kernel has no other value here.
Image(S) == [k \in Kernels |-> IF k \in S THEN "listed" ELSE "absent"]

\* The lists that are being handed the map.
Taking == UNION {inHandler[g] : g \in Goroutines}

Feed == INSTANCE ResourceFeed
        WITH Keys <- Kernels, Values <- {"listed"}, Absent <- "absent",
             Exported <- {}, answer <- Image(resources), taking <- Taking,
             view <- [c \in Components |-> Image(view[c])]

\* The spoofed provider keeps the promise of the real ones: a handler is given
\* the whole map as it is then, never one that a refresh is changing.
ImplementsFeed == Feed!Spec

-----------------------------------------------------------------------------
(* The inductive invariant behind NeverPanics, ImplementsFeed and           *)
(* HalfOfTheListStays.                                                      *)

Inside == Labels \ {"idle", "locking"}

\* The lock is held by a refresh, never by none, and by one alone.
LockHeld ==
    /\ locked <=> \E g \in Goroutines : pc[g] \in Inside
    /\ \A g, h \in Goroutines : pc[g] \in Inside /\ pc[h] \in Inside => g = h

\* What the look at Count saw holds until the draw.
VictimsExist == \A g \in Goroutines : pc[g] = "choosing" => resources # {}

\* What is handed to the subscribers is the map.
ListingIsMap == \A g \in Goroutines : pc[g] = "notifying" => listing[g] = resources

\* A goroutine is in a handler only while it informs the subscribers.
HandlersInRefresh ==
    \A g \in Goroutines :
        /\ inHandler[g] \subseteq pending[g]
        /\ inHandler[g] # {} => pc[g] = "notifying"

\* The draw was made for the map as it is, and victims only wait while they
\* are deleted.
DrawHolds ==
    \A g \in Goroutines :
        /\ pc[g] = "choosing" => numToDelete[g] <= MaxDelete(Cardinality(resources))
        /\ pc[g] # "deleting" => toDelete[g] = {}

Changing == {"deleting", "adding", "sleeping"}

\* While g changes the map, every list on display keeps at least half of itself
\* in what g will leave, and so would a list built from the map right now.
HalfIsLeft ==
    \A g \in Goroutines : pc[g] \in Changing =>
        LET rest == resources \ toDelete[g]
        IN  /\ KeepsHalf(resources, rest)
            /\ \A c \in Components : status[c] = "mounted" => KeepsHalf(view[c], rest)

\* While g notifies, the lists still to be told keep half of themselves and the
\* others show the map.
HalfIsTold ==
    \A g \in Goroutines : pc[g] = "notifying" =>
        \A c \in Components : status[c] = "mounted" =>
            IF c \in pending[g] THEN KeepsHalf(view[c], resources)
                                ELSE view[c] = resources

\* Between the changes the lists on display show the map.
ListsAreCurrent ==
    (\A g \in Goroutines : pc[g] \notin Changing \cup {"notifying"}) =>
        \A c \in Components : status[c] = "mounted" => view[c] = resources

\* What the lock guarantees.
RefreshInv ==
    /\ TypeOK
    /\ NeverPanics
    /\ LockHeld
    /\ VictimsExist
    /\ ListingIsMap
    /\ HandlersInRefresh

\* What becomes of the lists.
ListInv ==
    /\ DrawHolds
    /\ HalfIsLeft
    /\ HalfIsTold
    /\ ListsAreCurrent

IInv == RefreshInv /\ ListInv
=============================================================================
