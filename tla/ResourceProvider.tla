------------------------- MODULE ResourceProvider -------------------------
(***************************************************************************)
(* One resource provider (BaseProvider with the RefreshResources of the    *)
(* kernel, node or kernel-spec provider), the goroutines that call it and  *)
(* the UI components that read it and subscribe to it.                     *)
(*                                                                         *)
(* Every mounted component starts one goroutine that refreshes once; the   *)
(* query loop and the Refresh buttons are goroutines that refresh again    *)
(* and again.  A refresh is serialised by refreshMutex.TryLock: a caller   *)
(* that finds the lock taken returns at once.  The concurrent map          *)
(* "resources" is sharded: it is cleared, filled and read one key at a     *)
(* time, so a component built in the middle of a refresh may read a        *)
(* mixture.                                                                *)
(*                                                                         *)
(* When the parent of a mounted component renders, it calls the            *)
(* constructor again, and the UI framework copies the exported fields of   *)
(* the new instance to the mounted one: NodeList.Nodes and                 *)
(* KernelSpecCard.KernelSpecs are such fields, KernelList.kernels is not.  *)
(*                                                                         *)
(* A listing (the content of the map, an answer of the gateway, the slice  *)
(* handed to the subscribers) is a function from Keys to a value, or       *)
(* Absent when the listing does not have the key: the order of the slice   *)
(* is that of a Go map and carries no information.                         *)
(***************************************************************************)
CONSTANTS
    Keys,        \* ids of resources the gateway may report
    Values,      \* contents a resource may have
    Absent,      \* what a listing holds for an id it does not have
    Components,  \* UI component instances, one subscription id each
    Hooked,      \* those whose OnDismount unsubscribes and is called by go-app
    Exported,    \* those that keep their list in an exported field
    Triggers,    \* goroutines that call RefreshResources repeatedly
    Pollers,     \* the triggers that are a QueryResources loop
    NoOne        \* "the lock is free"

Goroutines == Components \cup Triggers

ASSUME ConstantsAssumption ==
    /\ Absent \notin Values
    /\ Hooked \subseteq Components
    /\ Exported \subseteq Components
    /\ Pollers \subseteq Triggers
    /\ Components \cap Triggers = {}
    /\ NoOne \notin Goroutines

VARIABLES
    refreshMutex,     \* the holder of refreshMutex
    resources,        \* the concurrent map
    subscribers,      \* the components whose handler is registered
    pc,               \* where each goroutine is in RefreshResources
    resp,             \* its local copy of the gateway's answer
    keysLeft,         \* the keys its current loop over the map has to do
    listing,          \* the slice RefreshOccurred took from the map
    subsLeft,         \* subscriptions its snapshot has yet to look at
    handlers,         \* handlers whose calls are not over
    inHandler,        \* the one it is in, past the check of Mounted
    unsubscribeThese, \* handlers that answered "not mounted"
    status,           \* life cycle of each component
    unread,           \* the keys a constructor of it has yet to read
    draft,            \* what that constructor has read
    view,             \* the listing each component displays
    latest            \* history: the last answer of the gateway

providerVars == <<refreshMutex, resources, subscribers>>
localVars == <<pc, resp, keysLeft, listing, subsLeft, handlers, inHandler,
               unsubscribeThese>>
uiVars == <<status, unread, draft, view>>
vars == <<providerVars, localVars, uiVars, latest>>

Listings == [Keys -> Values \cup {Absent}]
Empty == [k \in Keys |-> Absent]
Present(l) == {k \in Keys : l[k] # Absent}

Goto(g, label) == pc' = [pc EXCEPT ![g] = label]

\* app.Compo.Mounted
Mounted(c) == status[c] \in {"mounted", "rebuilding"}

Init ==
    /\ refreshMutex = NoOne
    /\ resources = Empty
    /\ subscribers = {}
    /\ pc = [g \in Goroutines |-> "idle"]
    /\ resp = [g \in Goroutines |-> Empty]
    /\ keysLeft = [g \in Goroutines |-> {}]
    /\ listing = [g \in Goroutines |-> Empty]
    /\ subsLeft = [g \in Goroutines |-> {}]
    /\ handlers = [g \in Goroutines |-> {}]
    /\ inHandler = [g \in Goroutines |-> {}]
    /\ unsubscribeThese = [g \in Goroutines |-> {}]
    /\ status = [c \in Components |-> "constructing"]
    /\ unread = [c \in Components |-> Keys]
    /\ draft = [c \in Components |-> Empty]
    /\ view = [c \in Components |-> Empty]
    /\ latest = Empty

-----------------------------------------------------------------------------
(* The goroutines. *)

\* The query loop's tick, or a click on a Refresh button.
Trigger(g) ==
    /\ pc[g] = "idle"
    /\ Goto(g, "entering")
    /\ UNCHANGED <<providerVars, resp, keysLeft, listing, subsLeft, handlers,
                   inHandler, unsubscribeThese, uiVars, latest>>

\* Mutant: the refresh does not look at the lock.
TryLockIgnored(g) ==
    /\ pc[g] = "entering"
    /\ refreshMutex' = g
    /\ Goto(g, "querying")
    /\ UNCHANGED <<resources, subscribers, resp, keysLeft, listing, subsLeft,
                   handlers, inHandler, unsubscribeThese, uiVars, latest>>

TryLockSucceeds(g) ==
    /\ pc[g] = "entering"
    /\ refreshMutex = NoOne
    /\ refreshMutex' = g
    /\ Goto(g, "querying")
    /\ UNCHANGED <<resources, subscribers, resp, keysLeft, listing, subsLeft,
                   handlers, inHandler, unsubscribeThese, uiVars, latest>>

\* "There is already an active refresh": return without refreshing.
TryLockFails(g) ==
    /\ pc[g] = "entering"
    /\ refreshMutex # NoOne
    /\ Goto(g, "idle")
    /\ UNCHANGED <<providerVars, resp, keysLeft, listing, subsLeft, handlers,
                   inHandler, unsubscribeThese, uiVars, latest>>

\* The gateway answers; Clear takes its snapshot of the keys in the map.
QuerySucceeds(g, answer) ==
    /\ pc[g] = "querying"
    /\ resp' = [resp EXCEPT ![g] = answer]
    /\ latest' = answer
    /\ keysLeft' = [keysLeft EXCEPT ![g] = Present(resources)]
    /\ Goto(g, "clearing")
    /\ UNCHANGED <<providerVars, listing, subsLeft, handlers, inHandler,
                   unsubscribeThese, uiVars>>

\* Mutant: the early return forgets the lock.
QueryFailsKeepsLock(g) ==
    /\ pc[g] = "querying"
    /\ Goto(g, "idle")
    /\ UNCHANGED <<providerVars, resp, keysLeft, listing, subsLeft, handlers,
                   inHandler, unsubscribeThese, uiVars, latest>>

\* An error or a timeout: return, keeping the old content of the map.
QueryFails(g) ==
    /\ pc[g] = "querying"
    /\ Goto(g, "returning")
    /\ UNCHANGED <<providerVars, resp, keysLeft, listing, subsLeft, handlers,
                   inHandler, unsubscribeThese, uiVars, latest>>

ClearKey(g, k) ==
    /\ pc[g] = "clearing"
    /\ k \in keysLeft[g]
    /\ resources' = [resources EXCEPT ![k] = Absent]
    /\ keysLeft' = [keysLeft EXCEPT ![g] = @ \ {k}]
    /\ UNCHANGED <<refreshMutex, subscribers, pc, resp, listing, subsLeft,
                   handlers, inHandler, unsubscribeThese, uiVars, latest>>

\* Mutant: the new answer is stored without clearing the old one.
ClearSkipped(g) ==
    /\ pc[g] = "clearing"
    /\ keysLeft' = [keysLeft EXCEPT ![g] = Present(resp[g])]
    /\ Goto(g, "storing")
    /\ UNCHANGED <<providerVars, resp, listing, subsLeft, handlers, inHandler,
                   unsubscribeThese, uiVars, latest>>

ClearDone(g) ==
    /\ pc[g] = "clearing"
    /\ keysLeft[g] = {}
    /\ keysLeft' = [keysLeft EXCEPT ![g] = Present(resp[g])]
    /\ Goto(g, "storing")
    /\ UNCHANGED <<providerVars, resp, listing, subsLeft, handlers, inHandler,
                   unsubscribeThese, uiVars, latest>>

StoreKey(g, k) ==
    /\ pc[g] = "storing"
    /\ k \in keysLeft[g]
    /\ resources' = [resources EXCEPT ![k] = resp[g][k]]
    /\ keysLeft' = [keysLeft EXCEPT ![g] = @ \ {k}]
    /\ UNCHANGED <<refreshMutex, subscribers, pc, resp, listing, subsLeft,
                   handlers, inHandler, unsubscribeThese, uiVars, latest>>

\* Mutant: the subscribers are informed while the map is being filled.
RefreshOccurredEarly(g) ==
    /\ pc[g] = "storing"
    /\ keysLeft' = [keysLeft EXCEPT ![g] = {}]
    /\ listing' = [listing EXCEPT ![g] = resources]
    /\ subsLeft' = [subsLeft EXCEPT ![g] = Components]
    /\ Goto(g, "snapshotting")
    /\ UNCHANGED <<providerVars, resp, handlers, inHandler, unsubscribeThese,
                   uiVars, latest>>

\* RefreshOccurred: list the resources, then start the snapshot of the
\* subscribers.  Nobody but the holder of the lock writes the map, so taking
\* the list key by key would take the same list.
RefreshOccurred(g) ==
    /\ pc[g] = "storing"
    /\ keysLeft[g] = {}
    /\ listing' = [listing EXCEPT ![g] = resources]
    /\ subsLeft' = [subsLeft EXCEPT ![g] = Components]
    /\ Goto(g, "snapshotting")
    /\ UNCHANGED <<providerVars, resp, keysLeft, handlers, inHandler,
                   unsubscribeThese, uiVars, latest>>

\* One shard of the snapshot of the subscribers.
LookUpSubscriber(g, c) ==
    /\ pc[g] = "snapshotting"
    /\ c \in subsLeft[g]
    /\ subsLeft' = [subsLeft EXCEPT ![g] = @ \ {c}]
    /\ handlers' = [handlers EXCEPT ![g] = @ \cup ({c} \cap subscribers)]
    /\ UNCHANGED <<providerVars, pc, resp, keysLeft, listing, inHandler,
                   unsubscribeThese, uiVars, latest>>

SnapshotDone(g) ==
    /\ pc[g] = "snapshotting"
    /\ subsLeft[g] = {}
    /\ Goto(g, "notifying")
    /\ UNCHANGED <<providerVars, resp, keysLeft, listing, subsLeft, handlers,
                   inHandler, unsubscribeThese, uiVars, latest>>

\* Mutant: the handler does not check Mounted.
NotifyUnchecked(g, c) ==
    /\ pc[g] = "notifying"
    /\ c \in handlers[g]
    /\ inHandler[g] = {}
    /\ inHandler' = [inHandler EXCEPT ![g] = {c}]
    /\ UNCHANGED <<providerVars, pc, resp, keysLeft, listing, subsLeft, handlers,
                   unsubscribeThese, uiVars, latest>>

\* Call the handler of a component: it finds it mounted and goes on.
NotifyMounted(g, c) ==
    /\ pc[g] = "notifying"
    /\ c \in handlers[g]
    /\ inHandler[g] = {}
    /\ Mounted(c)
    /\ inHandler' = [inHandler EXCEPT ![g] = {c}]
    /\ UNCHANGED <<providerVars, pc, resp, keysLeft, listing, subsLeft, handlers,
                   unsubscribeThese, uiVars, latest>>

\* Mutant: the handler of a mounted component answers false.
TakeListAnswersFalse(g, c) ==
    /\ c \in inHandler[g]
    /\ view' = [view EXCEPT ![c] = listing[g]]
    /\ unsubscribeThese' = [unsubscribeThese EXCEPT ![g] = @ \cup {c}]
    /\ handlers' = [handlers EXCEPT ![g] = @ \ {c}]
    /\ inHandler' = [inHandler EXCEPT ![g] = @ \ {c}]
    /\ UNCHANGED <<providerVars, pc, resp, keysLeft, listing, subsLeft, status,
                   unread, draft, latest>>

\* The handler has sorted the list and carried over what the old one had
\* selected: it assigns the new one and returns true.  The component may have
\* been dismounted, or be in the middle of a rebuild, by now.
TakeList(g, c) ==
    /\ c \in inHandler[g]
    /\ view' = [view EXCEPT ![c] = listing[g]]
    /\ handlers' = [handlers EXCEPT ![g] = @ \ {c}]
    /\ inHandler' = [inHandler EXCEPT ![g] = @ \ {c}]
    /\ UNCHANGED <<providerVars, pc, resp, keysLeft, listing, subsLeft,
                   unsubscribeThese, status, unread, draft, latest>>

\* The handler of a component that is no longer mounted returns false.
NotifyDismounted(g, c) ==
    /\ pc[g] = "notifying"
    /\ c \in handlers[g]
    /\ inHandler[g] = {}
    /\ ~Mounted(c)
    /\ unsubscribeThese' = [unsubscribeThese EXCEPT ![g] = @ \cup {c}]
    /\ handlers' = [handlers EXCEPT ![g] = @ \ {c}]
    /\ UNCHANGED <<providerVars, pc, resp, keysLeft, listing, subsLeft, inHandler,
                   uiVars, latest>>

NotifyDone(g) ==
    /\ pc[g] = "notifying"
    /\ handlers[g] = {}
    /\ Goto(g, "pruning")
    /\ UNCHANGED <<providerVars, resp, keysLeft, listing, subsLeft, handlers,
                   inHandler, unsubscribeThese, uiVars, latest>>

\* Mutant: the subscription is not removed.
PruneForgets(g, c) ==
    /\ pc[g] = "pruning"
    /\ c \in unsubscribeThese[g]
    /\ unsubscribeThese' = [unsubscribeThese EXCEPT ![g] = @ \ {c}]
    /\ UNCHANGED <<providerVars, pc, resp, keysLeft, listing, subsLeft,
                   handlers, inHandler, uiVars, latest>>

Prune(g, c) ==
    /\ pc[g] = "pruning"
    /\ c \in unsubscribeThese[g]
    /\ subscribers' = subscribers \ {c}
    /\ unsubscribeThese' = [unsubscribeThese EXCEPT ![g] = @ \ {c}]
    /\ UNCHANGED <<refreshMutex, resources, pc, resp, keysLeft, listing,
                   subsLeft, handlers, inHandler, uiVars, latest>>

PruneDone(g) ==
    /\ pc[g] = "pruning"
    /\ unsubscribeThese[g] = {}
    /\ Goto(g, "returning")
    /\ UNCHANGED <<providerVars, resp, keysLeft, listing, subsLeft, handlers,
                   inHandler, unsubscribeThese, uiVars, latest>>

\* The deferred Unlock; the locals go out of scope.
Return(g) ==
    /\ pc[g] = "returning"
    /\ refreshMutex' = NoOne
    /\ resp' = [resp EXCEPT ![g] = Empty]
    /\ listing' = [listing EXCEPT ![g] = Empty]
    /\ Goto(g, "idle")
    /\ UNCHANGED <<resources, subscribers, keysLeft, subsLeft, handlers,
                   inHandler, unsubscribeThese, uiVars, latest>>

-----------------------------------------------------------------------------
(* The components, run by the UI goroutine. *)

\* The constructor lists the provider's resources, one shard after another.
ReadResource(c, k) ==
    /\ k \in unread[c]
    /\ draft' = [draft EXCEPT ![c] = [@ EXCEPT ![k] = resources[k]]]
    /\ unread' = [unread EXCEPT ![c] = @ \ {k}]
    /\ UNCHANGED <<providerVars, localVars, status, view, latest>>

\* The constructor is done: the component has the list it has read.
Built(c) ==
    /\ unread[c] = {}
    /\ view' = [view EXCEPT ![c] = draft[c]]
    /\ draft' = [draft EXCEPT ![c] = Empty]
    /\ status' = [status EXCEPT ![c] = "mounted"]
    /\ UNCHANGED unread

\* Mutant: the component does not subscribe.
MountUnsubscribed(c) ==
    /\ status[c] = "constructing"
    /\ Built(c)
    /\ Goto(c, "entering")
    /\ UNCHANGED <<providerVars, resp, keysLeft, listing, subsLeft, handlers,
                   inHandler, unsubscribeThese, latest>>

\* OnMount: subscribe, then refresh in a goroutine of the component's own.
Mount(c) ==
    /\ status[c] = "constructing"
    /\ Built(c)
    /\ subscribers' = subscribers \cup {c}
    /\ Goto(c, "entering")
    /\ UNCHANGED <<refreshMutex, resources, resp, keysLeft, listing, subsLeft,
                   handlers, inHandler, unsubscribeThese, latest>>

\* The parent renders: it constructs the component once more ...
ParentRenders(c) ==
    /\ c \in Exported
    /\ status[c] = "mounted"
    /\ status' = [status EXCEPT ![c] = "rebuilding"]
    /\ unread' = [unread EXCEPT ![c] = Keys]
    /\ UNCHANGED <<providerVars, localVars, draft, view, latest>>

\* ... and the list is copied to the mounted instance, which keeps its
\* subscription; OnMount is not called.
CopyFields(c) ==
    /\ status[c] = "rebuilding"
    /\ Built(c)
    /\ UNCHANGED <<providerVars, localVars, latest>>

\* Only a hooked component unsubscribes; a NodeList has no OnDismount.
Dismount(c) ==
    /\ status[c] = "mounted"
    /\ status' = [status EXCEPT ![c] = "dismounted"]
    /\ subscribers' = subscribers \ ({c} \cap Hooked)
    /\ UNCHANGED <<refreshMutex, resources, localVars, unread, draft, view, latest>>

-----------------------------------------------------------------------------
Query(g) == QueryFails(g) \/ \E answer \in Listings : QuerySucceeds(g, answer)

\* The steps of a refresh that the Go scheduler alone is responsible for.
Advance(g) ==
    \/ TryLockSucceeds(g) \/ TryLockFails(g)
    \/ \E k \in Keys : ClearKey(g, k) \/ StoreKey(g, k)
    \/ ClearDone(g) \/ RefreshOccurred(g) \/ SnapshotDone(g)
    \/ \E c \in Components : \/ LookUpSubscriber(g, c)
                             \/ NotifyMounted(g, c)
                             \/ TakeList(g, c)
                             \/ NotifyDismounted(g, c)
                             \/ Prune(g, c)
    \/ NotifyDone(g) \/ PruneDone(g) \/ Return(g)

UserInterface(c) ==
    \/ \E k \in Keys : ReadResource(c, k)
    \/ Mount(c) \/ ParentRenders(c) \/ CopyFields(c) \/ Dismount(c)

Next ==
    \/ \E g \in Triggers : Trigger(g)
    \/ \E g \in Goroutines : Query(g) \/ Advance(g)
    \/ \E c \in Components : UserInterface(c)

Spec == Init /\ [][Next]_vars

\* The Go scheduler runs every goroutine that can run.
Scheduling == \A g \in Goroutines : WF_vars(Advance(g))

\* The websocket dial, write and read each give up after 30 seconds.
QueriesEnd == \A g \in Goroutines : WF_vars(Query(g))

\* The query loop keeps ticking.
Polling == \A g \in Pollers : WF_vars(Trigger(g))

\* The gateway does not answer every query with an error.
GatewayRecovers == SF_vars(\E g \in Goroutines, a \in Listings : QuerySucceeds(g, a))

BoundedSpec == Spec /\ Scheduling /\ QueriesEnd
FairSpec == BoundedSpec /\ Polling /\ GatewayRecovers

-----------------------------------------------------------------------------
(* Properties. *)

Labels == {"idle", "entering", "querying", "clearing", "storing",
           "snapshotting", "notifying", "pruning", "returning"}

\* Type correctness of the provider, its goroutines and its components.
TypeOK ==
    /\ refreshMutex \in Goroutines \cup {NoOne}
    /\ resources \in Listings
    /\ subscribers \subseteq Components
    /\ pc \in [Goroutines -> Labels]
    /\ resp \in [Goroutines -> Listings]
    /\ keysLeft \in [Goroutines -> SUBSET Keys]
    /\ listing \in [Goroutines -> Listings]
    /\ subsLeft \in [Goroutines -> SUBSET Components]
    /\ handlers \in [Goroutines -> SUBSET Components]
    /\ inHandler \in [Goroutines -> SUBSET Components]
    /\ unsubscribeThese \in [Goroutines -> SUBSET Components]
    /\ status \in [Components -> {"constructing", "mounted", "rebuilding", "dismounted"}]
    /\ unread \in [Components -> SUBSET Keys]
    /\ draft \in [Components -> Listings]
    /\ view \in [Components -> Listings]
    /\ latest \in Listings

\* Outside a refresh the map is exactly the last answer of the gateway:
\* nothing of an older answer survives in it, nothing is missing from it, and
\* a refresh that failed left the previous answer in place.
MapIsLatestAnswer == refreshMutex = NoOne => resources = latest

\* What RefreshOccurred hands to a mounted component (a step that is not one
\* of its own life cycle) is the gateway's latest answer: never a partly
\* filled map, never an older answer that a slower refresh delivers after a
\* newer one.
DeliversLatest ==
    [][\A c \in Components :
          Mounted(c) /\ status'[c] = status[c] /\ view'[c] # view[c]
              => view'[c] = latest]_vars

\* A component keeps its subscription as long as it is mounted, although
\* every refresh prunes the subscriptions whose handler answers false.
MountedStaySubscribed ==
    \A c \in Components : Mounted(c) => c \in subscribers

\* An active refresh ends and releases the lock, so that those who were told
\* to wait for it can refresh again.
RefreshEnds == refreshMutex # NoOne ~> refreshMutex = NoOne

\* As long as it is mounted, a component is brought up to date with the last
\* answer of the gateway again and again, whatever its constructor read and
\* whether or not its own first refresh was turned away.
MountedGetsUpToDate ==
    \A c \in Components : []<>(Mounted(c) => view[c] = latest)

\* The subscription of a dismounted component is given up, also for a
\* component without OnDismount: a later refresh prunes it.
DismountedIsForgotten ==
    \A c \in Components : status[c] = "dismounted" ~> c \notin subscribers

\* Being rebuilt is a matter of the component alone.
LifeCycle == [c \in Components |->
                 IF status[c] = "rebuilding" THEN "mounted" ELSE status[c]]

\* The components that are being handed a list.
Taking == UNION {inHandler[g] : g \in Goroutines}

\* The gateway's list as the consumers see it.
Feed == INSTANCE ResourceFeed
        WITH answer <- latest, status <- LifeCycle, taking <- Taking

\* The provider implements the feed.
ImplementsFeed == Feed!Spec

-----------------------------------------------------------------------------
(* The inductive invariant behind the safety properties. *)

InRefresh == Labels \ {"idle", "entering"}
Filling == {"clearing", "storing"}
Informing == {"snapshotting", "notifying", "pruning"}

\* The goroutines inside a refresh are the holder of the lock.
LockHeld == \A g \in Goroutines : pc[g] \in InRefresh <=> refreshMutex = g

\* While the map is rewritten: what the loop has passed is done.
FillProgress ==
    \A g \in Goroutines :
        /\ pc[g] \in Filling => resp[g] = latest
        /\ pc[g] = "clearing" =>
              \A k \in Keys \ keysLeft[g] : resources[k] = Absent
        /\ pc[g] = "storing" =>
              \A k \in Keys \ keysLeft[g] : resources[k] = latest[k]

\* Unless someone is rewriting it, the map is the last answer.
MapSettled ==
    (\A g \in Goroutines : pc[g] \notin Filling) => resources = latest

\* What is handed to the subscribers is the last answer.
ListingIsLatest ==
    \A g \in Goroutines : pc[g] \in Informing => listing[g] = latest

\* Handlers belong to components that were mounted, and only handlers of
\* components dismounted for good are marked for pruning.
OnlyDeadMarked ==
    \A g \in Goroutines :
        /\ \A c \in handlers[g] : status[c] # "constructing"
        /\ \A c \in unsubscribeThese[g] : status[c] = "dismounted"

\* A goroutine is in a handler only while it informs the subscribers.
HandlersInRefresh ==
    \A g \in Goroutines :
        /\ inHandler[g] \subseteq handlers[g]
        /\ inHandler[g] # {} => pc[g] = "notifying"

SubscribersWereMounted == \A c \in subscribers : status[c] # "constructing"

\* The refresh of a component starts when it is mounted.
RunsAfterMount ==
    \A c \in Components : status[c] = "constructing" => pc[c] = "idle"

\* Only an exported list is rebuilt.
OnlyExportedRebuilt ==
    \A c \in Components : status[c] = "rebuilding" => c \in Exported

\* The invariant that every step preserves, whatever goroutine takes it: the
\* state of the lock, of the map and of each local copy belong together.
IInv ==
    /\ TypeOK
    /\ LockHeld
    /\ FillProgress
    /\ MapSettled
    /\ ListingIsLatest
    /\ OnlyDeadMarked
    /\ HandlersInRefresh
    /\ SubscribersWereMounted
    /\ RunsAfterMount
    /\ OnlyExportedRebuilt
    /\ MountedStaySubscribed
=============================================================================
