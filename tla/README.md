# The workload driver, specified

This directory is the specification of `src/src` of the workload driver: a Go
program compiled to WebAssembly that runs in a browser page (go-app), shows the
kernels, nodes and kernel specs of a cluster, and talks to a Cluster Gateway
(gRPC) and to its own backend (websockets). The TLA+ modules model the parts
whose behaviour depends on the order in which goroutines run, on failures and
on time; TLC checks them on small instances and TLAPS proves their safety
properties for all values of their constants.

    tlc -config provider_safety.cfg MCResourceProvider.tla    one run
    tlapm ResourceProviderProofs.tla                          the proofs

`PROJECT.json` lists the components, the runs, the source lines behind each
definition, the hazards, the disagreements found and the theorems.

## 1. Inventory

Paths are relative to `src/src`.

| Component | Its state | Its operations | Hard about it |
|---|---|---|---|
| Resource providers (`providers/provider.go`, `kernel_`, `node_`, `kernel_spec_provider.go`) | concurrent map `resources`, concurrent map `subscribers`, `refreshMutex`, `rpcClient`, `lastRefresh`, `connectedToGateway` | `Start`, `DialGatewayGRPC`, `RefreshResources`, `RefreshOccurred`, `Resources`, `Count`, `Subscribe`/`UnsubscribeFromRefreshes` | a refresh is not atomic (the map is cleared and filled entry by entry) and is read while it runs; callers that find the lock taken give up; subscriptions are pruned by the answers of handlers given earlier |
| Query loop (`provider.go:91-122`) | ticker, `lastRefresh` | `QueryResources` | ticks are lost and skipped, manual refreshes stamp the same `lastRefresh` and hold the same lock |
| Workload driver (`driver/driver.go`) | `rpcClient`, `connectedToGateway`, `gatewayAddress`, the three providers, the error handler | `DialGatewayGRPC`, `MigrateKernelReplica`, getters | one goroutine per click on Connect, flags raised before what they announce is there, errors of `Start` dropped |
| Main window (`components/main_window.go`) | `ConfigurationReceived`, `err`, `errMsg`, alerts, the driver | fetching the configuration, `Render` by phases, connecting, error modal, migration modal | conditions of the phases are read one after the other while connect goroutines write them; an error message that passes for a configuration |
| Kernel list (`components/kernel_list.go`) | `kernels`, `expanded`, `selected`, `numSelected` | mount/dismount, `recreateState`, clicks, terminate | rebuilt by the goroutine of a refresh while the user clicks |
| Node list (`components/node_list.go`) | `Nodes`, `expanded`, `selectedIdx` | mount, handler, clicks | never unsubscribes; its exported list is replaced at every Render of the parent, by what its constructor has read from the map, perhaps long before |
| Kernel spec card (`components/kernel_spec_card.go`) | `KernelSpecs`, selected tab | mount/dismount, handler, tab clicks | a tab index into a list that others replace |
| Modals (`components/modal.go`, `migration_modal.go`, `error_modal.go`) | `migarateModalOpen`, `replicaToMigrate`, the dialog on display | open, cancel, submit, close | two parties meet on an unbuffered channel, one of them the UI goroutine; the flag changes while the dialog of an earlier Render is still on display |
| Spoofed kernel provider (`providers/spoofed_kernel_provider.go`) | the map of made-up kernels, `refreshMutex` | random creation and deletion | draws from a pool looked at before; arithmetic on its size; a sleep inside the lock |
| Backend handlers (`server/*_handler.go`) | local to each request | kernel specs, nodes, configuration, over a websocket each | two lists fetched one after the other and joined; calls without a deadline that outlive the client's; panics in the middle of a request |
| Messenger (`messenger/messenger.go`) | a pool of client channels, owned by a monitor goroutine | `Sub`, `Unsub`, `Broadcast`, `Len`, `Reset`, `Kill` | closing and sending on shared channels; a monitor that waits for a client that waits for it; one channel used in both directions; nothing imports it |
| Presentation, domain types, configuration, proxy, entry point, generated gRPC code | – | – | stateless, pure I/O or generated |

How they interact. The main window fetches the configuration in a goroutine and
hands the result to the UI goroutine (`Context.Dispatch`), which constructs the
driver and its three providers. A click on Connect starts a goroutine that dials
the gateway, raises `connectedToGateway` and starts the kernel and node
providers, each with a query loop of its own. The next Render shows the
dashboard; the lists it mounts read the provider in their constructor,
subscribe, and start a goroutine that refreshes once. Every refresh, whoever
started it, calls all subscribers in its own goroutine and then removes the
subscriptions of those that answered "not mounted". Any goroutine may report an
error to the window, where the latest one replaces what was there. In spoof mode
the same lists refresh the spoofed kernel provider. A Migrate button in a row of
the kernel list opens a dialog whose handlers run on the UI goroutine.

What makes them correct, in short:

- providers: outside a refresh the map is the gateway's last answer; handlers
  get whole and current answers only; a mounted component stays subscribed and
  is brought up to date again and again; a dismounted one is forgotten; a
  refresh releases the lock, whatever happens in it;
- query loop: refreshes keep coming at a bounded distance;
- session: a phase can always be shown, phases only advance, what the dashboard
  uses is there, errors are displayed, a connection becomes visible;
- main window: no handler hangs the UI goroutine, the latest error comes on
  display, the dialog on display follows the user's last choice;
- kernel list: the number of selected kernels is right and what the user has
  selected or expanded survives a refresh, unless clicked during it;
- node list and spec card: what is on display catches up with the provider, unless
  a list built during the last refresh replaces it; the selected index stays within a list that does not shrink, expanded rows survive;
- spoofed provider: it keeps the promise of the real ones, never draws from an
  empty pool, and changes the list by no more than half at a time;
- messenger: no channel is closed twice or sent on when closed, messages arrive
  in order and once, and no call waits for ever;
- backend: an answer belongs to the request it is taken for, a provider has one
  socket open at most, and every request ends.

## 2. The modules

| Module | Role |
|---|---|
| `ResourceFeed` | abstract specification: what a provider promises its components |
| `ResourceProvider` | a provider, the goroutines that refresh it, the components that read it and subscribe; implements `ResourceFeed` |
| `MCResourceProvider` | `ResourceProvider` with the symmetry of keys and values, for TLC |
| `ResourceProviderProofs` | its theorems |
| `QueryLoop`, `QueryLoopProofs` | the timing of a query loop, and the theorems |
| `Session` | configuration, phases, connect goroutines, driver, error modal |
| `MainWindow`, `MainWindowProofs` | `Session` composed with the migration dialog, its cancel protocol and the driver's migration request; and the theorems about both |
| `KernelList`, `KernelListProofs` | the state of the kernel list through refreshes and clicks, and the theorems |
| `Cards`, `CardsProofs` | the node list and the kernel spec card, between a provider's refreshes, the parent's Renders and the user; and the theorems |
| `SpoofedKernels`, `SpoofedKernelsProofs` | the kernel provider of spoof mode; implements `ResourceFeed` too; and the theorems |
| `Backend`, `BackendProofs` | the requests of the node or kernel spec provider, the handlers that serve them, a cluster that changes; and the theorems |
| `Broadcasting` | abstract specification: what a broadcaster promises its clients |
| `Messenger`, `MessengerProofs` | the copied broadcaster, which implements `Broadcasting`; and the theorems |

### ResourceProvider

One instance stands for any of the three providers; their `RefreshResources`
differ in the transport only (`ListKernels` without a deadline, the other two
over a websocket whose dial, read and write give up after 30 seconds).

| In the code | In the module |
|---|---|
| `resources` | `resources`, a listing: key to value or `Absent` |
| keys of `subscribers` | `subscribers` |
| `refreshMutex` | `refreshMutex`, its holder or `NoOne` |
| the local variables of `RefreshResources` and `RefreshOccurred` | `pc`, `resp`, `keysLeft`, `listing`, `subsLeft`, `handlers`, `inHandler`, `unsubscribeThese`, per goroutine |
| `Mounted()` and the constructor in progress | `status`, `unread`, `draft` |
| `KernelList.kernels`, `NodeList.Nodes`, `KernelSpecCard.KernelSpecs` | `view` |
| – | `latest`, history: the last answer of the gateway |

A refresh is `TryLockSucceeds` (or `TryLockFails`), `QuerySucceeds` or
`QueryFails`, `ClearKey`s and `ClearDone`, `StoreKey`s and `RefreshOccurred`,
the snapshot of the subscribers (`LookUpSubscriber`, `SnapshotDone`), the
handlers (`NotifyMounted` or `NotifyDismounted`, the look at `Mounted`, and
`TakeList`, the assignments, each in turn for one subscriber), the pruning (`Prune`,
`PruneDone`) and the deferred unlock (`Return`). The concurrent map locks one
shard at a time, so every loop over it is a step per key; the list that
`RefreshOccurred` itself takes is one step, because only the holder of the lock
writes the map. Between a handler's look at `Mounted` and its assignments lies a
loop that allocates, where the goroutine may be suspended: the component may be
dismounted there, and takes the list all the same (`inHandler` holds the component
whose handler is at work). Order within a slice is that of a Go map and is left out.

Components: `ReadResource` is the constructor's walk over the map, `Mount` is
`OnMount` (subscribe, start a goroutine), `Dismount` is `OnDismount` for the
components whose hook the framework calls (`Hooked`) and the framework's
dismounting alone for the others. `NodeList` has no hook. `KernelList` and
`KernelSpecCard` declare `OnDismount(ctx app.Context)` (kernel_list.go:133,
kernel_spec_card.go:72), while the interface of go-app v9 has no parameter, as
`Modal.OnDismount()` (modal.go:122): with that version they are not hooked
either, and only a refresh forgets them. The runs have a component of each kind,
and the theorems hold for every set `Hooked`.
`ParentRenders` and `CopyFields` are what go-app does with a child that is
mounted: the parent's Render calls its constructor again and the framework copies
the exported fields of the new instance to the mounted one. `NodeList` and
`KernelSpecCard` keep their lists in such fields (`Exported`), `KernelList` does
not. The framework is not under `src/`; its part is marked external.

### QueryLoop

Discrete time; the loop takes a tick as soon as it may, a refresh takes at most
`MaxRefresh` units, ages count up to `Horizon`. The ticker has a channel of
capacity one and drops ticks; it runs from the construction of the provider, so
`Init` allows every phase of it. `SkipTick` is the `continue` of line 102,
`FindBusy` a `TryLock` that fails, `ManualRefresh` a Refresh button or a
mounting component. Nothing closes `quitQueryChannel` and nothing clears
`connectedToGateway`, so the branches that leave the loop are dead and left out.

### Session

`getConfigFromBackend` and its outcomes (`FetchConfig`), the closures it
dispatches and the UI goroutine that runs them in order (`Dispatched`), a Render
in up to three steps, one per condition of a phase (`CheckPhaseOne`, `Two`,
`Three`), the goroutine of each click on Connect (`DialFails`, `DialSucceeds`,
`SetConnected`, `StartKernels`, `StartNodes`, `StartFails`, `ConnectReturns`) and
the first refresh of the kernel list (`MountRefresh`). A panic in any goroutine
ends the program (`crashed`). In spoof mode phase two is never shown, so the
branch of `DialGatewayGRPC` for spoofed clusters is unreachable and left out. All
updates of the page that have nothing to do with connecting are the action `Touch`.

`err` is `w.err`, by what went wrong: the configuration, the gateway, a migration
or an undetermined phase; `w.errMsg` is set and cleared with it. `Configuration` and
`ErrorMessage` share the JSON key `Valid` (config.go:27, types.go:124), so an
ErrorMessage of the backend decodes as valid options, all of them empty
(`ConfigRefused`): the branch for error messages (main_window.go:106-114) is dead and
left out, and an answer without `Valid` is the panic of line 117
(`ConfigUnreadable`). `HandleError` is
called by whichever goroutine and replaces what is there; a Render that ends puts
the error modal on display (`modal`); its Close calls `recover`, which clears the
current error, even a newer one than the modal shows (`CloseErrorModal`).

### MainWindow

`MainWindow` EXTENDS `Session` and adds the dialog that asks where a replica shall
go. Every step of the session is a step here, those of the UI goroutine only
when no handler blocks it (`ui`).

| In the code | In the module |
|---|---|
| `migarateModalOpen`, `replicaToMigrate` | the same |
| the `MigrationModal` that go-app has mounted | `dialog`, set by the Render that ends (`RenderStep`) |
| the Migrate button of a row | `OnMigrateButtonClicked` |
| `handleCancel`, by the Cancel button, the X, a click outside or Escape, and `OnCancel`'s sends | `HandleCancel`, then `Signal` |
| the goroutine of `handleCancel` | `receiver` |
| `OnSubmit` and `MigrateKernelReplica` | `OnMigrateSubmit`, `MigrateKernelReplica` |

Nothing marks the dialog as dirty, so the branch of `handleCancel` for a dirty
dialog is unreachable (its goroutine would wait for ever). The node that is
chosen in the dialog is never sent and is left out. `rpcCallTimeout` is never
assigned: the deadline of a migration has passed before the call, so that it
always fails, and `MigrateKernelReplica` has no other outcome but the panic of a
nil client. go-app updates the components that enclose the source of an event,
hence the `dirty'` of the button. Escape reaches the listeners of both modals; each
is closed by an action of its own.

### KernelList

`recreateState` is run by the goroutine of a refresh: it copies the flags of each
kernel of the new list and then assigns the copies. `touched`, a history variable, is what the user has clicked meanwhile. Clicks are run by the UI
goroutine, on the kernels that were last rendered. In the browser build one
goroutine runs at a time; it may be suspended where the loop allocates but not
between the final assignments, which are therefore one step (`FinishRefresh`),
like each click handler. A missing map entry reads as false, so each map is the
set of kernels it maps to true.

### Cards

One component at a time, a node list or a kernel spec card (`kind`), with the
refreshes of its provider: the map loses and gains its keys one by one
(`ClearKey`, `StoreKey`), the handler gets a listing (`Notify`), sorted for nodes and in the map's own order for specs,
a node list copies the `expanded` flags row by row (`CopyExpanded`), and the
handler assigns and updates (`Finish`). A Render of the parent builds the component
anew (`ParentRenders`): the constructor reads the map key by key (`ReadKey`), blocking
the UI goroutine while refreshes go on, and go-app then copies the exported list to
the mounted component (`CopyFields`). `build` says whether a refresh was running at
any moment since; the list copied from such a build is `stale`, a history variable:
it may be partial, and it may replace the complete one a handler has assigned
meanwhile. `Show` is the card's body: it indexes the list it renders with the
tab that was selected on an earlier one. `shrunk` and `touched` are history too.

### SpoofedKernels

A goroutine per refresh: `TryLockSucceeds` or `TryLockFails`, `Plan` (the draws of
how many to delete and to add) or `PlanInitial`, `ChooseVictims`, `DeleteVictim`,
`AddKernel`, `Added`, the sleep, `RefreshOccurred`, the handlers (`NotifyMounted`, `TakeList`, `NotifyDismounted`),
`Return`. A list reads the pool and subscribes in one step (`Mount`); the program's only
list is built before anything refreshes, so that nothing comes in between. A draw of
a victim from an empty map is Go's panic of `rand.Intn(0)`. Kernel ids are uuids,
so a new one is not in the map and on no list (`Fresh`); that the pool is finite
is a bound, at which additions stop. Victims may be drawn several times, so any
non-empty set of at most that many is possible.

### Backend

The provider's end and the handler's end of each request, in numbered requests
(the lock admits one at a time). The node and the kernel spec provider share
nothing but the process of the backend, so `endpoint` says which of the two is
looked at.

| In the code | In the module |
|---|---|
| how far `RefreshResources` is, and how it ends | `phase`: `Dial`, `DialFails`, `Dialed`, `WriteRequest`, `WriteFails`, `TakeAnswer`, `TakeError`, `ReadFails` |
| the websocket `c`, closed by `Close` or the deferred `CloseNow` | `connected` |
| the message written, the answer written | `sent`, `reply` |
| how far `ServeHTTP` and `HandleRequest` are | `handler`: `Accept`, `ReadPayload`, `PayloadFails`, then the node handler's `ListNodes`, `ListMetrics`, `ListFails`, `ListPods`, `NodePanic`, `SendNodes`, or the kernel spec handler's `SpoofSpecs`, `FetchSpecs`, `FetchFails` |
| `nodes.Items`, `nodeUsageMetrics.Items`, the loop over the nodes | `items`, `usage`, `todo` |
| – | `ever`, `throughout`, history: the nodes that were in the cluster at some time, or all the time, since the request began |

A handler is not told that its client has given up: it goes on, and writes its
answer to a socket nobody reads. A refused list is answered by an ErrorMessage,
which the provider cannot decode as a list; it logs that and keeps what it had.
`NodePanic` stands for the three places where the handler indexes or
dereferences what need not be there (k8s_node_handler.go:121, 169 and 198).
Marshalling is total on these types, and the `op` the providers send is the one
the handlers expect, so those two branches are left out. Pods and capacities are
data the properties do not look at. What the kernel spec handler does with Jupyter's
answer is: decode it, log it, and return an empty list
(kernel_spec_handler.go:134), so a fetch that succeeds is answered with no specs.

### Messenger

One monitor goroutine (`monitor`) that owns `pool` and takes a request at a time;
`buffer` and `drop` are the arguments of `New`. Requests are unbuffered channels:
taking one is a joint step of the monitor and the caller. `Broadcast` hands a
message to the clients in any order; a client with a full channel is skipped with
`drop` (`SkipFull`) and waited for without. `Len` sends its request on the channel on which
it then awaits the answer, so that a second caller's request may be read as the
answer (`LenMixedUp`). `since`, `received`, `alone` and `miscounted` are history.

## 3. The runs

Passing runs.

| Run | Instance | What it shows |
|---|---|---|
| `provider_safety` | two keys, two values, a kernel list (with `OnDismount`, private list) and a node list (without, exported list), one query loop; 2,554,012 states up to symmetry | map, subscriptions and deliveries are right under every interleaving of three goroutines and the UI; the inductive invariant of the proofs; the refinement of `ResourceFeed` |
| `provider_liveness` | the same with one key and one value; 33,062 states | refreshes end, mounted components catch up, dismounted ones are forgotten |
| `query_loop` | interval 4, refresh up to 3, ages up to 12 | less than two intervals and a refresh go by without the end of a refresh |
| `session` | module `MainWindow`: two clicks, one replica, spoof mode on and off; 68,819 states | the phases, the dashboard's client, the configuration request and the connection; handlers of the dialog return, errors and dialogs come on display; the inductive invariant of the proofs |
| `kernel_list` | three kernels; 1,947,448 states | `numSelected` is the number of selected kernels; a refresh changes no choice but those clicked while it ran; the inductive invariant of the proofs |
| `cards` | two items, node list or spec card; 132,144 states | a tab index leaves the list only when a shorter one has replaced it, expanded rows survive, the display catches up unless the list copied last was built during a refresh; the inductive invariant of the proofs |
| `spoofed_kernels` | five kernels, two goroutines, one list; 285,744 states | no draw from an empty pool, the list changes by half at most, refreshes end, the refinement of `ResourceFeed`, and the inductive invariant of the proofs |
| `backend` | two requests, two nodes, one spec, either endpoint, spoofed or not; 83,804 states | one socket at a time; answers are from the time of their own request although nodes come and go and old handlers answer late; every request ends, with handlers that panic or never finish |
| `messenger` | two subscribers, two callers of `Len`, two messages, buffer 0 or 1, drop or not; 86,700 states | no panic on a channel, `Len` counts when alone, `Unsub` and `Len` return; the refinement of `Broadcasting`; the inductive invariant of the proofs, `InOrder` among its parts |

Runs that TLC refutes. Each one checks a single statement of the repository's
own comments or messages against what the code does.

| Run | Statement | What happens |
|---|---|---|
| `query_loop_skip` | "If we've manually refreshed the kernels since the last query interval" (provider.go:98) | the stamp is set at the end of the loop's own refresh, too: its next tick finds it younger than an interval and is skipped, so the loop queries on every second tick |
| `session_early_dashboard` | "in order for us to be in Phase 3, we need to be connected" (main_window.go:439) | the driver's flag is raised before the kernel provider has its client; the list's first refresh then calls a nil client |
| `session_refused_config` | "We didn't receivea valid config, but we also didn't receive a valid error message" (main_window.go:116), which reserves the panic for answers that are neither | an ErrorMessage of the backend decodes as a valid configuration with empty options: it is not reported, and `NewWorkloadDriver` panics on the empty interval (driver.go:42) |

Why the bounds are enough. Two keys are what it takes to tell a partial listing
from a whole one and a mixture of two answers from either; two values tell
an entry that was updated from one that appeared; keys and values are symmetric. One
component of each kind (with and without hook, with and without exported list)
and one loop give three goroutines that compete for the lock: one inside, one
turned away, one arriving. Liveness speaks of one component and one listing at a
time, so one key is enough there. In `QueryLoop` a refresh may be shorter than,
or almost as long as, an interval, and `Horizon` only has to exceed the bound
that is checked. In `Session` two clicks give the overlaps of two
connect goroutines; a third adds no new flag to race for. Two requests in
`Backend` are the current one and an earlier one whose handler is still at work;
two nodes let one stay while the other comes, goes, or has a metric of its own.
Three kernels in
`KernelList` allow one kernel copied, one being copied and one not yet copied.
One replica is enough for the dialog: a second one changes what it says, not what
can happen to it. Two items in `Cards` give lists of three lengths, a
tab at either end, and in every loop a key that is done and one that is not; three
items have more than eight million states, too many for a run. Five spoofed kernels reach the case of two or less
and that of a quarter, odd and even halves, and the start over after the last one
is deleted; two goroutines compete for the lock. Two messages suffice to see an
order, and a buffer of one to be full; two callers of `Len` to mix up.
The runs of the session, the cards and the messenger do not check for deadlock:
a page may stop after a panic, or when the user does nothing more, and a
messenger that was killed has nothing left to do. In `backend` the absence of
deadlock says little, since the cluster can always change; `RequestsEnd` is what
counts there. The theorems remove the bounds of the safety properties of every
passing run; the liveness properties are checked within these bounds only.

## 4. Fairness

- `Scheduling` (weak): the Go scheduler runs each goroutine that can run.
- `QueriesEnd` (weak): a query gets an answer or an error. The node and kernel
  spec providers have timeouts of 30 seconds; the kernel provider has none, so
  for it this is an assumption on the gateway: without it a call that is never
  answered holds the lock for ever, and the list is frozen (kernel_provider.go:46).
- `Polling` (weak): the ticker fires and the loop takes ticks; `QueryLoop`
  justifies it by showing that skipped and lost ticks do not stop the loop.
- `GatewayRecovers` (strong): not every query fails. Without it a component
  cannot be expected to catch up.
- `Session!Fairness`: goroutines are scheduled, the configuration request has
  timeouts, the page renders when an update is due. The UI goroutine selects
  among closures and frames, and takes no closure while it renders: running a
  closure is strongly fair. `DialsReturn` is separate: `grpc.Dial` with
  `WithBlock` has no deadline, so that a dial returns is up to the network. No fairness is
  assumed of clicks, mounting, rendering by parents or manual refreshes.

- `MainWindow!WindowFairness`: the same in the composition, and the handlers go on:
  the two ends of `handleCancel`'s channel meet, and a migration's rpc, whose
  deadline has passed, returns. Frames compete with events for the UI goroutine and are held
  up by handlers: strong fairness. Dials return here.
- `Cards!Spec`: the goroutine of a refresh, a constructor that has been called and the
  scheduled Render run (weak).
- `SpoofedKernels!Spec`: each goroutine runs (weak); a sleep lasts 1.5 seconds at most.
- `Messenger!FairSpec`: the monitor's loop goes on (weak); among several requests
  that are ready `select` chooses at random, so each caller that waits is served
  (strong); `ClientsListen`, an assumption on the callers: without `drop`, clients
  come back to their channels.
- `Backend!FairSpec` (weak, per request): the provider's side goes on or runs
  into a timeout (`Proceed`), and a handler does what needs no other server
  (`Serve`; its pod lists have a deadline). Nothing is assumed of the lists from
  Kubernetes or the request to Jupyter (`Call`): they may never return.

## 5. What is proved

`ResourceProviderProofs`, from `ConstantsAssumption` alone (the sets of keys,
components and goroutines are arbitrary, also infinite):

- `Invariance`: `Spec => []IInv`. The properties are not inductive: that the map
  is the last answer when the lock is free depends on what the holder has done
  so far. `IInv` says that the goroutines inside a refresh are exactly the holder
  of the lock (`LockHeld`), what the two loops over the map have finished
  (`FillProgress`), that the map is the last answer unless somebody is rewriting it
  (`MapSettled`), that the list being handed out is the last answer
  (`ListingIsLatest`), that only components dismounted for good are marked for
  pruning (`OnlyDeadMarked`, the reason why pruning by stale answers is safe:
  components never mount twice), and how subscriptions and goroutines relate to
  the life cycle.
- `TypeCorrect`, `MapCorrect` (`MapIsLatestAnswer`), `SubscriptionKept`
  (`MountedStaySubscribed`): conjuncts or consequences of it.
- `DeliveryCorrect`: the action property `DeliversLatest`, since the only step
  that changes what a mounted component shows without a rebuild is
  `TakeList`, and there `ListingIsLatest` applies.
- `Refinement`: `ImplementsFeed`. Under `answer <- latest` and a life cycle that
  hides rebuilding, `QuerySucceeds` is `Publish`, `Mount` is `Join`,
  `CopyFields` is `Replace`, `NotifyMounted` is `Begin`, `TakeList` is `Deliver`,
  `Dismount` is `Leave` and every other step stutters. `ResourceFeed` lets a component
  that has begun to take an answer finish after it has left, and publishes nothing new
  meanwhile: that holds because the handler at work is that of the holder of the lock
  (`HandlersInRefresh`).

`QueryLoopProofs`, for every `Interval > 0`, `MaxRefresh` and a large enough
`Horizon`: `Invariance` and `Punctual` (`RefreshesKeepComing`). The argument: a
tick that is passed over finds a refresh running or less than an interval old; the
stamp is never younger than the last refresh that ended (`StampNotYounger`);
so at the time of a tick that is skipped less than an interval has gone by, and
less than two at the next, which is not (`QuietSpan`); a refresh adds at most
`MaxRefresh` (`BusySpan`).

`BackendProofs`, for all sets of nodes and specs and all sets of numbers as
requests: `Invariance`, `OneConnectionHolds` (`OneConnection`) and
`AnswersCorrect` (`AnswersAreCurrent`). At most one request is active
(`OneActive`) and only its socket is open (`OpenIsActive`); a handler starts
after its request and answers once (`HandlerFollows`); and for an active request
the cluster, the handler's list and the handler's answer all lie between the
nodes that stayed and the nodes that were ever there (`ListsAreCurrent`): joining
and leaving nodes only widen these bounds, and a list is taken from the cluster.

`MainWindowProofs`, for any number of clicks and replicas: that the page always
finds a phase to show is not inductive, as a Render looks at its conditions one after the other.
`IInv` adds that what it has found still holds (`ConditionsHold`: `configured` and
`connected` are never taken back), the same for what is on display
(`DisplayHolds`), and that the flag is raised only by a goroutine that has stored
the client (`ClientStored`). It is proved for the steps of `Session` and lifted to
`WindowSpec`, where the dialog's own actions leave those variables alone:
`SessionInvariance`, `PhaseDetermined` (`NeverUndetermined`), `ClientOnDashboard`
(`DashboardHasClient`), `PhasesDoAdvance` (`PhasesAdvance`), `TypeCorrect` and
`Invariance` (`WindowIInv`, what the run checks). The liveness properties of the
page rest on two more facts, which are proved. No update is lost
(`UpdatesArrive`): whoever changes the error or raises `connected` schedules a Render
afterwards, or is a goroutine that still will. And the dialog keeps to its protocol
(`DialogInv`): its handlers run between Renders and on the dashboard, the goroutine
of `handleCancel` is there exactly while the send is pending, and only a handler
that is still at work separates the dialog from what was asked for. Hence
`CancelIsReceived`, and `RestIsCurrent`: a page with nothing left to render shows
the current error, the dialog asked for and, once connected, the dashboard. That
it comes to rest is what TLC checks under fairness.

`KernelListProofs`, for every set of kernels: `SelectionCounted` (`CountMatches`)
needs that both counters count, the one on display and the one
`recreateState` is working on (`CountsMatch`), which in turn needs that no kernel is copied
twice (`Walk`); `ChoicesAreKept` (`ChoicesSurvive`) that what has been copied and
not clicked since agrees with the list (`CopiesAgree`). The steps of the
two counters are lemmas on cardinalities (`CountIn`, `CountOut`, `CountNone`).

`SpoofedKernelsProofs`, from `KernelsAssumption` (the pool is finite): `Invariance`,
`DrawsSucceed` (`NeverPanics`): the goroutine inside a refresh is alone
(`LockHeld`, which also says that the lock never stays behind without a holder),
so what its look at `Count` saw holds until the draw (`VictimsExist`);
and `Refinement` (`ImplementsFeed`): a deletion or addition publishes a new answer,
a handler begins with and takes the one that is there (`ListingIsMap`), mounting joins.
`HalfStays` (`HalfOfTheListStays`) compares two states far apart: the list a
component was built from, possibly in the middle of a refresh, and the one it is
told of later. Between refreshes both are the map (`ListsAreCurrent`). A draw takes
at most half of the pool, rounded up (`DrawHolds`, `HalfStep`). From then on each list has
lost no more to the victims deleted so far and those still to be deleted than its
half (`HalfIsLeft`): a deletion turns a victim into a loss, an addition only adds a
kernel no list has, and a list that is built halfway holds what is there, of which
the outstanding victims take even less. At the notification no victim is
outstanding (`HalfIsTold`).

`CardsProofs`, from `ItemsAssumption` (the rows are a finite set):
`Invariance`, `TypeCorrect`, `PanicsOnlyAfterShrinking` (`PanicNeedsShorterList`):
a tab is selected within the list on display, the display is an earlier state of
the list, and as long as neither has shrunk the index is in range of both
(`IndexInRange`). `ExpansionKept` (`ExpansionSurvives`): the flags copied so far are those of
the rows passed so far, but for clicked ones (`FlagsCopied`), and outside the
handler the copies are empty (`HandlerAtRest`). `RestIsCurrent`: the handler of a
refresh assigns all rows, what the parent builds while none runs has all rows
(`BuildIsCurrent`), and every replacement is rendered or has its Update pending
(`ListIsCurrent`); a list that was built while a refresh ran is excepted (`stale`).

`MessengerProofs`, from `BoundsAssumption` (any sets of subscribers and callers, any
number of messages, any set of buffer sizes): the pool is exactly the set of
clients whose channel is open (`PoolIsCurrent`) and the clients a message has
still to reach are in it (`SendingToClients`), whence `MonitorNeverPanics`
(`NeverPanics`). What a client has received and what is in its channel grow strictly
(`InOrder`), because a client still to be reached has only earlier messages, and
without `drop` all of those since it subscribed (`DeliveredUpToNow`):
`DeliveryInOrder`. A monitor about to answer a `Len` has exactly one caller that waits,
although any caller may read any request (`ReplyIsAwaited`), and a call that
counts as alone is (`AloneIsAlone`): `LenCounts` (`LenAloneCounts`).
`Refinement` (`ImplementsBroadcasting`), with `got` mapped to what a client has read
followed by what its channel holds: taking a message is `Publish`, a send into the
buffer or past it is `Deliver`, `Sub` is `Join`, `Del`, `Reset` and `Kill` are
`Leave`, and reading a channel stutters, since it only moves a message from one
part to the other (`ReadMoves`). `Publish` and `Leave` ask that nobody be behind,
which is what the monitor's loop over the pool achieves before it selects again.

Only model-checked: everything under fairness, since liveness is out of the
prover's reach, as is ENABLED: `RefreshEnds`, `MountedGetsUpToDate`,
`DismountedIsForgotten`, `RequestsEnd`, `ConfigurationSettles`, `ConnectionIsShown`,
`HandlersReturn`, `LatestErrorIsShown`, `DialogFollowsChoice`, `DisplayCatchesUp`
and `CallsReturn`. The safety half of several of them is proved, as said
above; the three runs TLC refutes have no theorem. No module uses recursion.

## 6. Not modelled, and why

- Presentation, domain types, flags, the websocket proxy, the entry point and the
  generated gRPC code keep no state that depends on an order.
- Weak memory: the browser build runs one goroutine at a time. The unlocked
  write of `lastRefresh` (provider.go:72) would be a data race on a
  multi-threaded build.
- Unequal clients: two clicks on Connect that both succeed start two query loops
  per provider on the same ticker and leave the client of the later dial.
  `Session` counts the loops; nothing in the repository says how many there should be,
  and no property does. Nor does one speak of the nil kernel that the terminate button
  finds for a choice that has left the list (kernel_list.go:186): only the length of the
  slice is ever read.
- The kernel spec provider is never started (driver.go:113); its card refreshes
  it once, at mounting, and gets an empty list unless the backend spoofs
  (kernel_spec_handler.go:134).
- What a component shows in the middle of a refresh. The map is cleared and filled
  entry by entry and read without the lock, so a parent's Render in between takes
  nodes off the screen that still exist; and a component that mounts after a
  refresh has taken its snapshot of the subscribers is turned away by `TryLock`
  and not told the result either: it stays as its constructor read it until the
  next refresh. Both are behaviours of `ResourceProvider` (`ReadResource`,
  `TryLockFails`); what holds all the same is `DeliversLatest` and
  `MountedGetsUpToDate`. And when go-app copies a list built during a refresh only
  after the refresh has ended, a partial list replaces the complete one the handler has
  just assigned: it stays until the next refresh or the parent's next Render, and
  `DisplayCatchesUp` excepts that case (`stale`). The card of the kernel specs, whose
  provider no loop refreshes, has only the Render to wait for.
- The constructors of the handlers, which panic if a server cannot be reached,
  before anything is served.
- The dialog's submit button: its form id is not that of the form, so that only
  Enter submits. The create, terminate and execute handlers log, or set fields
  nothing reads; an alert is the Update it causes (`Touch`).
- A click on a kernel between `recreateState`'s copy and its assignment is
  overwritten, although "already-expanded entries in the list should remain
  expanded" (kernel_list.go:107); `ChoicesSurvive` leaves those kernels out.
- The card panics when its tab lies outside a shorter list, such as a half filled
  map that a Render of the parent lists (kernel_spec_card.go:141);
  `PanicNeedsShorterList` says that nothing else makes it.
- "up to 50%" of the spoofed kernels is rounded up, so that a pool of one may be
  emptied and is then filled as if for the first time (lines 61 and 88): hence
  the `+ 1` of `HalfOfTheListStays`.
- A `Len` of the messenger that overlaps another may return 0 for the other's
  request (messenger.go:170): `LenAloneCounts` speaks of calls that do not overlap.
- `issueHttpRequest` does not close the body of the answer
  (kernel_spec_handler.go:50); connections are not counted here.
- The slice for the terminate handler starts with as many nil kernels as it then
  appends real ones (kernel_list.go:182); the handler only logs its length.

## 7. Plan

Written, in this order: `ResourceFeed`, `ResourceProvider` and its proofs;
`QueryLoop` and its proofs; `Session`; `KernelList`; `Backend` and its proofs;
`SpoofedKernels`, `Cards`, `MainWindow`, `Messenger`; the proofs of
`SpoofedKernels`, `MainWindow`, `KernelList`, `Cards` and `Messenger`; `Broadcasting`.

Next: the composition of `Session` with one `ResourceProvider` per started
provider, so that two loops on one provider are seen to share its lock.
