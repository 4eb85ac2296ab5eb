------------------------------ MODULE Session ------------------------------
(***************************************************************************)
(* The session of one browser page: the MainWindow (UI goroutine), the     *)
(* goroutine that fetches the configuration, the goroutines started by     *)
(* clicks on Connect, the WorkloadDriver and the kernel and node providers *)
(* it starts.                                                              *)
(*                                                                         *)
(* The page is rendered by evaluating the conditions of the UI phases one  *)
(* after the other; the connect goroutines write what the conditions read. *)
(* A panic of any goroutine ends the program: crashed.                     *)
(***************************************************************************)
EXTENDS Naturals, Sequences, FiniteSets

CONSTANT Clicks  \* clicks on Connect, one goroutine each

VARIABLES
    spoof,          \* the SpoofCluster option of the backend
    request,        \* getConfigFromBackend: "asking" or "done"
    dispatched,     \* closures it handed to the UI goroutine, in order
    configured,     \* ConfigurationReceived, and the driver exists
    err,            \* w.err, set with w.errMsg: what went wrong last, or "none"
    dirty,          \* an update of the MainWindow is scheduled
    render,         \* how far Render is: "idle", "two" or "three"
    shown,          \* the phase on display, "none" before the first Render
    modal,          \* the error in the error modal on display, or "none"
    refresh,        \* the first refresh of the KernelList
    pc,             \* the connect goroutine of each click
    client,         \* the driver has an rpcClient
    connected,      \* the driver's connectedToGateway
    kernelClient,   \* the kernel provider has an rpcClient
    loops,          \* query loops running, per provider
    crashed

pageVars == <<shown, modal, refresh>>
uiVars == <<dirty, render, pageVars>>
driverVars == <<client, connected, kernelClient, loops>>
vars == <<spoof, request, dispatched, configured, err, uiVars, pc,
          driverVars, crashed>>

Providers == {"kernels", "nodes", "specs"}

\* What goes wrong: the configuration, a dial or a query, a migration, or
\* getUI comes to its last branch.
Errors == {"config", "gateway", "migration", "undetermined"}

Init ==
    /\ spoof \in BOOLEAN
    /\ request = "asking"
    /\ dispatched = <<>>
    /\ configured = FALSE
    /\ err = "none"
    /\ dirty = TRUE
    /\ render = "idle"
    /\ shown = "none"
    /\ modal = "none"
    /\ refresh = "none"
    /\ pc = [c \in Clicks |-> "unclicked"]
    /\ client = FALSE
    /\ connected = FALSE
    /\ kernelClient = FALSE
    /\ loops = [p \in Providers |-> 0]
    /\ crashed = FALSE

\* Mutant: HandleError does not schedule a Render.
HandleErrorQuietly(e) ==
    /\ err' = e
    /\ dirty' = dirty

\* HandleError replaces an earlier error, shown or not.  Update schedules a
\* Render.
HandleError(e) ==
    /\ err' = e
    /\ dirty' = TRUE

Panic == crashed' = TRUE

-----------------------------------------------------------------------------
(* The configuration. *)

\* The dial fails: the goroutine reports the error itself.
ConfigDialFails ==
    /\ ~crashed
    /\ request = "asking"
    /\ request' = "done"
    /\ HandleError("config")
    /\ UNCHANGED <<spoof, dispatched, configured, render, pageVars, pc,
                   driverVars, crashed>>

\* The write or the read fails, or the backend answers.
ConfigReply(closures) ==
    /\ ~crashed
    /\ request = "asking"
    /\ request' = "done"
    /\ dispatched' = dispatched \o closures
    /\ UNCHANGED <<spoof, configured, err, uiVars, pc, driverVars,
                   crashed>>

\* Mutant: the failure is not reported.
ConfigFailsSilently == ConfigReply(<<>>)

ConfigFails == ConfigReply(<<"error">>)
ConfigArrives == ConfigReply(<<"config">>)

\* An ErrorMessage has the key Valid too (types.go:124), and WriteError sets it:
\* it is taken for options, all of them empty, and the branch for error messages
\* is passed by.
ConfigRefused == ConfigReply(<<"invalidConfig">>)

\* An answer that is not Valid: neither options nor an ErrorMessage.
ConfigUnreadable ==
    /\ ~crashed
    /\ request = "asking"
    /\ request' = "done"
    /\ Panic
    /\ UNCHANGED <<spoof, dispatched, configured, err, uiVars, pc,
                   driverVars>>

NextClosure(kind) ==
    /\ ~crashed
    /\ render = "idle"
    /\ dispatched # <<>>
    /\ Head(dispatched) = kind
    /\ dispatched' = Tail(dispatched)

ReportError ==
    /\ NextClosure("error")
    /\ HandleError("config")
    /\ UNCHANGED <<spoof, request, configured, render, pageVars, pc,
                   driverVars, crashed>>

\* Mutant: the page is not updated.
OnConfigReceivedQuietly ==
    /\ NextClosure("config")
    /\ configured' = TRUE
    /\ UNCHANGED <<spoof, request, err, uiVars, pc, driverVars, crashed>>

OnConfigReceived ==
    /\ NextClosure("config")
    /\ configured' = TRUE
    /\ dirty' = TRUE
    /\ UNCHANGED <<spoof, request, err, render, pageVars, pc, driverVars,
                   crashed>>

\* NewWorkloadDriver cannot parse the empty query interval.
OnInvalidConfig ==
    /\ NextClosure("invalidConfig")
    /\ Panic
    /\ UNCHANGED <<spoof, request, configured, err, uiVars, pc,
                   driverVars>>

-----------------------------------------------------------------------------
(* Rendering: checkPhaseOne, checkPhaseTwo and checkPhaseThree in turn. *)

\* The page is updated for other reasons too: input, alerts, app updates.
Touch ==
    /\ ~crashed
    /\ dirty' = TRUE
    /\ UNCHANGED <<spoof, request, dispatched, configured, err, render,
                   pageVars, pc, driverVars, crashed>>

\* recover clears the current error.
Recover ==
    /\ err' = "none"
    /\ dirty' = TRUE

\* The user closes the error modal on display: the error that is cleared may
\* be a newer one than the modal's.
CloseErrorModal ==
    /\ ~crashed
    /\ modal # "none"
    /\ render = "idle"
    /\ Recover
    /\ UNCHANGED <<spoof, request, dispatched, configured, render, pageVars,
                   pc, driverVars, crashed>>

\* A Render ends: the page shows a phase and, for an error that is not nil,
\* the error modal.
Show(phase, error) ==
    /\ render' = "idle"
    /\ shown' = phase
    /\ modal' = error
    /\ refresh' = IF phase = "three" /\ refresh = "none" THEN "started" ELSE refresh

CheckPhaseOne ==
    /\ ~crashed
    /\ render = "idle"
    /\ dirty
    /\ dirty' = FALSE
    /\ IF configured THEN render' = "two" /\ UNCHANGED pageVars
                     ELSE Show("one", err)
    /\ UNCHANGED <<spoof, request, dispatched, configured, err, pc,
                   driverVars, crashed>>

CheckPhaseTwo ==
    /\ ~crashed
    /\ render = "two"
    /\ IF ~spoof /\ ~connected THEN Show("two", err)
                               ELSE render' = "three" /\ UNCHANGED pageVars
    /\ UNCHANGED <<spoof, request, dispatched, configured, err, dirty, pc,
                   driverVars, crashed>>

\* The third phase, or getUI's last branch: no condition holds, and the error
\* modal of the same Render says so.
ShowThree(condition) ==
    /\ ~crashed
    /\ render = "three"
    /\ IF condition
          THEN Show("three", err) /\ UNCHANGED err
          ELSE /\ Show("undetermined", "undetermined")
               /\ err' = "undetermined"
    /\ UNCHANGED <<spoof, request, dispatched, configured, dirty, pc,
                   driverVars, crashed>>

\* Mutant: the third phase waits for the kernel provider's client.
CheckPhaseThreeOfProvider == ShowThree(spoof \/ kernelClient)

CheckPhaseThree == ShowThree(spoof \/ connected)

\* The refresh started by mounting the KernelList; the spoofed provider needs
\* no client, the real one calls its rpcClient, nil or not.
MountRefresh ==
    /\ ~crashed
    /\ refresh = "started"
    /\ refresh' = "done"
    /\ crashed' = (~spoof /\ ~kernelClient)
    /\ UNCHANGED <<spoof, request, dispatched, configured, err, dirty,
                   render, shown, modal, pc, driverVars>>

\* A query of a provider fails.  The lists of the dashboard refresh when they
\* mount, and each query loop does on its ticks.
QueryFails ==
    /\ ~crashed
    /\ refresh # "none" \/ \E p \in Providers : loops[p] > 0
    /\ HandleError("gateway")
    /\ UNCHANGED <<spoof, request, dispatched, configured, render, pageVars,
                   pc, driverVars, crashed>>

-----------------------------------------------------------------------------
(* Connecting. *)

Goto(c, label) == pc' = [pc EXCEPT ![c] = label]

Click(c) ==
    /\ ~crashed
    /\ shown = "two"
    /\ render = "idle"
    /\ pc[c] = "unclicked"
    /\ Goto(c, "dialing")
    /\ UNCHANGED <<spoof, request, dispatched, configured, err, uiVars,
                   driverVars, crashed>>

\* Mutant: a failed dial clears the flag of an earlier success.
DialFailsDisconnects(c) ==
    /\ ~crashed
    /\ pc[c] = "dialing"
    /\ HandleError("gateway")
    /\ connected' = FALSE
    /\ Goto(c, "updating")
    /\ UNCHANGED <<spoof, request, dispatched, configured, render, pageVars,
                   client, kernelClient, loops, crashed>>

\* An empty address, or grpc.Dial returns an error.
DialFails(c) ==
    /\ ~crashed
    /\ pc[c] = "dialing"
    /\ HandleError("gateway")
    /\ Goto(c, "updating")
    /\ UNCHANGED <<spoof, request, dispatched, configured, render, pageVars,
                   driverVars, crashed>>

\* Mutant: the flag is raised before the client is stored.
DialSucceedsFlagFirst(c) ==
    /\ ~crashed
    /\ pc[c] = "dialing"
    /\ connected' = TRUE
    /\ Goto(c, "dialed")
    /\ UNCHANGED <<spoof, request, dispatched, configured, err, uiVars,
                   client, kernelClient, loops, crashed>>

DialSucceeds(c) ==
    /\ ~crashed
    /\ pc[c] = "dialing"
    /\ client' = TRUE
    /\ Goto(c, "dialed")
    /\ UNCHANGED <<spoof, request, dispatched, configured, err, uiVars,
                   connected, kernelClient, loops, crashed>>

SetConnected(c) ==
    /\ ~crashed
    /\ pc[c] = "dialed"
    /\ connected' = TRUE
    /\ Goto(c, "kernels")
    /\ UNCHANGED <<spoof, request, dispatched, configured, err, uiVars,
                   client, kernelClient, loops, crashed>>

\* kernelProvider.Start, which dials again and then starts the query loop.
StartKernels(c) ==
    /\ ~crashed
    /\ pc[c] = "kernels"
    /\ kernelClient' = TRUE
    /\ loops' = [loops EXCEPT !["kernels"] = @ + 1]
    /\ Goto(c, "nodes")
    /\ UNCHANGED <<spoof, request, dispatched, configured, err, uiVars,
                   client, connected, crashed>>

StartNodes(c) ==
    /\ ~crashed
    /\ pc[c] = "nodes"
    /\ loops' = [loops EXCEPT !["nodes"] = @ + 1]
    /\ Goto(c, "updating")
    /\ UNCHANGED <<spoof, request, dispatched, configured, err, uiVars,
                   client, connected, kernelClient, crashed>>

\* The provider's dial fails: nobody looks at the error of Start.
StartFails(c) ==
    /\ ~crashed
    /\ \/ pc[c] = "kernels" /\ Goto(c, "nodes")
       \/ pc[c] = "nodes" /\ Goto(c, "updating")
    /\ UNCHANGED <<spoof, request, dispatched, configured, err, uiVars,
                   driverVars, crashed>>

\* Mutant: no Update after connecting.
ConnectReturnsQuietly(c) ==
    /\ ~crashed
    /\ pc[c] = "updating"
    /\ Goto(c, "finished")
    /\ UNCHANGED <<spoof, request, dispatched, configured, err, uiVars,
                   driverVars, crashed>>

ConnectReturns(c) ==
    /\ ~crashed
    /\ pc[c] = "updating"
    /\ dirty' = TRUE
    /\ Goto(c, "finished")
    /\ UNCHANGED <<spoof, request, dispatched, configured, err, render,
                   pageVars, driverVars, crashed>>

-----------------------------------------------------------------------------
FetchConfig ==
    ConfigDialFails \/ ConfigFails \/ ConfigArrives \/ ConfigRefused \/ ConfigUnreadable

Dispatched == ReportError \/ OnConfigReceived \/ OnInvalidConfig

Render == CheckPhaseOne \/ CheckPhaseTwo \/ CheckPhaseThree

\* What a connect goroutine does between the dials.
Proceed(c) == SetConnected(c) \/ ConnectReturns(c)

Dial(c) ==
    DialFails(c) \/ DialSucceeds(c) \/ StartKernels(c) \/ StartNodes(c) \/ StartFails(c)

Next ==
    \/ FetchConfig \/ Dispatched \/ Render \/ Touch \/ CloseErrorModal
    \/ MountRefresh \/ QueryFails
    \/ \E c \in Clicks : Click(c) \/ Proceed(c) \/ Dial(c)

Spec == Init /\ [][Next]_vars

\* The scheduler runs every goroutine and the websocket calls time out.  The
\* UI goroutine selects among its sources of work, closures and frames: while
\* it renders it takes no closure, so that takes strong fairness.
Fairness ==
    /\ WF_vars(FetchConfig)
    /\ SF_vars(Dispatched)
    /\ WF_vars(Render)
    /\ WF_vars(MountRefresh)
    /\ \A c \in Clicks : WF_vars(Proceed(c))

\* grpc.Dial WithBlock has no deadline: that it returns is up to the network.
DialsReturn == \A c \in Clicks : WF_vars(Dial(c))

FairSpec == Spec /\ Fairness
ReachableSpec == FairSpec /\ DialsReturn

-----------------------------------------------------------------------------
(* Properties. *)

\* Type correctness; the number of clicks bounds the number of loops.
TypeOK ==
    /\ spoof \in BOOLEAN
    /\ request \in {"asking", "done"}
    /\ dispatched \in Seq({"error", "config", "invalidConfig"})
    /\ configured \in BOOLEAN
    /\ err \in Errors \cup {"none"}
    /\ dirty \in BOOLEAN
    /\ render \in {"idle", "two", "three"}
    /\ shown \in {"none", "one", "two", "three", "undetermined"}
    /\ modal \in Errors \cup {"none"}
    /\ refresh \in {"none", "started", "done"}
    /\ pc \in [Clicks -> {"unclicked", "dialing", "dialed", "kernels", "nodes",
                          "updating", "finished"}]
    /\ client \in BOOLEAN
    /\ connected \in BOOLEAN
    /\ kernelClient \in BOOLEAN
    /\ loops \in [Providers -> Nat]
    /\ crashed \in BOOLEAN

\* The page always finds a phase to show, although a connect goroutine may
\* set connectedToGateway between the evaluation of two conditions.
NeverUndetermined == shown # "undetermined"

\* The page never goes back to an earlier phase, whatever further clicks on
\* Connect, failed dials and late configuration errors do.
PhasesAdvance ==
    [][LET Rank == [none |-> 0, one |-> 1, two |-> 2, three |-> 3, undetermined |-> 4]
       IN  Rank[shown] <= Rank[shown']]_vars

\* Where the dashboard offers to migrate a replica, MigrateKernelReplica
\* finds a client: the flag is only raised after the client is stored.
DashboardHasClient == shown = "three" => configured /\ (spoof \/ client)

\* The request for the configuration comes to something: a driver, an error
\* message, or the end of the program.
ConfigurationSettles == request = "asking" ~> configured \/ err # "none" \/ crashed

\* Once the driver is connected the page shows the dashboard, without the
\* user having to touch it (unless the program panics).
ConnectionIsShown == connected ~> shown = "three" \/ crashed

\* In the third phase we are connected to the gateway: so is the provider
\* whose kernels that phase shows and refreshes.
PhaseThreeIsConnected == shown = "three" /\ ~spoof => kernelClient

\* The backend has answered with an ErrorMessage.
Refused == dispatched # <<>> /\ Head(dispatched) = "invalidConfig"

\* An ErrorMessage of the backend comes to be the error of the page: the panic
\* is for answers that are neither options nor an error message.
RefusalIsReported == Refused ~> err # "none"

-----------------------------------------------------------------------------
(* The inductive invariant behind the invariants about the phases. *)

\* The conditions that have been evaluated are still true: configured and
\* connected are never taken back.
ConditionsHold ==
    /\ render # "idle" => configured
    /\ render = "three" => spoof \/ connected

\* What is on display was right once and is not overtaken.
DisplayHolds ==
    /\ shown \in {"two", "three"} => configured
    /\ shown = "three" => spoof \/ connected

\* The flag is raised only by a goroutine that has stored the client.
ClientStored ==
    /\ connected => client
    /\ \A c \in Clicks : pc[c] = "dialed" => client

IInv ==
    /\ TypeOK
    /\ NeverUndetermined
    /\ ConditionsHold
    /\ DisplayHolds
    /\ ClientStored

-----------------------------------------------------------------------------
(* The safety side of ConfigurationSettles, ConnectionIsShown and           *)
(* LatestErrorIsShown: what is not on display yet is on its way.            *)

\* Only a configured page offers to connect.
ConnectsWhenConfigured ==
    /\ connected => configured
    /\ \A c \in Clicks : pc[c] # "unclicked" => configured

\* No Render is pending or in progress.
Rendered == render = "idle" /\ ~dirty

\* The error modal of a page at rest shows the current error.
ErrorIsCurrent == render = "idle" => dirty \/ modal = err

\* A page at rest has left the first phase if it is configured, and the second
\* if it is connected, or else a goroutine that connects has still to update it.
PhaseIsCurrent ==
    /\ configured /\ Rendered => shown \in {"two", "three"}
    /\ connected /\ Rendered =>
          shown = "three" \/ \E c \in Clicks : pc[c] \in {"kernels", "nodes", "updating"}

UpdatesArrive == ConnectsWhenConfigured /\ ErrorIsCurrent /\ PhaseIsCurrent
=============================================================================
