------------------------------ MODULE Backend ------------------------------
(***************************************************************************)
(* The requests of the node provider, or of the kernel spec provider, to   *)
(* the backend, each on a websocket of its own, and the handlers that      *)
(* serve them with the help of Kubernetes or of the Jupyter server.  The   *)
(* two providers have nothing in common but the process of the backend, so *)
(* one of them is looked at: the endpoint.                                 *)
(*                                                                         *)
(* A provider holds refreshMutex, so it makes one request at a time; but   *)
(* it gives up after 30 seconds, while the calls of its handler have no    *)
(* deadline, so the handler of a request may outlive it.  The cluster      *)
(* changes all the time.                                                   *)
(*                                                                         *)
(* A panic of a handler is recovered by net/http; the deferred CloseNow    *)
(* has closed the socket by then.                                          *)
(***************************************************************************)
EXTENDS Naturals

CONSTANTS
    Nodes,         \* names of Kubernetes nodes
    Specs,         \* names of kernel specs
    Requests       \* requests of the provider, numbered in order

ASSUME RequestsAssumption == Requests \subseteq Nat

VARIABLES
    cluster,    \* the nodes Kubernetes lists
    spoof,      \* the SpoofCluster option of the backend
    endpoint,   \* "nodes" or "specs": whose requests these are
    phase,      \* how far the provider is with each request
    connected,  \* whether the provider's end of the websocket is open
    sent,       \* whether the request has been written
    resources,  \* what the provider took from its last answer
    handler,    \* how far the handler is
    items,      \* nodes.Items, the handler's list of nodes
    usage,      \* nodeUsageMetrics.Items
    todo,       \* the nodes its loop has yet to do
    reply,      \* what the handler wrote
    ever,       \* history: nodes that were in the cluster during the request
    throughout  \* history: nodes that were so all the time

environment == <<cluster, spoof, endpoint>>
client == <<phase, connected, sent, resources>>
server == <<handler, items, usage, todo, reply>>
history == <<ever, throughout>>
vars == <<environment, client, server, history>>

Active == {"dialing", "writing", "reading"}
Ended == {"answered", "failed"}

Replies == [kind : {"none", "error", "items"}, items : SUBSET (Nodes \cup Specs)]
Nothing == [kind |-> "none", items |-> {}]

Init ==
    /\ cluster \in SUBSET Nodes
    /\ spoof \in BOOLEAN
    /\ endpoint \in {"nodes", "specs"}
    /\ phase = [r \in Requests |-> "unused"]
    /\ connected = [r \in Requests |-> FALSE]
    /\ sent = [r \in Requests |-> FALSE]
    /\ resources = {}
    /\ handler = [r \in Requests |-> "none"]
    /\ items = [r \in Requests |-> {}]
    /\ usage = [r \in Requests |-> {}]
    /\ todo = [r \in Requests |-> {}]
    /\ reply = [r \in Requests |-> Nothing]
    /\ ever = [r \in Requests |-> {}]
    /\ throughout = [r \in Requests |-> {}]

-----------------------------------------------------------------------------
(* The provider's part of RefreshResources. *)

Dial(r) ==
    /\ phase[r] = "unused"
    /\ \A q \in Requests :
          phase[q] \notin Active /\ (q < r => phase[q] # "unused")
    /\ phase' = [phase EXCEPT ![r] = "dialing"]
    /\ ever' = [ever EXCEPT ![r] = cluster]
    /\ throughout' = [throughout EXCEPT ![r] = cluster]
    /\ UNCHANGED <<environment, connected, sent, resources, server>>

\* The request ends; the socket is closed on the way out.
End(r, how) ==
    /\ phase' = [phase EXCEPT ![r] = how]
    /\ connected' = [connected EXCEPT ![r] = FALSE]
    /\ ever' = [ever EXCEPT ![r] = {}]
    /\ throughout' = [throughout EXCEPT ![r] = {}]

\* The backend is not there, or does not accept within 30 seconds.
DialFails(r) ==
    /\ phase[r] = "dialing"
    /\ End(r, "failed")
    /\ UNCHANGED <<environment, sent, resources, server>>

Dialed(r) ==
    /\ phase[r] = "dialing"
    /\ handler[r] # "none"
    /\ phase' = [phase EXCEPT ![r] = "writing"]
    /\ connected' = [connected EXCEPT ![r] = TRUE]
    /\ UNCHANGED <<environment, sent, resources, server, history>>

WriteRequest(r) ==
    /\ phase[r] = "writing"
    /\ phase' = [phase EXCEPT ![r] = "reading"]
    /\ sent' = [sent EXCEPT ![r] = TRUE]
    /\ UNCHANGED <<environment, connected, resources, server, history>>

\* Mutant: the socket stays open when the write fails.
WriteFailsKeepsOpen(r) ==
    /\ phase[r] = "writing"
    /\ phase' = [phase EXCEPT ![r] = "failed"]
    /\ ever' = [ever EXCEPT ![r] = {}]
    /\ throughout' = [throughout EXCEPT ![r] = {}]
    /\ UNCHANGED <<environment, connected, sent, resources, server>>

WriteFails(r) ==
    /\ phase[r] = "writing"
    /\ End(r, "failed")
    /\ UNCHANGED <<environment, sent, resources, server>>

\* Mutant: a socket that an earlier request left is read.
TakeAnyAnswer(r) ==
    /\ phase[r] = "reading"
    /\ \E q \in Requests :
          /\ reply[q].kind = "items"
          /\ resources' = reply[q].items
    /\ End(r, "answered")
    /\ UNCHANGED <<environment, sent, server>>

TakeAnswer(r) ==
    /\ phase[r] = "reading"
    /\ reply[r].kind = "items"
    /\ resources' = reply[r].items
    /\ End(r, "answered")
    /\ UNCHANGED <<environment, sent, server>>

\* An ErrorMessage does not decode as a list: it is only logged, as is a read
\* that fails; the failures before are reported to the error handler.
TakeError(r) ==
    /\ phase[r] = "reading"
    /\ reply[r].kind = "error"
    /\ End(r, "failed")
    /\ UNCHANGED <<environment, sent, resources, server>>

\* Mutant: the read has no deadline, only a closed socket ends it.
ReadFailsOnClose(r) ==
    /\ phase[r] = "reading"
    /\ handler[r] = "finished"
    /\ End(r, "failed")
    /\ UNCHANGED <<environment, sent, resources, server>>

\* 30 seconds have passed, or the handler has closed the socket.
ReadFails(r) ==
    /\ phase[r] = "reading"
    /\ End(r, "failed")
    /\ UNCHANGED <<environment, sent, resources, server>>

-----------------------------------------------------------------------------
(* ServeHTTP. *)

Goto(r, label) == handler' = [handler EXCEPT ![r] = label]

\* The handler's lists go out of scope.
Drop(r) ==
    /\ items' = [items EXCEPT ![r] = {}]
    /\ usage' = [usage EXCEPT ![r] = {}]
    /\ todo' = [todo EXCEPT ![r] = {}]

\* The last message of the handler, also when nobody reads it any more; the
\* closing handshake that follows takes nothing back.
Respond(r, kind, list) ==
    /\ reply' = [reply EXCEPT ![r] = [kind |-> kind, items |-> list]]
    /\ Drop(r)
    /\ Goto(r, "finished")

Accept(r) ==
    /\ phase[r] = "dialing"
    /\ handler[r] = "none"
    /\ Goto(r, "accepted")
    /\ UNCHANGED <<environment, client, items, usage, todo, reply, history>>

ReadPayload(r) ==
    /\ handler[r] = "accepted"
    /\ sent[r]
    /\ Goto(r, endpoint)
    /\ UNCHANGED <<environment, client, items, usage, todo, reply, history>>

\* After 10 seconds the read closes the socket, so that the error message
\* that is written next goes nowhere.
PayloadFails(r) ==
    /\ handler[r] = "accepted"
    /\ Goto(r, "finished")
    /\ UNCHANGED <<environment, client, items, usage, todo, reply, history>>

-----------------------------------------------------------------------------
(* HandleRequest of the node handler. *)

ListNodes(r) ==
    /\ handler[r] = "nodes"
    /\ items' = [items EXCEPT ![r] = cluster]
    /\ Goto(r, "metrics")
    /\ UNCHANGED <<environment, client, usage, todo, reply, history>>

\* Mutant: the loop walks over the metrics.
ListMetricsWalksUsage(r) ==
    /\ handler[r] = "metrics"
    /\ \E metered \in SUBSET Nodes :
          /\ usage' = [usage EXCEPT ![r] = metered]
          /\ todo' = [todo EXCEPT ![r] = metered]
    /\ Goto(r, "pods")
    /\ UNCHANGED <<environment, client, items, reply, history>>

\* The metrics server lags behind: it reports nodes that have left, and does
\* not yet report others.
ListMetrics(r) ==
    /\ handler[r] = "metrics"
    /\ \E metered \in SUBSET Nodes : usage' = [usage EXCEPT ![r] = metered]
    /\ todo' = [todo EXCEPT ![r] = items[r]]
    /\ Goto(r, "pods")
    /\ UNCHANGED <<environment, client, items, reply, history>>

\* Either list may be refused.
ListFails(r) ==
    /\ handler[r] \in {"nodes", "metrics"}
    /\ Respond(r, "error", {})
    /\ UNCHANGED <<environment, client, history>>

\* One node of the loop; its pods are listed or, after 15 seconds, left out.
ListPods(r, n) ==
    /\ handler[r] = "pods"
    /\ n \in todo[r]
    /\ todo' = [todo EXCEPT ![r] = @ \ {n}]
    /\ UNCHANGED <<environment, client, handler, items, usage, reply, history>>

\* There is no first node, a node has no address, or the metrics are those of
\* a node that is not in the list.
NodePanic(r) ==
    /\ handler[r] = "pods"
    /\ items[r] = {} \/ todo[r] # {} \/ ~(usage[r] \subseteq items[r])
    /\ Drop(r)
    /\ Goto(r, "finished")
    /\ UNCHANGED <<environment, client, reply, history>>

SendNodes(r) ==
    /\ handler[r] = "pods"
    /\ items[r] # {}
    /\ todo[r] = {}
    /\ usage[r] \subseteq items[r]
    /\ Respond(r, "items", items[r])
    /\ UNCHANGED <<environment, client, history>>

-----------------------------------------------------------------------------
(* HandleRequest of the kernel spec handler. *)

\* Some made-up specs.
spoofKernelSpecs == Specs

SpoofSpecs(r) ==
    /\ handler[r] = "specs"
    /\ spoof
    /\ Respond(r, "items", spoofKernelSpecs)
    /\ UNCHANGED <<environment, client, history>>

\* The answer of the Jupyter server is logged, an empty list is returned.
FetchSpecs(r) ==
    /\ handler[r] = "specs"
    /\ ~spoof
    /\ Respond(r, "items", {})
    /\ UNCHANGED <<environment, client, history>>

FetchFails(r) ==
    /\ handler[r] = "specs"
    /\ ~spoof
    /\ Respond(r, "error", {})
    /\ UNCHANGED <<environment, client, history>>

-----------------------------------------------------------------------------
(* Kubernetes. *)

NodeJoins(n) ==
    /\ n \notin cluster
    /\ cluster' = cluster \cup {n}
    /\ ever' = [r \in Requests |->
                   IF phase[r] \in Active THEN ever[r] \cup {n} ELSE ever[r]]
    /\ UNCHANGED <<spoof, endpoint, client, server, throughout>>

NodeLeaves(n) ==
    /\ n \in cluster
    /\ cluster' = cluster \ {n}
    /\ throughout' = [r \in Requests |->
                         IF phase[r] \in Active THEN throughout[r] \ {n}
                                                ELSE throughout[r]]
    /\ UNCHANGED <<spoof, endpoint, client, server, ever>>

-----------------------------------------------------------------------------
\* Each of these ends after 30 seconds at the latest.
Proceed(r) ==
    \/ DialFails(r) \/ Dialed(r)
    \/ WriteRequest(r) \/ WriteFails(r)
    \/ TakeAnswer(r) \/ TakeError(r) \/ ReadFails(r)

\* What the handler does without waiting for another server for ever.
Serve(r) ==
    \/ Accept(r) \/ ReadPayload(r) \/ PayloadFails(r)
    \/ \E n \in Nodes : ListPods(r, n)
    \/ NodePanic(r) \/ SendNodes(r) \/ SpoofSpecs(r)

\* Calls without a deadline.
Call(r) == ListNodes(r) \/ ListMetrics(r) \/ ListFails(r) \/ FetchSpecs(r) \/ FetchFails(r)

Next ==
    \/ \E r \in Requests : Dial(r) \/ Proceed(r) \/ Serve(r) \/ Call(r)
    \/ \E n \in Nodes : NodeJoins(n) \/ NodeLeaves(n)

Spec == Init /\ [][Next]_vars

\* Nothing is assumed of the calls to Kubernetes and Jupyter.
FairSpec == Spec /\ \A r \in Requests : WF_vars(Proceed(r)) /\ WF_vars(Serve(r))

-----------------------------------------------------------------------------
(* Properties. *)

\* Type correctness of the requests, their handlers and the cluster.
TypeOK ==
    /\ cluster \subseteq Nodes
    /\ spoof \in BOOLEAN
    /\ endpoint \in {"nodes", "specs"}
    /\ phase \in [Requests -> {"unused"} \cup Active \cup Ended]
    /\ connected \in [Requests -> BOOLEAN]
    /\ sent \in [Requests -> BOOLEAN]
    /\ resources \subseteq Nodes \cup Specs
    /\ handler \in [Requests -> {"none", "accepted", "nodes", "metrics", "pods",
                                 "specs", "finished"}]
    /\ items \in [Requests -> SUBSET Nodes]
    /\ usage \in [Requests -> SUBSET Nodes]
    /\ todo \in [Requests -> SUBSET Nodes]
    /\ reply \in [Requests -> Replies]
    /\ ever \in [Requests -> SUBSET Nodes]
    /\ throughout \in [Requests -> SUBSET Nodes]

\* Whatever fails, a provider has at most one connection open: the requests
\* it gave up do not pile up on its side.
OneConnection ==
    \A r, q \in Requests : connected[r] /\ connected[q] => r = q

\* The nodes the provider takes are those of its own request: they were in the
\* cluster while it ran, and none that stayed is missing, although the handler
\* of an earlier request may answer late.
AnswersAreCurrent ==
    [][endpoint = "nodes" =>
          \A r \in Requests :
             phase[r] # "answered" /\ phase'[r] = "answered" =>
                throughout[r] \subseteq resources' /\ resources' \subseteq ever[r]]_vars

\* Every request ends, also when Kubernetes or Jupyter never answers and when
\* the handler panics: the lock of the provider is released.
RequestsEnd == \A r \in Requests : phase[r] \in Active ~> phase[r] \in Ended

-----------------------------------------------------------------------------
(* The inductive invariant behind the safety properties. *)

OneActive ==
    \A r, q \in Requests : phase[r] \in Active /\ phase[q] \in Active => r = q

OpenIsActive == \A r \in Requests : connected[r] => phase[r] \in Active

\* A handler starts with its request, walks over the nodes it has listed, and
\* answers at its end.
HandlerFollows ==
    \A r \in Requests :
        /\ phase[r] = "unused" => handler[r] = "none"
        /\ handler[r] # "finished" => reply[r].kind = "none"
        /\ handler[r] = "specs" => endpoint = "specs"
        /\ handler[r] = "pods" => todo[r] \subseteq items[r]

\* A list from the time of a request has all that stayed, and nothing that
\* was not there.
Current(r, list) == throughout[r] \subseteq list /\ list \subseteq ever[r]

\* The cluster, what the handler has listed and what it has answered.
ListsAreCurrent ==
    \A r \in Requests :
        phase[r] \in Active =>
            /\ Current(r, cluster)
            /\ handler[r] \in {"metrics", "pods"} => Current(r, items[r])
            /\ endpoint = "nodes" /\ reply[r].kind = "items"
                   => Current(r, reply[r].items)

\* The invariant that every step preserves: a request is alone, its socket is
\* open only while it is active, and every list made for it is current.
IInv ==
    /\ TypeOK
    /\ OneActive
    /\ OpenIsActive
    /\ HandlerFollows
    /\ ListsAreCurrent
=============================================================================
