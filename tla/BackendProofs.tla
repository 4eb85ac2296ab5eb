--------------------------- MODULE BackendProofs ---------------------------
(* Theorems about Backend, for every set of nodes, specs and requests.     *)
EXTENDS Backend, TLAPS

LEMMA NothingIsReply == Nothing \in Replies
BY DEF Nothing, Replies

\* The message of a handler is one of the replies.
LEMMA RespondType ==
    ASSUME TypeOK, NEW r \in Requests, NEW kind \in {"error", "items"},
           NEW list \in SUBSET (Nodes \cup Specs), Respond(r, kind, list)
    PROVE  /\ reply' \in [Requests -> Replies]
           /\ handler' = [handler EXCEPT ![r] = "finished"]
           /\ items' = [items EXCEPT ![r] = {}]
           /\ usage' = [usage EXCEPT ![r] = {}]
           /\ todo' = [todo EXCEPT ![r] = {}]
<1>1. [kind |-> kind, items |-> list] \in Replies
      BY DEF Replies
<1>2. QED BY <1>1 DEF Respond, Drop, Goto, TypeOK

\* The two steps of a list that may be refused, and the rest of a handler.
HandlerStep(r) ==
    \/ Accept(r) \/ ReadPayload(r) \/ PayloadFails(r)
    \/ ListNodes(r) \/ ListMetrics(r) \/ \E n \in Nodes : ListPods(r, n)
    \/ NodePanic(r)

Answer(r) ==
    \/ ListFails(r) \/ SendNodes(r) \/ SpoofSpecs(r)
    \/ FetchSpecs(r) \/ FetchFails(r)

LEMMA NextCases ==
    ASSUME Next
    PROVE  \/ \E r \in Requests : Dial(r) \/ Proceed(r) \/ HandlerStep(r) \/ Answer(r)
           \/ \E n \in Nodes : NodeJoins(n) \/ NodeLeaves(n)
BY DEF Next, Serve, Call, HandlerStep, Answer

\* Every answer is a message with a list of nodes or specs, or an error.
LEMMA AnswerResponds ==
    ASSUME TypeOK, NEW r \in Requests, Answer(r)
    PROVE  \E kind \in {"error", "items"}, list \in SUBSET (Nodes \cup Specs) :
              Respond(r, kind, list)
<1>1. items[r] \in SUBSET (Nodes \cup Specs) /\ Specs \in SUBSET (Nodes \cup Specs)
      BY DEF TypeOK
<1>2. QED BY <1>1 DEF Answer, ListFails, SendNodes, SpoofSpecs,
                      spoofKernelSpecs, FetchSpecs, FetchFails

\* What an answer leaves alone.
LEMMA AnswerLeaves ==
    ASSUME NEW r \in Requests, Answer(r)
    PROVE  UNCHANGED <<environment, client, history>>
BY DEF Answer, ListFails, SendNodes, SpoofSpecs, FetchSpecs, FetchFails

-----------------------------------------------------------------------------
(* Type correctness. *)

LEMMA TypeInit == Init => TypeOK
BY NothingIsReply DEF Init, TypeOK, Active, Ended

LEMMA TypeNext == TypeOK /\ [Next]_vars => TypeOK'
<1> SUFFICES ASSUME TypeOK, [Next]_vars PROVE TypeOK'
    OBVIOUS
<1> USE DEF TypeOK, Active, Ended
<1>1. ASSUME NEW r \in Requests, Dial(r) PROVE TypeOK'
      BY <1>1 DEF Dial, environment, server
<1>2. ASSUME NEW r \in Requests, Proceed(r) PROVE TypeOK'
  <2>1. CASE DialFails(r)
        BY <2>1 DEF DialFails, End, environment, server
  <2>2. CASE Dialed(r)
        BY <2>2 DEF Dialed, environment, server, history
  <2>3. CASE WriteRequest(r)
        BY <2>3 DEF WriteRequest, environment, server, history
  <2>4. CASE WriteFails(r)
        BY <2>4 DEF WriteFails, End, environment, server
  <2>5. CASE TakeAnswer(r)
    <3>1. reply[r].items \in SUBSET (Nodes \cup Specs)
          BY DEF Replies
    <3>2. QED BY <2>5, <3>1 DEF TakeAnswer, End, environment, server
  <2>6. CASE TakeError(r)
        BY <2>6 DEF TakeError, End, environment, server
  <2>7. CASE ReadFails(r)
        BY <2>7 DEF ReadFails, End, environment, server
  <2>8. QED BY <1>2, <2>1, <2>2, <2>3, <2>4, <2>5, <2>6, <2>7 DEF Proceed
<1>3. ASSUME NEW r \in Requests, HandlerStep(r) PROVE TypeOK'
  <2> USE DEF Goto, environment, client, history
  <2>1. CASE Accept(r)
        BY <2>1 DEF Accept
  <2>2. CASE ReadPayload(r)
        BY <2>2 DEF ReadPayload
  <2>3. CASE PayloadFails(r)
        BY <2>3 DEF PayloadFails
  <2>4. CASE ListNodes(r)
        BY <2>4 DEF ListNodes
  <2>5. CASE ListMetrics(r)
        BY <2>5 DEF ListMetrics
  <2>6. ASSUME NEW n \in Nodes, ListPods(r, n) PROVE TypeOK'
        BY <2>6 DEF ListPods
  <2>7. CASE NodePanic(r)
        BY <2>7 DEF NodePanic, Drop
  <2>8. QED BY <1>3, <2>1, <2>2, <2>3, <2>4, <2>5, <2>6, <2>7 DEF HandlerStep
<1>4. ASSUME NEW r \in Requests, Answer(r) PROVE TypeOK'
  <2>1. /\ reply' \in [Requests -> Replies]
        /\ handler' = [handler EXCEPT ![r] = "finished"]
        /\ items' = [items EXCEPT ![r] = {}]
        /\ usage' = [usage EXCEPT ![r] = {}]
        /\ todo' = [todo EXCEPT ![r] = {}]
        BY <1>4, AnswerResponds, RespondType
  <2>2. UNCHANGED <<environment, client, history>>
        BY <1>4, AnswerLeaves
  <2>3. QED BY <2>1, <2>2 DEF environment, client, history
<1>5. ASSUME NEW n \in Nodes, NodeJoins(n) PROVE TypeOK'
      BY <1>5 DEF NodeJoins, client, server
<1>6. ASSUME NEW n \in Nodes, NodeLeaves(n) PROVE TypeOK'
      BY <1>6 DEF NodeLeaves, client, server
<1>7. CASE UNCHANGED vars
      BY <1>7 DEF vars, environment, client, server, history
<1>8. QED BY <1>1, <1>2, <1>3, <1>4, <1>5, <1>6, <1>7, NextCases

-----------------------------------------------------------------------------
(* The parts of a step. *)

\* A step of the provider goes on with its request or ends it; the servers and
\* the handler do not move.
LEMMA ProceedCases ==
    ASSUME NEW r \in Requests, Proceed(r)
    PROVE  /\ phase[r] \in Active
           /\ UNCHANGED <<environment, server>>
           /\ \/ /\ \E next \in {"writing", "reading"} :
                       phase' = [phase EXCEPT ![r] = next]
                 /\ \/ connected' = [connected EXCEPT ![r] = TRUE]
                    \/ connected' = connected
                 /\ handler[r] # "none" \/ phase[r] # "dialing"
                 /\ UNCHANGED history
              \/ \E how \in Ended : End(r, how)
BY DEF Proceed, DialFails, Dialed, WriteRequest, WriteFails, TakeAnswer, TakeError,
       ReadFails, Active, Ended

\* A step of a handler is not seen by the provider, nor by the servers.
LEMMA HandlerStepLeaves ==
    ASSUME NEW r \in Requests, HandlerStep(r)
    PROVE  UNCHANGED <<environment, client, history>>
BY DEF HandlerStep, Accept, ReadPayload, PayloadFails, ListNodes, ListMetrics,
       ListPods, NodePanic

-----------------------------------------------------------------------------
(* One request at a time, and no socket without a request. *)

LEMMA SocketsNext ==
    ASSUME TypeOK, OneActive, OpenIsActive, [Next]_vars
    PROVE  OneActive' /\ OpenIsActive'
<1> USE DEF TypeOK, OneActive, OpenIsActive, Active, Ended
<1>1. ASSUME NEW r \in Requests, Dial(r) PROVE OneActive' /\ OpenIsActive'
      BY <1>1 DEF Dial
<1>2. ASSUME NEW r \in Requests, Proceed(r) PROVE OneActive' /\ OpenIsActive'
  <2>1. CASE \E how \in Ended : End(r, how)
        BY <2>1 DEF End
  <2>2. CASE ~ \E how \in Ended : End(r, how)
    <3>1. /\ phase[r] \in Active
          /\ \E next \in {"writing", "reading"} : phase' = [phase EXCEPT ![r] = next]
          /\ \/ connected' = [connected EXCEPT ![r] = TRUE]
             \/ connected' = connected
          BY <1>2, <2>2, ProceedCases
    <3>2. QED BY <3>1
  <2>3. QED BY <2>1, <2>2
<1>3. ASSUME UNCHANGED client PROVE OneActive' /\ OpenIsActive'
      BY <1>3 DEF client
<1>4. ASSUME NEW n \in Nodes, NodeJoins(n) \/ NodeLeaves(n) PROVE UNCHANGED client
      BY <1>4 DEF NodeJoins, NodeLeaves
<1>5. ASSUME NEW r \in Requests, HandlerStep(r) \/ Answer(r) PROVE UNCHANGED client
      BY <1>5, HandlerStepLeaves, AnswerLeaves
<1>6. UNCHANGED vars => UNCHANGED client
      BY DEF vars
<1>7. QED BY <1>1, <1>2, <1>3, <1>4, <1>5, <1>6, NextCases

-----------------------------------------------------------------------------
(* What a handler has and has not done. *)

LEMMA HandlerFollowsNext ==
    ASSUME TypeOK, HandlerFollows, [Next]_vars
    PROVE  HandlerFollows'
<1> USE DEF TypeOK, HandlerFollows, Active, Ended
<1>1. ASSUME NEW r \in Requests, Dial(r) PROVE HandlerFollows'
      BY <1>1 DEF Dial, environment, server
<1>2. ASSUME NEW r \in Requests, Proceed(r) PROVE HandlerFollows'
  <2>1. UNCHANGED <<environment, server>>
        BY <1>2, ProceedCases
  <2>2. \E next \in Active \cup Ended : phase' = [phase EXCEPT ![r] = next]
        BY <1>2, ProceedCases DEF End
  <2>3. QED BY <2>1, <2>2 DEF environment, server
<1>3. ASSUME NEW r \in Requests, HandlerStep(r) PROVE HandlerFollows'
  <2> USE DEF Goto, environment, client
  <2>1. CASE Accept(r)
        BY <2>1 DEF Accept
  <2>2. CASE ReadPayload(r)
        BY <2>2 DEF ReadPayload
  <2>3. CASE PayloadFails(r)
        BY <2>3 DEF PayloadFails
  <2>4. CASE ListNodes(r)
        BY <2>4 DEF ListNodes
  <2>5. CASE ListMetrics(r)
        BY <2>5 DEF ListMetrics
  <2>6. ASSUME NEW n \in Nodes, ListPods(r, n) PROVE HandlerFollows'
        BY <2>6 DEF ListPods
  <2>7. CASE NodePanic(r)
        BY <2>7 DEF NodePanic, Drop
  <2>8. QED BY <1>3, <2>1, <2>2, <2>3, <2>4, <2>5, <2>6, <2>7 DEF HandlerStep
<1>4. ASSUME NEW r \in Requests, Answer(r) PROVE HandlerFollows'
  <2>1. handler[r] # "none" /\ UNCHANGED <<environment, client>>
        BY <1>4, AnswerLeaves DEF Answer, ListFails, SendNodes, SpoofSpecs, FetchSpecs,
           FetchFails
  <2>2. PICK kind \in {"error", "items"}, list \in SUBSET (Nodes \cup Specs) :
             Respond(r, kind, list)
        BY <1>4, AnswerResponds
  <2>3. QED BY <2>1, <2>2 DEF Respond, Drop, Goto, environment, client
<1>5. ASSUME UNCHANGED <<endpoint, phase, handler, items, todo, reply>>
      PROVE  HandlerFollows'
      BY <1>5
<1>6. ASSUME NEW n \in Nodes, NodeJoins(n) \/ NodeLeaves(n) PROVE HandlerFollows'
      BY <1>5, <1>6 DEF NodeJoins, NodeLeaves, client, server
<1>7. CASE UNCHANGED vars
      BY <1>5, <1>7 DEF vars, environment, client, server
<1>8. QED BY <1>1, <1>2, <1>3, <1>4, <1>6, <1>7, NextCases

-----------------------------------------------------------------------------
(* The lists a handler makes for an active request are current. *)

LEMMA ListsNext ==
    ASSUME TypeOK, HandlerFollows, ListsAreCurrent, [Next]_vars
    PROVE  ListsAreCurrent'
<1> USE DEF TypeOK, HandlerFollows, ListsAreCurrent, Current, Active, Ended
<1>1. ASSUME NEW r \in Requests, Dial(r) PROVE ListsAreCurrent'
      BY <1>1 DEF Dial, environment, server
<1>2. ASSUME NEW r \in Requests, Proceed(r) PROVE ListsAreCurrent'
  <2>1. phase[r] \in Active /\ UNCHANGED <<environment, server>>
        BY <1>2, ProceedCases
  <2>2. CASE \E how \in Ended : End(r, how)
        BY <2>1, <2>2 DEF End, environment, server
  <2>3. CASE UNCHANGED history /\ \E next \in Active : phase' = [phase EXCEPT ![r] = next]
        BY <2>1, <2>3 DEF environment, server, history
  <2>4. QED BY <1>2, <2>2, <2>3, ProceedCases
<1>3. ASSUME NEW r \in Requests, HandlerStep(r) PROVE ListsAreCurrent'
  <2> USE DEF Goto, environment, client, history
  <2>1. CASE Accept(r)
        BY <2>1 DEF Accept
  <2>2. CASE ReadPayload(r)
        BY <2>2 DEF ReadPayload
  <2>3. CASE PayloadFails(r)
        BY <2>3 DEF PayloadFails
  <2>4. CASE ListNodes(r)
        BY <2>4 DEF ListNodes
  <2>5. CASE ListMetrics(r)
        BY <2>5 DEF ListMetrics
  <2>6. ASSUME NEW n \in Nodes, ListPods(r, n) PROVE ListsAreCurrent'
        BY <2>6 DEF ListPods
  <2>7. CASE NodePanic(r)
        BY <2>7 DEF NodePanic, Drop
  <2>8. QED BY <1>3, <2>1, <2>2, <2>3, <2>4, <2>5, <2>6, <2>7 DEF HandlerStep
<1>4. ASSUME NEW r \in Requests, Answer(r) PROVE ListsAreCurrent'
  <2>1. UNCHANGED <<environment, client, history>>
        BY <1>4, AnswerLeaves
  <2>2. PICK kind \in {"error", "items"}, list \in SUBSET (Nodes \cup Specs) :
             /\ Respond(r, kind, list)
             /\ phase[r] \in Active /\ endpoint = "nodes" /\ kind = "items"
                    => Current(r, list)
    <3>1. CASE ListFails(r)
          BY <3>1 DEF ListFails
    <3>2. CASE SendNodes(r)
          BY <3>2 DEF SendNodes
    <3>3. CASE SpoofSpecs(r) \/ FetchSpecs(r) \/ FetchFails(r)
          BY <3>3 DEF SpoofSpecs, spoofKernelSpecs, FetchSpecs, FetchFails
    <3>4. QED BY <1>4, <3>1, <3>2, <3>3 DEF Answer
  <2>3. QED BY <2>1, <2>2 DEF Respond, Drop, Goto, environment, client, history
<1>5. ASSUME NEW n \in Nodes, NodeJoins(n) PROVE ListsAreCurrent'
      BY <1>5 DEF NodeJoins, client, server
<1>6. ASSUME NEW n \in Nodes, NodeLeaves(n) PROVE ListsAreCurrent'
      BY <1>6 DEF NodeLeaves, client, server
<1>7. CASE UNCHANGED vars
      BY <1>7 DEF vars, environment, client, server, history
<1>8. QED BY <1>1, <1>2, <1>3, <1>4, <1>5, <1>6, <1>7, NextCases

-----------------------------------------------------------------------------
(* The invariant and what follows from it. *)

LEMMA InvInit == Init => IInv
<1> SUFFICES ASSUME Init PROVE IInv
    OBVIOUS
<1>1. TypeOK
      BY TypeInit
<1>2. OneActive /\ OpenIsActive /\ ListsAreCurrent
      BY DEF Init, OneActive, OpenIsActive, ListsAreCurrent, Active
<1>3. HandlerFollows
      BY DEF Init, HandlerFollows, Nothing
<1>4. QED BY <1>1, <1>2, <1>3 DEF IInv

LEMMA InvNext == IInv /\ [Next]_vars => IInv'
BY TypeNext, SocketsNext, HandlerFollowsNext, ListsNext DEF IInv

\* One request of a provider at a time, its socket is open only while it is
\* active, its handler follows it, and the lists made for it are current:
\* RefreshResources and HandleRequest, for every cluster and every request.
THEOREM Invariance == Spec => []IInv
BY InvInit, InvNext, PTL DEF Spec

\* RefreshResources has one websocket open at most: each of its returns closes
\* the one it dialed, and the next refresh dials later.
THEOREM OneConnectionHolds == Spec => []OneConnection
<1>1. IInv => OneConnection
      BY DEF IInv, OneActive, OpenIsActive, OneConnection
<1>2. QED BY <1>1, Invariance, PTL

\* The nodes that RefreshResources takes from an answer were in the cluster
\* during the refresh, and none that stayed is missing.
THEOREM AnswersCorrect == Spec => AnswersAreCurrent
<1> DEFINE Taken ==
      endpoint = "nodes" =>
          \A r \in Requests :
             phase[r] # "answered" /\ phase'[r] = "answered" =>
                throughout[r] \subseteq resources' /\ resources' \subseteq ever[r]
<1>1. IInv /\ [Next]_vars => [Taken]_vars
  <2> SUFFICES ASSUME IInv, Next, endpoint = "nodes", NEW r \in Requests,
                      phase[r] # "answered", phase'[r] = "answered"
               PROVE  throughout[r] \subseteq resources' /\ resources' \subseteq ever[r]
      OBVIOUS
  <2> USE DEF IInv, TypeOK
  <2>1. TakeAnswer(r)
    <3>1. ASSUME NEW q \in Requests, Dial(q) PROVE FALSE
          BY <3>1 DEF Dial
    <3>2. ASSUME NEW q \in Requests, Proceed(q) PROVE TakeAnswer(r)
          BY <3>2 DEF Proceed, DialFails, Dialed, WriteRequest, WriteFails, TakeAnswer,
                      TakeError, ReadFails, End
    <3>3. ASSUME NEW q \in Requests, HandlerStep(q) \/ Answer(q) PROVE FALSE
          BY <3>3, HandlerStepLeaves, AnswerLeaves DEF client
    <3>4. ASSUME NEW n \in Nodes, NodeJoins(n) \/ NodeLeaves(n) PROVE FALSE
          BY <3>4 DEF NodeJoins, NodeLeaves, client
    <3>5. QED BY <3>1, <3>2, <3>3, <3>4, NextCases
  <2>2. QED BY <2>1 DEF TakeAnswer, ListsAreCurrent, Current, Active
<1>2. QED BY <1>1, Invariance, PTL DEF Spec, AnswersAreCurrent
=============================================================================
