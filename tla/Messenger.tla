----------------------------- MODULE Messenger -----------------------------
(***************************************************************************)
(* The broadcaster of the messenger package: a monitor goroutine that owns *)
(* the pool of client channels and selects among the requests of callers.  *)
(*                                                                         *)
(* The requests are unbuffered channels, so a request is one step of the   *)
(* monitor and a caller.  A broadcast is handed to the clients one by one, *)
(* in any order; the monitor waits for a client whose channel is full      *)
(* unless drop is set.  Every subscriber subscribes once here, so it is    *)
(* named for its channel.                                                  *)
(***************************************************************************)
EXTENDS Naturals, Sequences, FiniteSets

CONSTANTS
    Subscribers,
    Counters,       \* callers of Len
    MaxMessages,    \* bounds the broadcasts
    MaxBuffer       \* bounds the buffer given to New

ASSUME BoundsAssumption == MaxMessages \in Nat /\ MaxBuffer \in Nat

VARIABLES
    buffer, drop,   \* arguments of New
    monitor,        \* "select", "reply" to a Len, "send" a message, "killed"
    pool,           \* the clients
    toSend,         \* clients the message has not been handed to
    sent,           \* number of messages the monitor has taken
    chan,           \* the messages in each client channel
    closed,         \* the closed client channels
    pc,             \* of each subscriber
    received,       \* the messages each subscriber has read, Unsub's included
    since,          \* messages sent before it subscribed
    countPc,        \* of each caller of Len: "idle", "ask" or "wait"
    miscounted,     \* a Len that no other overlapped was wrong
    alone,          \* whether no other call overlaps the call of Len
    panicked

new == <<buffer, drop>>
clientVars == <<chan, closed, pc, received, since>>
monitorVars == <<monitor, pool, toSend, sent>>
countVars == <<countPc, miscounted, alone>>
vars == <<new, monitorVars, clientVars, countVars, panicked>>

\* setup ignores drop without a buffer.
Init ==
    /\ buffer \in 0 .. MaxBuffer
    /\ drop \in (IF buffer = 0 THEN {FALSE} ELSE BOOLEAN)
    /\ monitor = "select"
    /\ pool = {}
    /\ toSend = {}
    /\ sent = 0
    /\ chan = [s \in Subscribers |-> <<>>]
    /\ closed = {}
    /\ pc = [s \in Subscribers |-> "new"]
    /\ received = [s \in Subscribers |-> <<>>]
    /\ since = [s \in Subscribers |-> 0]
    /\ countPc = [l \in Counters |-> "idle"]
    /\ miscounted = FALSE
    /\ alone = [l \in Counters |-> TRUE]
    /\ panicked = FALSE

Goto(s, label) == pc' = [pc EXCEPT ![s] = label]

Selects == monitor = "select" /\ ~panicked

\* close panics on a channel that is closed already.
Close(S) ==
    /\ closed' = closed \cup S
    /\ panicked' = (S \cap closed # {})

-----------------------------------------------------------------------------
(* Subscribing and unsubscribing. *)

\* Mutant: the pool is not told of the client.
SubUnknown(s) ==
    /\ Selects
    /\ pc[s] = "new"
    /\ Goto(s, "busy")
    /\ since' = [since EXCEPT ![s] = sent]
    /\ UNCHANGED <<new, monitorVars, chan, closed, received, countVars, panicked>>

Sub(s) ==
    /\ Selects
    /\ pc[s] = "new"
    /\ pool' = pool \cup {s}
    /\ Goto(s, "busy")
    /\ since' = [since EXCEPT ![s] = sent]
    /\ UNCHANGED <<new, monitor, toSend, sent, chan, closed, received, countVars,
                   panicked>>

SubKilled(s) ==
    /\ monitor = "killed"
    /\ pc[s] = "new"
    /\ Goto(s, "gone")
    /\ UNCHANGED <<new, monitorVars, chan, closed, received, since, countVars,
                   panicked>>

Unsub(s) ==
    /\ pc[s] = "busy" \/ (pc[s] = "listening" /\ s \in closed)
    /\ Goto(s, "unsub")
    /\ UNCHANGED <<new, monitorVars, chan, closed, received, since, countVars,
                   panicked>>

\* The monitor takes the request and closes a client it knows.
Del(s) ==
    /\ Selects
    /\ pc[s] = "unsub"
    /\ Close(pool \cap {s})
    /\ pool' = pool \ {s}
    /\ Goto(s, "gone")
    /\ UNCHANGED <<new, monitor, toSend, sent, chan, received, since, countVars>>

\* With drop Unsub gives up when the messenger is killed, without it when it
\* has read its channel to the end.
UnsubEnds(s) ==
    /\ pc[s] = "unsub"
    /\ IF drop THEN monitor = "killed" ELSE s \in closed /\ chan[s] = <<>>
    /\ Goto(s, "gone")
    /\ UNCHANGED <<new, monitorVars, chan, closed, received, since, countVars,
                   panicked>>

-----------------------------------------------------------------------------
(* Client channels.  A subscriber that is busy reads a buffered channel now *)
(* and then; an unbuffered one it has to listen to.  Unsub reads the         *)
(* channel too, without drop.                                                *)

Draining(s) == pc[s] = "unsub" /\ ~drop

\* Mutant: Unsub does not read its channel.
ReadsBeforeUnsub(s) == pc[s] = (IF buffer = 0 THEN "listening" ELSE "busy")

Reads(s) == pc[s] = (IF buffer = 0 THEN "listening" ELSE "busy") \/ Draining(s)

Listen(s) ==
    /\ buffer = 0
    /\ pc[s] = "busy"
    /\ s \notin closed
    /\ Goto(s, "listening")
    /\ UNCHANGED <<new, monitorVars, chan, closed, received, since, countVars,
                   panicked>>

Read(s) ==
    /\ Reads(s)
    /\ chan[s] # <<>>
    /\ received' = [received EXCEPT ![s] = Append(@, Head(chan[s]))]
    /\ chan' = [chan EXCEPT ![s] = Tail(@)]
    /\ UNCHANGED <<new, monitorVars, pc, closed, since, countVars, panicked>>

-----------------------------------------------------------------------------
(* Broadcasting. *)

\* Broadcast returns as soon as the monitor has the message.
Broadcast ==
    /\ Selects
    /\ sent < MaxMessages
    /\ sent' = sent + 1
    /\ toSend' = pool
    /\ monitor' = "send"
    /\ UNCHANGED <<new, pool, clientVars, countVars, panicked>>

Sending(s) == monitor = "send" /\ s \in toSend /\ ~panicked

\* Mutant: off by one.
FullLate(s) == Len(chan[s]) > buffer

Full(s) == Len(chan[s]) = buffer

\* Mutant: a full client is skipped whether drop is set or not.
SkipAnyFull(s) ==
    /\ Sending(s)
    /\ buffer # 0 /\ Full(s)
    /\ toSend' = toSend \ {s}
    /\ UNCHANGED <<new, monitor, pool, sent, clientVars, countVars, panicked>>

SkipFull(s) ==
    /\ Sending(s)
    /\ drop /\ Full(s)
    /\ toSend' = toSend \ {s}
    /\ UNCHANGED <<new, monitor, pool, sent, clientVars, countVars, panicked>>

\* Into the buffer; a send on a closed channel panics.
SendBuffered(s) ==
    /\ Sending(s)
    /\ s \in closed \/ ~Full(s)
    /\ IF s \in closed THEN panicked' = TRUE /\ UNCHANGED chan
                       ELSE chan' = [chan EXCEPT ![s] = Append(@, sent)] /\ UNCHANGED panicked
    /\ toSend' = toSend \ {s}
    /\ UNCHANGED <<new, monitor, pool, sent, closed, pc, received, since, countVars>>

\* Without a buffer, to the subscriber that waits for it.
SendUnbuffered(s) ==
    /\ Sending(s)
    /\ buffer = 0
    /\ s \notin closed
    /\ Reads(s)
    /\ received' = [received EXCEPT ![s] = Append(@, sent)]
    /\ IF pc[s] = "listening" THEN Goto(s, "busy") ELSE UNCHANGED pc
    /\ toSend' = toSend \ {s}
    /\ UNCHANGED <<new, monitor, pool, sent, chan, closed, since, countVars, panicked>>

Sent ==
    /\ monitor = "send"
    /\ toSend = {}
    /\ monitor' = "select"
    /\ UNCHANGED <<new, pool, toSend, sent, clientVars, countVars, panicked>>

-----------------------------------------------------------------------------
(* Reset and Kill. *)

\* Mutant: the clients are closed and stay in the pool.
ResetKeepsPool ==
    /\ Selects
    /\ Close(pool)
    /\ UNCHANGED <<new, monitorVars, chan, pc, received, since, countVars>>

Reset ==
    /\ Selects
    /\ Close(pool)
    /\ pool' = {}
    /\ UNCHANGED <<new, monitor, toSend, sent, chan, pc, received, since, countVars>>

\* Calls that wait for the monitor return, Len with 0.
Kill ==
    /\ Selects
    /\ Close(pool)
    /\ pool' = {}
    /\ monitor' = "killed"
    /\ UNCHANGED <<new, toSend, sent, chan, pc, received, since, countVars>>

-----------------------------------------------------------------------------
(* Len: the request and the answer go through the same channel. *)

Calling(l) == countPc[l] # "idle"

LenCalled(l) ==
    /\ countPc[l] = "idle"
    /\ countPc' = [countPc EXCEPT ![l] = "ask"]
    /\ alone' = [k \in Counters |->
                   IF k = l THEN \A j \in Counters : ~Calling(j)
                            ELSE ~Calling(k)]
    /\ UNCHANGED <<new, monitorVars, clientVars, miscounted, panicked>>

LenAsks(l) ==
    /\ Selects
    /\ countPc[l] = "ask"
    /\ countPc' = [countPc EXCEPT ![l] = "wait"]
    /\ monitor' = "reply"
    /\ UNCHANGED <<new, pool, toSend, sent, clientVars, miscounted, alone,
                   panicked>>

\* Those who have subscribed and have not been closed.
Clients == {s \in Subscribers : pc[s] \in {"busy", "listening", "unsub"}} \ closed

Returns(l, n) ==
    /\ miscounted' = (miscounted \/ (alone[l] /\ n # Cardinality(Clients)))
    /\ alone' = [alone EXCEPT ![l] = TRUE]

\* The monitor's answer.
LenAnswered(l) ==
    /\ monitor = "reply"
    /\ countPc[l] = "wait"
    /\ countPc' = [countPc EXCEPT ![l] = "idle"]
    /\ Returns(l, Cardinality(pool))
    /\ monitor' = "select"
    /\ UNCHANGED <<new, pool, toSend, sent, clientVars, panicked>>

\* The request of another caller, taken for the answer.
LenMixedUp(l, other) ==
    /\ countPc[l] = "wait"
    /\ countPc[other] = "ask"
    /\ countPc' = [countPc EXCEPT ![l] = "idle", ![other] = "wait"]
    /\ Returns(l, 0)
    /\ UNCHANGED <<new, monitorVars, clientVars, panicked>>

LenKilled(l) ==
    /\ monitor = "killed"
    /\ countPc[l] = "ask"
    /\ countPc' = [countPc EXCEPT ![l] = "idle"]
    /\ Returns(l, 0)
    /\ UNCHANGED <<new, monitorVars, clientVars, panicked>>

-----------------------------------------------------------------------------
Send == Sent \/ \E s \in Subscribers :
                   SkipFull(s) \/ SendBuffered(s) \/ SendUnbuffered(s)

Listening(s) == Listen(s) \/ Read(s)

Leave(s) == Del(s) \/ UnsubEnds(s)

CountStep(l) ==
    \/ LenAsks(l) \/ LenAnswered(l) \/ LenKilled(l)
    \/ \E other \in Counters : LenMixedUp(l, other)

Next ==
    \/ Broadcast \/ Send \/ Reset \/ Kill
    \/ \E s \in Subscribers :
          Sub(s) \/ SubKilled(s) \/ Unsub(s) \/ Leave(s) \/ Listening(s)
    \/ \E l \in Counters : LenCalled(l) \/ CountStep(l)

\* The monitor is always in its loop, select chooses fairly among what is
\* ready, and a channel serves those who wait for it in their order.
Spec ==
    /\ Init
    /\ [][Next]_vars
    /\ WF_vars(Send)
    /\ SF_vars(\E l \in Counters : LenAnswered(l))
    /\ \A s \in Subscribers : SF_vars(Leave(s))
    /\ \A l \in Counters : SF_vars(CountStep(l))

\* Clients can block Broadcast unless drop is set: that they come back to
\* their channels is up to them.  Unsub's own reading is included.
ClientsListen == \A s \in Subscribers : WF_vars(~drop /\ Listening(s))

FairSpec == Spec /\ ClientsListen

-----------------------------------------------------------------------------
(* Properties. *)

Messages == 1 .. MaxMessages

\* Type correctness; a channel holds what its buffer allows.
TypeOK ==
    /\ buffer \in 0 .. MaxBuffer
    /\ drop \in BOOLEAN
    /\ monitor \in {"select", "reply", "send", "killed"}
    /\ pool \subseteq Subscribers
    /\ toSend \subseteq Subscribers
    /\ sent \in 0 .. MaxMessages
    /\ closed \subseteq Subscribers
    /\ chan \in [Subscribers -> Seq(Messages)]
    /\ \A s \in Subscribers : Len(chan[s]) <= buffer
    /\ pc \in [Subscribers -> {"new", "busy", "listening", "unsub", "gone"}]
    /\ received \in [Subscribers -> Seq(Messages)]
    /\ since \in [Subscribers -> 0 .. MaxMessages]
    /\ countPc \in [Counters -> {"idle", "ask", "wait"}]
    /\ alone \in [Counters -> BOOLEAN]
    /\ miscounted \in BOOLEAN
    /\ panicked \in BOOLEAN

\* The monitor never closes a channel twice and never sends on a closed one,
\* whatever the order of Unsub, Reset, Kill and Broadcast.
NeverPanics == ~panicked

\* Everything broadcast while a client is in the pool reaches its channel, in
\* order and once; with drop some may be missing.
Delivered(s) == received[s] \o chan[s]

InOrder ==
    \A s \in Subscribers :
        /\ \A i \in 1 .. Len(Delivered(s)) - 1 : Delivered(s)[i] < Delivered(s)[i + 1]
        /\ \A i \in 1 .. Len(Delivered(s)) : Delivered(s)[i] > since[s]
        /\ s \in pool \ toSend /\ ~drop => Len(Delivered(s)) = sent - since[s]

Clientele == INSTANCE Broadcasting
             WITH lossy <- drop, published <- sent, members <- pool, from <- since,
                  got <- [s \in Subscribers |-> Delivered(s)]

\* The monitor, its requests and the channels keep the promise of Broadcasting:
\* a client is handed the message of the moment and none twice, and without drop
\* the next message, an Unsub, a Reset and a Kill wait until everybody has it.
ImplementsBroadcasting == Clientele!Spec

\* A Len that no other Len overlaps returns the number of those who have
\* subscribed and not been closed (none once killed); one that is overlapped
\* may return the other's request, 0.
LenAloneCounts == ~miscounted

\* Unsub returns although the monitor may be waiting for the very client that
\* unsubscribes, and so do the calls of Len, mixed up or not.
CallsReturn ==
    /\ \A s \in Subscribers : pc[s] = "unsub" ~> pc[s] = "gone"
    /\ \A l \in Counters : Calling(l) ~> ~Calling(l)

-----------------------------------------------------------------------------
(* The inductive invariant behind NeverPanics, LenAloneCounts and           *)
(* ImplementsBroadcasting.                                                  *)

\* The monitor knows its clients, and forgets them when it is killed.
PoolIsCurrent ==
    /\ pool = Clients
    /\ monitor = "killed" => pool = {}

\* A message that was broadcast is handed to clients only, and none is left when
\* that is over.
SendingToClients ==
    /\ toSend \subseteq pool
    /\ IF monitor = "send" THEN sent > 0 ELSE toSend = {}

\* Nobody has used the channel of one who has not subscribed.
NewIsUntouched ==
    \A s \in Subscribers : pc[s] = "new" =>
        s \notin closed /\ chan[s] = <<>> /\ received[s] = <<>>

\* A client that the message has still to reach has only got earlier ones.
DeliveredUpToNow ==
    \A s \in Subscribers :
        /\ since[s] <= sent
        /\ s \in toSend => since[s] < sent
        /\ \A i \in 1 .. Len(Delivered(s)) :
              /\ Delivered(s)[i] <= sent
              /\ s \in toSend => Delivered(s)[i] < sent
        /\ s \in toSend /\ ~drop => Len(Delivered(s)) = sent - 1 - since[s]

\* A call of Len that counts as alone is the only one.
AloneIsAlone ==
    \A l, k \in Counters : alone[l] /\ Calling(l) /\ Calling(k) => k = l

\* The monitor that has taken a request of Len finds somebody to answer, and
\* nobody else waits for an answer, although any caller may read any request.
ReplyIsAwaited ==
    /\ monitor = "reply" <=> \E l \in Counters : countPc[l] = "wait"
    /\ \A l, k \in Counters : countPc[l] = "wait" /\ countPc[k] = "wait" => l = k

\* What the pool, the channels and the calls of Len rely on.
IInv ==
    /\ TypeOK
    /\ NeverPanics
    /\ PoolIsCurrent
    /\ SendingToClients
    /\ NewIsUntouched
    /\ InOrder
    /\ DeliveredUpToNow
    /\ LenAloneCounts
    /\ AloneIsAlone
    /\ ReplyIsAwaited
=============================================================================
