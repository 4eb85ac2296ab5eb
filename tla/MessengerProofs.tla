--------------------------- MODULE MessengerProofs ---------------------------
(* Theorems about Messenger, for every number of subscribers, callers of   *)
(* Len and broadcasts, and every buffer.                                   *)
EXTENDS Messenger, FiniteSetTheorems, SequenceTheorems, TLAPS

\* Steps that leave the clients and their channels as they are.
Asking(s) == SubKilled(s) \/ Unsub(s) \/ UnsubEnds(s) \/ Listen(s)

LEMMA NextCases ==
    ASSUME [Next]_vars
    PROVE  \/ Broadcast \/ Sent \/ Reset \/ Kill
           \/ \E s \in Subscribers :
                 \/ Sub(s) \/ Asking(s) \/ Del(s) \/ Read(s)
                 \/ SkipFull(s) \/ SendBuffered(s) \/ SendUnbuffered(s)
           \/ \E l \in Counters : LenCalled(l) \/ CountStep(l)
           \/ UNCHANGED vars
BY DEF Next, Send, Leave, Listening, Asking

-----------------------------------------------------------------------------
(* Sequences of messages. *)

\* What is read leaves the channel for the end of what has been received.
LEMMA ReadMoves ==
    ASSUME NEW S, NEW r \in Seq(S), NEW c \in Seq(S), c # <<>>
    PROVE  Append(r, Head(c)) \o Tail(c) = r \o c
<1>1. /\ Head(c) \in S /\ Head(c) = c[1]
      /\ Tail(c) \in Seq(S)
      /\ Len(Tail(c)) = Len(c) - 1
      /\ \A i \in 1 .. Len(c) - 1 : Tail(c)[i] = c[i + 1]
      BY HeadTailProperties
<1>2. /\ Append(r, Head(c)) \in Seq(S)
      /\ Len(Append(r, Head(c))) = Len(r) + 1
      /\ \A i \in 1 .. Len(r) : Append(r, Head(c))[i] = r[i]
      /\ Append(r, Head(c))[Len(r) + 1] = c[1]
      BY <1>1, AppendProperties
<1>3. Len(r) \in Nat /\ Len(c) \in Nat \ {0}
      BY LenProperties, EmptySeq
<1>4. /\ Append(r, Head(c)) \o Tail(c) \in Seq(S)
      /\ Len(Append(r, Head(c)) \o Tail(c)) = Len(r) + Len(c)
      /\ \A i \in 1 .. Len(r) + Len(c) :
            (Append(r, Head(c)) \o Tail(c))[i] =
               IF i <= Len(r) + 1 THEN Append(r, Head(c))[i]
                                  ELSE Tail(c)[i - (Len(r) + 1)]
      BY <1>1, <1>2, <1>3, ConcatProperties
<1>5. /\ r \o c \in Seq(S)
      /\ Len(r \o c) = Len(r) + Len(c)
      /\ \A i \in 1 .. Len(r) + Len(c) :
            (r \o c)[i] = IF i <= Len(r) THEN r[i] ELSE c[i - Len(r)]
      BY ConcatProperties
<1>6. ASSUME NEW i \in 1 .. Len(r) + Len(c)
      PROVE  (Append(r, Head(c)) \o Tail(c))[i] = (r \o c)[i]
  <2>1. CASE i <= Len(r)
        BY <1>2, <1>3, <1>4, <1>5, <2>1
  <2>2. CASE i = Len(r) + 1
        BY <1>2, <1>3, <1>4, <1>5, <2>2
  <2>3. CASE i > Len(r) + 1
    <3>1. i - (Len(r) + 1) \in 1 .. Len(c) - 1
          BY <1>3, <2>3
    <3>2. Tail(c)[i - (Len(r) + 1)] = c[i - Len(r)]
          BY <1>1, <1>3, <3>1
    <3>3. QED BY <1>3, <1>4, <1>5, <2>3, <3>2
  <2>4. QED BY <1>3, <2>1, <2>2, <2>3
<1>7. QED BY <1>4, <1>5, <1>6, SeqEqual

\* What is put into a channel comes last.
LEMMA SendAppends ==
    ASSUME NEW S, NEW r \in Seq(S), NEW c \in Seq(S), NEW m \in S
    PROVE  r \o Append(c, m) = Append(r \o c, m)
<1>1. <<m>> \in Seq(S)
      OBVIOUS
<1>2. Append(c, m) = c \o <<m>>
      BY AppendIsConcat
<1>3. Append(r \o c, m) = (r \o c) \o <<m>>
      BY AppendIsConcat, ConcatProperties
<1>4. (r \o c) \o <<m>> = r \o (c \o <<m>>)
      BY <1>1, ConcatAssociative
<1>5. QED BY <1>2, <1>3, <1>4

LEMMA DeliveredType ==
    ASSUME TypeOK, NEW s \in Subscribers
    PROVE  /\ Delivered(s) \in Seq(Messages)
           /\ Len(Delivered(s)) \in Nat
           /\ \A i \in 1 .. Len(Delivered(s)) : Delivered(s)[i] \in Nat
<1>1. Delivered(s) \in Seq(Messages)
      BY ConcatProperties DEF Delivered, TypeOK
<1>2. QED BY <1>1, LenProperties, ElementOfSeq, BoundsAssumption DEF Messages

-----------------------------------------------------------------------------
(* Type correctness. *)

LEMMA TypeInit == Init => TypeOK
<1> SUFFICES ASSUME Init PROVE TypeOK
    OBVIOUS
<1>1. /\ chan \in [Subscribers -> Seq(Messages)]
      /\ received \in [Subscribers -> Seq(Messages)]
      /\ \A s \in Subscribers : Len(chan[s]) = 0
      BY EmptySeq DEF Init
<1>2. buffer \in 0 .. MaxBuffer /\ 0 <= buffer
      BY BoundsAssumption DEF Init
<1>3. /\ pc \in [Subscribers -> {"new", "busy", "listening", "unsub", "gone"}]
      /\ since \in [Subscribers -> 0 .. MaxMessages]
      /\ sent \in 0 .. MaxMessages
      BY BoundsAssumption DEF Init
<1>4. /\ countPc \in [Counters -> {"idle", "ask", "wait"}]
      /\ alone \in [Counters -> BOOLEAN]
      BY DEF Init
<1>5. drop \in BOOLEAN
      BY DEF Init
<1>6. \A s \in Subscribers : Len(chan[s]) <= buffer
      BY <1>1, <1>2
<1>7. QED BY <1>1, <1>2, <1>3, <1>4, <1>5, <1>6, Zenon DEF Init, TypeOK

LEMMA SendType ==
    ASSUME TypeOK, SendingToClients, NEW s \in Subscribers,
           SendBuffered(s) \/ SendUnbuffered(s)
    PROVE  TypeOK'
<1> USE DEF Sending, Goto
<1>1. sent \in Messages
      BY BoundsAssumption DEF SendBuffered, SendUnbuffered, SendingToClients, TypeOK,
                              Messages
<1>2. CASE SendBuffered(s) /\ s \in closed
      BY <1>2 DEF SendBuffered, TypeOK, new, countVars
<1>3. CASE SendBuffered(s) /\ s \notin closed
  <2>1. /\ chan[s] \in Seq(Messages)
        /\ Len(chan[s]) \in Nat /\ buffer \in Nat
        /\ Len(chan[s]) <= buffer /\ Len(chan[s]) # buffer
        BY <1>3, LenProperties, BoundsAssumption DEF SendBuffered, Full, TypeOK
  <2>2. /\ Append(chan[s], sent) \in Seq(Messages)
        /\ Len(Append(chan[s], sent)) <= buffer
        BY <1>1, <2>1, AppendProperties
  <2>3. /\ chan' \in [Subscribers -> Seq(Messages)]
        /\ \A t \in Subscribers : Len(chan'[t]) <= buffer'
        BY <1>3, <2>2 DEF SendBuffered, TypeOK, new
  <2>4. QED BY <1>3, <2>3 DEF SendBuffered, TypeOK, new, countVars
<1>4. CASE SendUnbuffered(s)
  <2>1. Append(received[s], sent) \in Seq(Messages)
        BY <1>1, AppendProperties DEF TypeOK
  <2>2. received' \in [Subscribers -> Seq(Messages)]
        BY <1>4, <2>1 DEF SendUnbuffered, TypeOK
  <2>3. pc' \in [Subscribers -> {"new", "busy", "listening", "unsub", "gone"}]
        BY <1>4 DEF SendUnbuffered, TypeOK
  <2>4. QED BY <1>4, <2>2, <2>3 DEF SendUnbuffered, TypeOK, new, countVars
<1>5. QED BY <1>2, <1>3, <1>4

LEMMA ReadType ==
    ASSUME TypeOK, NEW s \in Subscribers, Read(s)
    PROVE  TypeOK'
<1>1. chan[s] \in Seq(Messages) /\ chan[s] # <<>> /\ received[s] \in Seq(Messages)
      BY DEF Read, TypeOK
<1>2. /\ Tail(chan[s]) \in Seq(Messages)
      /\ Append(received[s], Head(chan[s])) \in Seq(Messages)
      BY <1>1, HeadTailProperties, AppendProperties
<1>3. Len(Tail(chan[s])) <= buffer
  <2>1. Len(Tail(chan[s])) = Len(chan[s]) - 1 /\ Len(chan[s]) \in Nat
        BY <1>1, HeadTailProperties, LenProperties
  <2>2. Len(chan[s]) <= buffer /\ buffer \in Nat
        BY BoundsAssumption DEF TypeOK
  <2>3. QED BY <2>1, <2>2
<1>4. /\ chan' \in [Subscribers -> Seq(Messages)]
      /\ \A t \in Subscribers : Len(chan'[t]) <= buffer
      BY <1>2, <1>3 DEF Read, TypeOK
<1>5. received' \in [Subscribers -> Seq(Messages)]
      BY <1>2 DEF Read, TypeOK
<1>6. QED BY <1>4, <1>5 DEF Read, TypeOK, new, monitorVars, countVars

LEMMA CountType ==
    ASSUME TypeOK, NEW l \in Counters, LenCalled(l) \/ CountStep(l)
    PROVE  TypeOK'
<1> USE DEF TypeOK
<1>1. CASE LenCalled(l)
      BY <1>1 DEF LenCalled, Calling, new, monitorVars, clientVars
<1>2. CASE LenAsks(l)
      BY <1>2 DEF LenAsks, Selects, new, clientVars
<1>3. ASSUME NEW n, Returns(l, n)
      PROVE  miscounted' \in BOOLEAN /\ alone' \in [Counters -> BOOLEAN]
      BY <1>3 DEF Returns
<1>4. CASE LenAnswered(l)
      BY <1>3, <1>4 DEF LenAnswered, new, clientVars
<1>5. ASSUME NEW other \in Counters, LenMixedUp(l, other) PROVE TypeOK'
      BY <1>3, <1>5 DEF LenMixedUp, new, monitorVars, clientVars
<1>6. CASE LenKilled(l)
      BY <1>3, <1>6 DEF LenKilled, new, monitorVars, clientVars
<1>7. QED BY <1>1, <1>2, <1>4, <1>5, <1>6 DEF CountStep

LEMMA TypeNext == TypeOK /\ SendingToClients /\ [Next]_vars => TypeOK'
<1> SUFFICES ASSUME TypeOK, SendingToClients, [Next]_vars PROVE TypeOK'
    OBVIOUS
<1>1. CASE Broadcast
  <2>1. sent' \in 0 .. MaxMessages
        BY <1>1, BoundsAssumption DEF Broadcast, TypeOK
  <2>2. QED BY <1>1, <2>1 DEF Broadcast, TypeOK, new, clientVars, countVars
<1>2. CASE Sent
      BY <1>2 DEF Sent, TypeOK, new, clientVars, countVars
<1>3. CASE Reset \/ Kill
      BY <1>3 DEF Reset, Kill, Close, TypeOK, new, countVars
<1>4. ASSUME NEW s \in Subscribers, Sub(s) PROVE TypeOK'
      BY <1>4 DEF Sub, Goto, TypeOK, new, countVars
<1>5. ASSUME NEW s \in Subscribers, Asking(s) PROVE TypeOK'
      BY <1>5 DEF Asking, SubKilled, Unsub, UnsubEnds, Listen, Goto, TypeOK, new,
                  monitorVars, countVars
<1>6. ASSUME NEW s \in Subscribers, Del(s) PROVE TypeOK'
      BY <1>6 DEF Del, Close, Goto, TypeOK, new, countVars
<1>7. ASSUME NEW s \in Subscribers, SkipFull(s) PROVE TypeOK'
      BY <1>7 DEF SkipFull, TypeOK, new, clientVars, countVars
<1>8. CASE UNCHANGED vars
      BY <1>8 DEF vars, new, monitorVars, clientVars, countVars, TypeOK
<1>9. QED BY <1>1, <1>2, <1>3, <1>4, <1>5, <1>6, <1>7, <1>8, SendType, ReadType,
             CountType, NextCases

-----------------------------------------------------------------------------
(* The monitor and its pool. *)

PoolInv ==
    /\ NeverPanics
    /\ PoolIsCurrent
    /\ SendingToClients
    /\ NewIsUntouched

\* Only clients are sent to, and their channels are open.
LEMMA SendersAreClients ==
    ASSUME TypeOK, PoolInv, NEW s \in Subscribers, Sending(s)
    PROVE  s \in pool /\ s \notin closed /\ pc[s] \in {"busy", "listening", "unsub"}
BY DEF PoolInv, PoolIsCurrent, SendingToClients, Clients, Sending

LEMMA PoolNext ==
    ASSUME TypeOK, PoolInv, [Next]_vars
    PROVE  PoolInv'
<1> USE DEF PoolInv, NeverPanics, PoolIsCurrent, SendingToClients, NewIsUntouched,
            Clients
<1>1. CASE Broadcast
  <2>1. sent' > 0
        BY <1>1, BoundsAssumption DEF Broadcast, TypeOK
  <2>2. QED BY <1>1, <2>1 DEF Broadcast, clientVars
<1>2. CASE Sent
      BY <1>2 DEF Sent, clientVars
<1>3. CASE Reset \/ Kill
  <2>1. /\ pool' = {} /\ closed' = closed \cup pool /\ panicked' = FALSE
        /\ UNCHANGED <<pc, chan, received, toSend>>
        /\ toSend = {} /\ monitor' # "send"
        BY <1>3 DEF Reset, Kill, Close, Selects
  <2>2. \A s \in pool : pc[s] # "new"
        OBVIOUS
  <2>3. Clients' = {}
        BY <2>1
  <2>4. QED BY <2>1, <2>2, <2>3
<1>4. ASSUME NEW s \in Subscribers, Sub(s) PROVE PoolInv'
  <2>1. /\ pool' = pool \cup {s} /\ s \notin closed
        /\ pc[s] = "new" /\ pc' = [pc EXCEPT ![s] = "busy"]
        /\ monitor = "select" /\ toSend = {}
        /\ UNCHANGED <<monitor, toSend, sent, chan, closed, received, panicked>>
        BY <1>4 DEF Sub, Selects, Goto
  <2>2. Clients' = Clients \cup {s}
        BY <2>1 DEF TypeOK
  <2>3. NewIsUntouched'
        BY <2>1 DEF TypeOK
  <2>4. QED BY <2>1, <2>2, <2>3
<1>5. ASSUME NEW s \in Subscribers, Asking(s) PROVE PoolInv'
  <2>1. /\ UNCHANGED <<pool, monitor, toSend, sent, chan, closed, received, panicked>>
        /\ \A t \in Subscribers : t # s => pc'[t] = pc[t]
        /\ pc'[s] # "new"
        BY <1>5 DEF Asking, SubKilled, Unsub, UnsubEnds, Listen, Goto, monitorVars,
                    TypeOK
  <2>2. Clients' = Clients
    <3>1. CASE SubKilled(s)
          BY <2>1, <3>1 DEF SubKilled, Goto, TypeOK
    <3>2. CASE Unsub(s) \/ Listen(s)
          BY <2>1, <3>2 DEF Unsub, Listen, Goto, TypeOK
    <3>3. CASE UnsubEnds(s)
      <4>1. s \in closed \/ monitor = "killed"
            BY <3>3 DEF UnsubEnds
      <4>2. s \notin Clients
            BY <4>1
      <4>3. s \notin Clients'
            BY <2>1, <3>3 DEF UnsubEnds, Goto, TypeOK
      <4>4. QED BY <2>1, <4>2, <4>3
    <3>4. QED BY <1>5, <3>1, <3>2, <3>3 DEF Asking
  <2>3. QED BY <2>1, <2>2
<1>6. ASSUME NEW s \in Subscribers, Del(s) PROVE PoolInv'
  <2>1. /\ pool' = pool \ {s} /\ closed' = closed \cup (pool \cap {s})
        /\ panicked' = FALSE
        /\ pc[s] = "unsub" /\ pc' = [pc EXCEPT ![s] = "gone"]
        /\ monitor = "select" /\ toSend = {}
        /\ UNCHANGED <<monitor, toSend, sent, chan, received>>
        BY <1>6 DEF Del, Selects, Close, Goto
  <2>2. Clients' = Clients \ {s}
        BY <2>1 DEF TypeOK
  <2>3. NewIsUntouched'
        BY <2>1 DEF TypeOK
  <2>4. QED BY <2>1, <2>2, <2>3
<1>7. ASSUME NEW s \in Subscribers, Read(s) PROVE PoolInv'
  <2>1. pc[s] # "new"
        BY <1>7 DEF Read, Reads, Draining
  <2>2. QED BY <1>7, <2>1 DEF Read, monitorVars, TypeOK
<1>8. ASSUME NEW s \in Subscribers, SkipFull(s) PROVE PoolInv'
      BY <1>8 DEF SkipFull, Sending, clientVars
<1>9. ASSUME NEW s \in Subscribers, SendBuffered(s) PROVE PoolInv'
  <2>1. pc[s] # "new" /\ s \notin closed
        BY <1>9, SendersAreClients DEF SendBuffered
  <2>2. QED BY <1>9, <2>1 DEF SendBuffered, Sending, TypeOK
<1>10. ASSUME NEW s \in Subscribers, SendUnbuffered(s) PROVE PoolInv'
  <2>1. pc[s] # "new"
        BY <1>10, SendersAreClients DEF SendUnbuffered
  <2>2. /\ UNCHANGED <<pool, monitor, sent, chan, closed, panicked>>
        /\ toSend' = toSend \ {s} /\ monitor = "send"
        /\ \A t \in Subscribers : t # s => pc'[t] = pc[t] /\ received'[t] = received[t]
        /\ pc'[s] = pc[s] \/ (pc[s] = "listening" /\ pc'[s] = "busy")
        BY <1>10 DEF SendUnbuffered, Sending, Goto, TypeOK
  <2>3. Clients' = Clients
        BY <2>2
  <2>4. QED BY <2>1, <2>2, <2>3
<1>11. ASSUME NEW l \in Counters, LenCalled(l) \/ CountStep(l) PROVE PoolInv'
  <2>1. /\ UNCHANGED <<pool, toSend, sent, clientVars, panicked>>
        /\ monitor' = monitor \/ (monitor' \in {"select", "reply"}
                                  /\ monitor \in {"select", "reply"})
        BY <1>11 DEF LenCalled, CountStep, LenAsks, LenAnswered, LenMixedUp, LenKilled,
                     Selects, monitorVars
  <2>2. QED BY <2>1 DEF clientVars
<1>12. CASE UNCHANGED vars
      BY <1>12 DEF vars, monitorVars, clientVars
<1>13. QED BY <1>1, <1>2, <1>3, <1>4, <1>5, <1>6, <1>7, <1>8, <1>9, <1>10, <1>11,
              <1>12, NextCases

-----------------------------------------------------------------------------
(* The calls of Len. *)

CountInv == LenAloneCounts /\ AloneIsAlone

\* A call that returns what it should, or is not alone, leaves the others as
\* they were.
LEMMA CountNext ==
    ASSUME TypeOK, PoolIsCurrent, CountInv, [Next]_vars
    PROVE  CountInv'
<1> USE DEF CountInv, LenAloneCounts, AloneIsAlone, Calling
<1>1. CASE UNCHANGED countVars
      BY <1>1 DEF countVars
<1>2. ASSUME NEW l \in Counters, LenCalled(l) PROVE CountInv'
  <2>1. /\ countPc' = [countPc EXCEPT ![l] = "ask"]
        /\ alone' = [k \in Counters |-> IF k = l THEN \A j \in Counters : ~Calling(j)
                                                 ELSE ~Calling(k)]
        /\ miscounted' = miscounted
        BY <1>2 DEF LenCalled
  <2>2. ASSUME NEW k \in Counters, NEW j \in Counters,
               alone'[k], countPc'[k] # "idle", countPc'[j] # "idle"
        PROVE  j = k
    <3>1. CASE k = l
          BY <2>1, <2>2, <3>1 DEF TypeOK
    <3>2. CASE k # l
      <4>1. alone'[k] = ~Calling(k)
            BY <2>1, <3>2
      <4>2. countPc'[k] = countPc[k]
            BY <2>1, <3>2 DEF TypeOK
      <4>3. QED BY <2>2, <4>1, <4>2
    <3>3. QED BY <3>1, <3>2
  <2>3. QED BY <2>1, <2>2
<1>3. ASSUME NEW l \in Counters, LenAsks(l) PROVE CountInv'
      BY <1>3 DEF LenAsks, TypeOK
<1>4. ASSUME NEW l \in Counters, LenAnswered(l) \/ LenKilled(l) PROVE CountInv'
  <2>1. PICK n : Returns(l, n) /\ n = Cardinality(pool)
    <3>1. CASE LenAnswered(l)
          BY <3>1 DEF LenAnswered
    <3>2. CASE LenKilled(l)
      <4>1. pool = {}
            BY <3>2 DEF LenKilled, PoolIsCurrent
      <4>2. Cardinality(pool) = 0
            BY <4>1, FS_EmptySet
      <4>3. QED BY <3>2, <4>2 DEF LenKilled
    <3>3. QED BY <1>4, <3>1, <3>2
  <2>2. n = Cardinality(Clients)
        BY <2>1, Zenon DEF PoolIsCurrent
  <2>3. ~miscounted'
        BY <2>1, <2>2 DEF Returns
  <2>4. countPc' = [countPc EXCEPT ![l] = "idle"]
        BY <1>4 DEF LenAnswered, LenKilled
  <2>5. alone' = [alone EXCEPT ![l] = TRUE]
        BY <2>1 DEF Returns
  <2>6. QED BY <2>3, <2>4, <2>5 DEF TypeOK
<1>5. ASSUME NEW l \in Counters, NEW other \in Counters, LenMixedUp(l, other)
      PROVE  CountInv'
  <2>1. /\ countPc[l] = "wait" /\ countPc[other] = "ask"
        /\ countPc' = [countPc EXCEPT ![l] = "idle", ![other] = "wait"]
        BY <1>5 DEF LenMixedUp
  <2>2. l # other /\ ~alone[l]
        BY <2>1
  <2>3. ~miscounted' /\ alone' = [alone EXCEPT ![l] = TRUE]
        BY <1>5, <2>2 DEF LenMixedUp, Returns
  <2>4. \A k \in Counters : countPc'[k] # "idle" => k # l /\ countPc[k] # "idle"
        BY <2>1, <2>2 DEF TypeOK
  <2>5. \A k \in Counters : k # l => alone'[k] = alone[k]
        BY <2>3 DEF TypeOK
  <2>6. QED BY <2>3, <2>4, <2>5
<1>6. CASE Broadcast \/ Sent \/ Reset \/ Kill
      BY <1>1, <1>6 DEF Broadcast, Sent, Reset, Kill
<1>7. ASSUME NEW s \in Subscribers, Sub(s) \/ Asking(s) \/ Del(s) \/ Read(s)
      PROVE  UNCHANGED countVars
      BY <1>7 DEF Sub, Asking, SubKilled, Unsub, UnsubEnds, Listen, Del, Read
<1>8. ASSUME NEW s \in Subscribers, SkipFull(s) \/ SendBuffered(s) \/ SendUnbuffered(s)
      PROVE  UNCHANGED countVars
      BY <1>8 DEF SkipFull, SendBuffered, SendUnbuffered
<1>9. QED BY <1>1, <1>2, <1>3, <1>4, <1>5, <1>6, <1>7, <1>8, NextCases
          DEF CountStep, vars

\* Who takes a request or gets an answer is the one who waits from now on.
LEMMA ReplyNext ==
    ASSUME TypeOK, ReplyIsAwaited, [Next]_vars
    PROVE  ReplyIsAwaited'
<1> USE DEF ReplyIsAwaited
<1>1. CASE UNCHANGED <<countPc, monitor>>
      BY <1>1
<1>2. CASE Broadcast \/ Sent \/ Reset \/ Kill
  <2>1. monitor # "reply" /\ monitor' # "reply" /\ UNCHANGED countPc
        BY <1>2 DEF Broadcast, Sent, Reset, Kill, Selects, countVars
  <2>2. QED BY <2>1
<1>3. ASSUME NEW l \in Counters, LenCalled(l) PROVE ReplyIsAwaited'
  <2>1. /\ UNCHANGED monitor /\ countPc[l] # "wait" /\ countPc'[l] # "wait"
        /\ \A k \in Counters : k # l => countPc'[k] = countPc[k]
        BY <1>3 DEF LenCalled, monitorVars, TypeOK
  <2>2. QED BY <2>1
<1>4. ASSUME NEW l \in Counters, LenAsks(l) PROVE ReplyIsAwaited'
      BY <1>4 DEF LenAsks, Selects, TypeOK
<1>5. ASSUME NEW l \in Counters, LenAnswered(l) PROVE ReplyIsAwaited'
      BY <1>5 DEF LenAnswered, TypeOK
<1>6. ASSUME NEW l \in Counters, LenKilled(l) PROVE ReplyIsAwaited'
      BY <1>6 DEF LenKilled, monitorVars, TypeOK
<1>7. ASSUME NEW l \in Counters, NEW other \in Counters, LenMixedUp(l, other)
      PROVE  ReplyIsAwaited'
  <2>1. /\ UNCHANGED monitor
        /\ countPc[l] = "wait" /\ countPc'[other] = "wait"
        /\ \A k \in Counters : countPc'[k] = "wait" => k = other
        BY <1>7 DEF LenMixedUp, monitorVars, TypeOK
  <2>2. QED BY <2>1
<1>8. ASSUME NEW s \in Subscribers, Sub(s) \/ Asking(s) \/ Del(s) \/ Read(s)
      PROVE  UNCHANGED <<countPc, monitor>>
      BY <1>8 DEF Sub, Asking, SubKilled, Unsub, UnsubEnds, Listen, Del, Read,
                  countVars, monitorVars
<1>9. ASSUME NEW s \in Subscribers, SkipFull(s) \/ SendBuffered(s) \/ SendUnbuffered(s)
      PROVE  UNCHANGED <<countPc, monitor>>
      BY <1>9 DEF SkipFull, SendBuffered, SendUnbuffered, countVars
<1>10. CASE UNCHANGED vars
       BY <1>1, <1>10 DEF vars, countVars, monitorVars
<1>11. QED BY <1>1, <1>2, <1>3, <1>4, <1>5, <1>6, <1>7, <1>8, <1>9, <1>10, NextCases
           DEF CountStep

-----------------------------------------------------------------------------
(* The order of the messages. *)

OrderInv == InOrder /\ DeliveredUpToNow

\* What OrderInv says of one subscriber.
Ordered(s) ==
    /\ since[s] <= sent
    /\ s \in toSend => since[s] < sent
    /\ \A i \in 1 .. Len(Delivered(s)) - 1 : Delivered(s)[i] < Delivered(s)[i + 1]
    /\ \A i \in 1 .. Len(Delivered(s)) :
          /\ Delivered(s)[i] > since[s]
          /\ Delivered(s)[i] <= sent
          /\ s \in toSend => Delivered(s)[i] < sent
    /\ s \in pool \ toSend /\ ~drop => Len(Delivered(s)) = sent - since[s]
    /\ s \in toSend /\ ~drop => Len(Delivered(s)) = sent - 1 - since[s]

LEMMA OrderedAll == OrderInv => \A s \in Subscribers : Ordered(s)
BY DEF OrderInv, InOrder, DeliveredUpToNow, Ordered

LEMMA OrderedNext ==
    ASSUME \A s \in Subscribers : Ordered(s)'
    PROVE  OrderInv'
BY DEF OrderInv, InOrder, DeliveredUpToNow, Ordered

\* A step that delivers nothing.
LEMMA NothingDelivered ==
    ASSUME NEW s \in Subscribers, Ordered(s),
           UNCHANGED <<drop, sent>>, since'[s] = since[s],
           Delivered(s)' = Delivered(s),
           s \in toSend' => s \in toSend,
           s \in pool' \ toSend' => s \in pool \ toSend \/ drop
    PROVE  Ordered(s)'
BY DEF Ordered

\* A step that delivers the current message.
LEMMA MessageDelivered ==
    ASSUME TypeOK, NEW s \in Subscribers, Ordered(s), s \in toSend,
           UNCHANGED <<drop, sent>>, since'[s] = since[s],
           Delivered(s)' = Append(Delivered(s), sent), sent \in Messages,
           toSend' = toSend \ {s}
    PROVE  Ordered(s)'
<1> DEFINE d == Delivered(s)
           e == Delivered(s)'
<1>1. /\ d \in Seq(Messages)
      /\ Len(d) \in Nat
      /\ \A i \in 1 .. Len(d) : d[i] \in Nat
      BY DeliveredType
<1>2. since[s] \in Nat /\ sent \in Nat /\ since[s] < sent
      BY BoundsAssumption DEF TypeOK, Ordered
<1>3. /\ Len(e) = Len(d) + 1
      /\ \A i \in 1 .. Len(d) : e[i] = d[i]
      /\ e[Len(d) + 1] = sent
      BY <1>1, AppendProperties
<1>4. \A i \in 1 .. Len(d) : d[i] < sent /\ d[i] > since[s]
      BY DEF Ordered
<1>5. \A i \in 1 .. Len(e) : i \in 1 .. Len(d) \/ i = Len(d) + 1
      BY <1>1, <1>3
<1>6. \A i \in 1 .. Len(e) : e[i] > since[s] /\ e[i] <= sent
      BY <1>1, <1>2, <1>3, <1>4, <1>5
<1>7. ASSUME NEW i \in 1 .. Len(e) - 1
      PROVE  e[i] < e[i + 1]
  <2>1. i \in 1 .. Len(d) /\ e[i] = d[i]
        BY <1>1, <1>3
  <2>2. CASE i = Len(d)
        BY <1>3, <1>4, <2>1, <2>2
  <2>3. CASE i # Len(d)
    <3>1. i \in 1 .. Len(d) - 1 /\ i + 1 \in 1 .. Len(d)
          BY <1>1, <2>1, <2>3
    <3>2. d[i] < d[i + 1] /\ e[i + 1] = d[i + 1]
          BY <1>3, <3>1 DEF Ordered
    <3>3. QED BY <2>1, <3>2
  <2>4. QED BY <2>2, <2>3
<1>8. ~drop => Len(e) = sent - since[s]
      BY <1>1, <1>2, <1>3 DEF Ordered
<1>9. s \notin toSend'
      OBVIOUS
<1>10. QED BY <1>2, <1>6, <1>7, <1>8, <1>9 DEF Ordered

\* Reading a channel takes back nothing that was delivered.
LEMMA ReadDelivers ==
    ASSUME TypeOK, NEW s \in Subscribers, Read(s), NEW t \in Subscribers
    PROVE  Delivered(t)' = Delivered(t)
<1>1. /\ received' = [received EXCEPT ![s] = Append(@, Head(chan[s]))]
      /\ chan' = [chan EXCEPT ![s] = Tail(@)]
      /\ chan[s] # <<>>
      BY DEF Read
<1>2. received[s] \in Seq(Messages) /\ chan[s] \in Seq(Messages)
      BY DEF TypeOK
<1>3. Append(received[s], Head(chan[s])) \o Tail(chan[s]) = received[s] \o chan[s]
      BY <1>1, <1>2, ReadMoves
<1>4. QED BY <1>1, <1>3 DEF Delivered, TypeOK

\* A send delivers the message of the moment to one client that has yet to get
\* it, through its channel or past it.
LEMMA SendDelivers ==
    ASSUME TypeOK, PoolInv, NEW s \in Subscribers, SendBuffered(s) \/ SendUnbuffered(s)
    PROVE  /\ Sending(s) /\ s \in toSend /\ toSend' = toSend \ {s}
           /\ UNCHANGED <<drop, sent, since, pool>>
           /\ sent \in Messages
           /\ Delivered(s)' = Append(Delivered(s), sent)
           /\ \A t \in Subscribers \ {s} : Delivered(t)' = Delivered(t)
<1>1. /\ s \in toSend /\ toSend' = toSend \ {s} /\ Sending(s)
      /\ UNCHANGED <<drop, sent, since, pool>>
      BY DEF SendBuffered, SendUnbuffered, Sending, new
<1>2. s \notin closed
      BY <1>1, SendersAreClients
<1>3. sent \in Messages
      BY <1>1, BoundsAssumption DEF Sending, PoolInv, SendingToClients, TypeOK, Messages
<1>4. Delivered(s)' = Append(Delivered(s), sent)
  <2>1. CASE SendBuffered(s)
    <3>1. chan'[s] = Append(chan[s], sent) /\ received'[s] = received[s]
          BY <1>2, <2>1 DEF SendBuffered, TypeOK
    <3>2. QED BY <1>3, <3>1, SendAppends DEF Delivered, TypeOK
  <2>2. CASE SendUnbuffered(s)
    <3>1. /\ chan'[s] = chan[s] /\ received'[s] = Append(received[s], sent)
          /\ Len(chan[s]) <= 0
          BY <2>2 DEF SendUnbuffered, TypeOK
    <3>2. chan[s] = <<>>
          BY <3>1, EmptySeq DEF TypeOK
    <3>3. /\ received[s] \o <<>> = received[s]
          /\ Append(received[s], sent) \o <<>> = Append(received[s], sent)
          BY <1>3, AppendProperties, ConcatEmptySeq DEF TypeOK
    <3>4. QED BY <3>1, <3>2, <3>3 DEF Delivered
  <2>3. QED BY <2>1, <2>2
<1>5. \A t \in Subscribers \ {s} : Delivered(t)' = Delivered(t)
      BY DEF SendBuffered, SendUnbuffered, Delivered, TypeOK
<1>6. QED BY <1>1, <1>3, <1>4, <1>5

LEMMA OrderNext ==
    ASSUME TypeOK, PoolInv, OrderInv, [Next]_vars
    PROVE  OrderInv'
<1>1. \A s \in Subscribers : Ordered(s)
      BY OrderedAll
<1>2. CASE Broadcast
  <2>1. /\ toSend = {} /\ toSend' = pool /\ pool' = pool /\ sent' = sent + 1
        /\ UNCHANGED <<drop, since>>
        BY <1>2 DEF Broadcast, Selects, new, clientVars, PoolInv, SendingToClients
  <2>2. ASSUME NEW s \in Subscribers PROVE Ordered(s)'
    <3>1. Delivered(s)' = Delivered(s)
          BY <1>2 DEF Broadcast, clientVars, Delivered
    <3>2. /\ Len(Delivered(s)) \in Nat
          /\ \A i \in 1 .. Len(Delivered(s)) : Delivered(s)[i] \in Nat
          /\ since[s] \in Nat /\ sent \in Nat
          BY DeliveredType, BoundsAssumption DEF TypeOK
    <3>3. \A i \in 1 .. Len(Delivered(s)) : Delivered(s)[i] < sent'
          BY <1>1, <2>1, <3>2 DEF Ordered
    <3>4. s \in pool /\ ~drop => Len(Delivered(s)) = sent' - 1 - since[s]
          BY <1>1, <2>1, <3>2 DEF Ordered
    <3>5. since[s] < sent'
          BY <1>1, <2>1, <3>2 DEF Ordered
    <3>6. QED BY <1>1, <2>1, <3>1, <3>2, <3>3, <3>4, <3>5 DEF Ordered
  <2>3. QED BY <2>2, OrderedNext
<1>3. ASSUME UNCHANGED <<drop, sent, toSend, since>>, pool' \subseteq pool,
             \A s \in Subscribers : Delivered(s)' = Delivered(s)
      PROVE  OrderInv'
  <2>1. ASSUME NEW s \in Subscribers PROVE Ordered(s)'
        BY <1>1, <1>3, NothingDelivered
  <2>2. QED BY <2>1, OrderedNext
<1>4. CASE Sent
      BY <1>3, <1>4 DEF Sent, new, clientVars, Delivered
<1>5. CASE Reset \/ Kill
      BY <1>3, <1>5 DEF Reset, Kill, new, Delivered
<1>6. ASSUME NEW s \in Subscribers, Sub(s) PROVE OrderInv'
  <2>1. /\ pool' = pool \cup {s} /\ since' = [since EXCEPT ![s] = sent]
        /\ pc[s] = "new" /\ monitor = "select"
        /\ UNCHANGED <<drop, sent, toSend, chan, received>>
        BY <1>6 DEF Sub, Selects, new
  <2>2. \A t \in Subscribers : Delivered(t)' = Delivered(t)
        BY <2>1 DEF Delivered
  <2>3. ASSUME NEW t \in Subscribers, t # s PROVE Ordered(t)'
        BY <1>1, <2>1, <2>2, <2>3, NothingDelivered DEF TypeOK
  <2>4. Ordered(s)'
    <3>1. chan[s] = <<>> /\ received[s] = <<>>
          BY <2>1 DEF PoolInv, NewIsUntouched
    <3>2. Len(Delivered(s)) = 0
      <4>1. <<>> \in Seq(Messages) /\ Len(<<>>) = 0
            BY EmptySeq
      <4>2. Len(<<>> \o <<>>) = 0 + 0
            BY <4>1, ConcatProperties
      <4>3. QED BY <3>1, <4>2 DEF Delivered
    <3>3. since'[s] = sent /\ sent \in Nat
          BY <2>1, BoundsAssumption DEF TypeOK
    <3>4. s \notin toSend
          BY <2>1 DEF PoolInv, SendingToClients
    <3>5. QED BY <2>1, <2>2, <3>2, <3>3, <3>4 DEF Ordered
  <2>5. QED BY <2>3, <2>4, OrderedNext
<1>7. ASSUME NEW s \in Subscribers, Asking(s) PROVE OrderInv'
      BY <1>3, <1>7 DEF Asking, SubKilled, Unsub, UnsubEnds, Listen, new, monitorVars,
                        Delivered
<1>8. ASSUME NEW s \in Subscribers, Del(s) PROVE OrderInv'
      BY <1>3, <1>8 DEF Del, new, Delivered
<1>9. ASSUME NEW s \in Subscribers, Read(s) PROVE OrderInv'
  <2>1. UNCHANGED <<drop, sent, toSend, since, pool>>
        BY <1>9 DEF Read, new, monitorVars
  <2>2. QED BY <1>3, <1>9, <2>1, ReadDelivers
<1>10. ASSUME NEW s \in Subscribers, SkipFull(s) PROVE OrderInv'
  <2>1. /\ drop /\ toSend' = toSend \ {s}
        /\ UNCHANGED <<drop, sent, since, pool, chan, received>>
        BY <1>10 DEF SkipFull, new, clientVars
  <2>2. ASSUME NEW t \in Subscribers PROVE Ordered(t)'
    <3>1. Delivered(t)' = Delivered(t)
          BY <2>1 DEF Delivered
    <3>2. QED BY <1>1, <2>1, <3>1, NothingDelivered
  <2>3. QED BY <2>2, OrderedNext
<1>11. ASSUME NEW s \in Subscribers, SendBuffered(s) \/ SendUnbuffered(s)
       PROVE  OrderInv'
  <2>1. ASSUME NEW t \in Subscribers, t # s PROVE Ordered(t)'
        BY <1>1, <1>11, <2>1, SendDelivers, NothingDelivered
  <2>2. Ordered(s)'
        BY <1>1, <1>11, SendDelivers, MessageDelivered
  <2>3. QED BY <2>1, <2>2, OrderedNext
<1>12. ASSUME NEW l \in Counters, LenCalled(l) \/ CountStep(l) PROVE OrderInv'
  <2>1. UNCHANGED <<drop, sent, toSend, since, pool, chan, received>>
        BY <1>12 DEF LenCalled, CountStep, LenAsks, LenAnswered, LenMixedUp, LenKilled,
                     monitorVars, clientVars, new
  <2>2. QED BY <1>3, <2>1 DEF Delivered
<1>13. CASE UNCHANGED vars
      BY <1>3, <1>13 DEF vars, new, monitorVars, clientVars, Delivered
<1>14. QED BY <1>2, <1>4, <1>5, <1>6, <1>7, <1>8, <1>9, <1>10, <1>11, <1>12, <1>13,
              NextCases

-----------------------------------------------------------------------------
LEMMA InvParts == IInv => TypeOK /\ PoolInv /\ OrderInv /\ CountInv /\ ReplyIsAwaited
BY DEF IInv, PoolInv, OrderInv, CountInv

LEMMA InvInit == Init => IInv
<1> SUFFICES ASSUME Init PROVE IInv
    OBVIOUS
<1>1. TypeOK
      BY TypeInit
<1>2. NeverPanics /\ PoolIsCurrent /\ SendingToClients /\ NewIsUntouched
      BY DEF Init, NeverPanics, PoolIsCurrent, SendingToClients, NewIsUntouched, Clients
<1>3. \A s \in Subscribers : Len(Delivered(s)) = 0
  <2>1. <<>> \in Seq(Messages) /\ Len(<<>>) = 0
        BY EmptySeq
  <2>2. Len(<<>> \o <<>>) = 0 + 0
        BY <2>1, ConcatProperties
  <2>3. QED BY <2>2 DEF Init, Delivered
<1>4. InOrder /\ DeliveredUpToNow
      BY <1>3 DEF Init, InOrder, DeliveredUpToNow
<1>5. LenAloneCounts /\ AloneIsAlone /\ ReplyIsAwaited
      BY DEF Init, LenAloneCounts, AloneIsAlone, ReplyIsAwaited, Calling
<1>6. QED BY <1>1, <1>2, <1>4, <1>5 DEF IInv

LEMMA InvNext == IInv /\ [Next]_vars => IInv'
<1> SUFFICES ASSUME IInv, [Next]_vars PROVE IInv'
    OBVIOUS
<1>1. TypeOK /\ PoolInv /\ OrderInv /\ CountInv /\ ReplyIsAwaited
      BY InvParts
<1>2. TypeOK'
      BY <1>1, TypeNext DEF PoolInv
<1>3. PoolInv' /\ OrderInv' /\ CountInv' /\ ReplyIsAwaited'
      BY <1>1, PoolNext, OrderNext, CountNext, ReplyNext DEF PoolInv
<1>4. QED BY <1>2, <1>3 DEF IInv, PoolInv, OrderInv, CountInv

\* The inductive invariant of the messenger: the monitor's pool is always the
\* set of the open clients, and what they have got is what was broadcast since
\* they subscribed, but for the message of the moment.
THEOREM Invariance == Spec => []IInv
BY InvInit, InvNext, PTL DEF Spec

\* Type correctness; no channel holds more than its buffer.
THEOREM TypeCorrect == Spec => []TypeOK
<1>1. IInv => TypeOK
      BY DEF IInv
<1>2. QED BY <1>1, Invariance, PTL

\* No order of Unsub, Reset, Kill and Broadcast closes a channel twice or sends
\* on a closed one, for any number of subscribers.
THEOREM MonitorNeverPanics == Spec => []NeverPanics
<1>1. IInv => NeverPanics
      BY DEF IInv
<1>2. QED BY <1>1, Invariance, PTL

\* Clients get the messages in order and once, and without drop all of them.
THEOREM DeliveryInOrder == Spec => []InOrder
<1>1. IInv => InOrder
      BY DEF IInv
<1>2. QED BY <1>1, Invariance, PTL

\* A call of Len that no other overlaps returns the number of clients, although
\* requests and answers share a channel.
THEOREM LenCounts == Spec => []LenAloneCounts
<1>1. IInv => LenAloneCounts
      BY DEF IInv
<1>2. QED BY <1>1, Invariance, PTL

-----------------------------------------------------------------------------
(* The messenger implements Broadcasting. *)

\* What the clients have got, as the abstract broadcaster sees it.
Got == [s \in Subscribers |-> Delivered(s)]

\* Steps that are neither a message for a client nor a change of the pool.
LEMMA Stutters ==
    ASSUME UNCHANGED <<drop, sent, pool, since>>,
           \A s \in Subscribers : Delivered(s)' = Delivered(s)
    PROVE  UNCHANGED Clientele!vars
<1>1. Got' = Got
      BY DEF Got
<1>2. QED BY <1>1 DEF Got, Clientele!vars

\* The monitor turns to the next request when the message is through.
LEMMA AllServed ==
    ASSUME IInv, Selects
    PROVE  toSend = {} /\ Clientele!Served(pool)
<1>1. toSend = {}
      BY DEF IInv, SendingToClients, Selects
<1>2. \A s \in pool : s \in Subscribers /\ (~drop => Len(Delivered(s)) = sent - since[s])
      BY <1>1 DEF IInv, TypeOK, InOrder
<1>3. QED BY <1>1, <1>2 DEF Clientele!Served

\* Clients are let go when they have got everything.
LEMMA LetGo ==
    ASSUME IInv, Selects, NEW S \in SUBSET pool, pool' = pool \ S,
           UNCHANGED <<drop, sent, since, chan, received>>
    PROVE  Clientele!Next
<1>1. Clientele!Served(S)
      BY AllServed DEF Clientele!Served
<1>2. Got' = Got
      BY DEF Got, Delivered
<1>3. Clientele!Leave(S)
      BY <1>1, <1>2 DEF Clientele!Leave, Got
<1>4. QED BY <1>3 DEF Clientele!Next

LEMMA ClienteleInit == Init => Clientele!Init
<1> SUFFICES ASSUME Init PROVE Clientele!Init
    OBVIOUS
<1>1. \A s \in Subscribers : Delivered(s) = <<>>
      BY ConcatEmptySeq, EmptySeq DEF Init, Delivered
<1>2. drop \in BOOLEAN
      BY DEF Init
<1>3. QED BY <1>1, <1>2 DEF Init, Clientele!Init

LEMMA ClienteleNext == IInv /\ [Next]_vars => [Clientele!Next]_(Clientele!vars)
<1> SUFFICES ASSUME IInv, [Next]_vars PROVE [Clientele!Next]_(Clientele!vars)
    OBVIOUS
<1>1. TypeOK /\ PoolInv /\ InOrder /\ DeliveredUpToNow
      BY DEF IInv, PoolInv
<1>2. CASE Broadcast
  <2>1. Got' = Got
        BY <1>2 DEF Broadcast, clientVars, Got, Delivered
  <2>2. Clientele!Publish
        BY <1>2, <2>1, AllServed DEF Broadcast, Clientele!Publish, new, clientVars, Got
  <2>3. QED BY <2>2 DEF Clientele!Next
<1>3. ASSUME NEW s \in Subscribers, SendBuffered(s) \/ SendUnbuffered(s)
      PROVE  [Clientele!Next]_(Clientele!vars)
  <2>1. /\ Sending(s) /\ s \in toSend
        /\ UNCHANGED <<drop, sent, since, pool>>
        /\ Delivered(s)' = Append(Delivered(s), sent)
        /\ \A t \in Subscribers \ {s} : Delivered(t)' = Delivered(t)
        BY <1>1, <1>3, SendDelivers
  <2>2. s \in pool
        BY <1>1, <2>1, SendersAreClients
  <2>3. since[s] < sent /\ \A i \in 1 .. Len(Delivered(s)) : Delivered(s)[i] < sent
        BY <1>1, <2>1 DEF DeliveredUpToNow
  <2>4. Got' = [Got EXCEPT ![s] = Append(@, sent)]
        BY <2>1 DEF Got
  <2>5. Clientele!Deliver(s)
        BY <2>1, <2>2, <2>3, <2>4 DEF Clientele!Deliver, Got
  <2>6. QED BY <2>5 DEF Clientele!Next
<1>4. ASSUME NEW s \in Subscribers, Sub(s) PROVE [Clientele!Next]_(Clientele!vars)
  <2>1. Delivered(s) = <<>> /\ s \notin pool
        BY <1>1, <1>4, ConcatEmptySeq, EmptySeq
           DEF Sub, Delivered, PoolInv, NewIsUntouched, PoolIsCurrent, Clients
  <2>2. Got' = Got
        BY <1>4 DEF Sub, Got, Delivered
  <2>3. Clientele!Join(s)
        BY <1>4, <2>1, <2>2 DEF Sub, Clientele!Join, new, Got
  <2>4. QED BY <2>3 DEF Clientele!Next
<1>5. ASSUME NEW s \in Subscribers, Del(s) PROVE [Clientele!Next]_(Clientele!vars)
  <2>1. pool' = pool \ (pool \cap {s})
        BY <1>5 DEF Del
  <2>2. QED BY <1>5, <2>1, LetGo DEF Del, new
<1>6. CASE Reset \/ Kill
  <2>1. pool' = pool \ pool
        BY <1>6 DEF Reset, Kill
  <2>2. QED BY <1>6, <2>1, LetGo DEF Reset, Kill, new
<1>7. ASSUME NEW s \in Subscribers, Read(s) PROVE UNCHANGED Clientele!vars
  <2>1. \A t \in Subscribers : Delivered(t)' = Delivered(t)
        BY <1>1, <1>7, ReadDelivers
  <2>2. QED BY <1>7, <2>1, Stutters DEF Read, new, monitorVars
<1>8. CASE UNCHANGED <<drop, sent, pool, since, chan, received>>
  <2>1. \A t \in Subscribers : Delivered(t)' = Delivered(t)
        BY <1>8 DEF Delivered
  <2>2. QED BY <1>8, <2>1, Stutters
<1>9. ASSUME NEW s \in Subscribers, Asking(s) \/ SkipFull(s)
      PROVE  UNCHANGED <<drop, sent, pool, since, chan, received>>
      BY <1>9 DEF Asking, SubKilled, Unsub, UnsubEnds, Listen, SkipFull, new,
                  monitorVars, clientVars
<1>10. ASSUME NEW l \in Counters, LenCalled(l) \/ CountStep(l)
       PROVE  UNCHANGED <<drop, sent, pool, since, chan, received>>
       BY <1>10 DEF LenCalled, CountStep, LenAsks, LenAnswered, LenMixedUp, LenKilled,
                    new, monitorVars, clientVars
<1>11. CASE Sent \/ UNCHANGED vars
       BY <1>8, <1>11 DEF Sent, vars, new, monitorVars, clientVars
<1>12. QED BY <1>2, <1>3, <1>4, <1>5, <1>6, <1>7, <1>8, <1>9, <1>10, <1>11, NextCases

\* The monitor with its requests and channels implements Broadcasting: a message
\* is through before anything else happens to the clients.
THEOREM Refinement == Spec => ImplementsBroadcasting
<1>1. Init => Clientele!Init
      BY ClienteleInit
<1>2. IInv /\ [Next]_vars => [Clientele!Next]_(Clientele!vars)
      BY ClienteleNext
<1>3. QED BY <1>1, <1>2, Invariance, PTL DEF Spec, Clientele!Spec, ImplementsBroadcasting
=============================================================================
