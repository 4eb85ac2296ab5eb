---------------------------- MODULE Broadcasting ----------------------------
(***************************************************************************)
(* What a broadcaster promises its clients, without a monitor, requests or *)
(* channels.  Messages are numbered as they are broadcast.  A client gets  *)
(* the message of the moment and none twice.  Unless the broadcaster is    *)
(* lossy, no message is broadcast and no client is let go before the       *)
(* clients have got all that was broadcast since they joined.  Nothing is  *)
(* taken back: what has been handed out stays readable.                    *)
(***************************************************************************)
EXTENDS Naturals, Sequences

CONSTANT Subscribers

VARIABLES
    lossy,
    published,  \* number of messages broadcast
    members,    \* the clients
    from,       \* messages broadcast before each client joined
    got         \* the messages each client has been handed

vars == <<lossy, published, members, from, got>>

Init ==
    /\ lossy \in BOOLEAN
    /\ published = 0
    /\ members = {}
    /\ from = [s \in Subscribers |-> 0]
    /\ got = [s \in Subscribers |-> <<>>]

\* The clients in S miss nothing.
Served(S) == lossy \/ \A s \in S : Len(got[s]) = published - from[s]

Publish ==
    /\ Served(members)
    /\ published' = published + 1
    /\ UNCHANGED <<lossy, members, from, got>>

\* A new client sees later messages only.
Join(s) ==
    /\ s \notin members
    /\ got[s] = <<>>
    /\ members' = members \cup {s}
    /\ from' = [from EXCEPT ![s] = published]
    /\ UNCHANGED <<lossy, published, got>>

Deliver(s) ==
    /\ s \in members
    /\ from[s] < published
    /\ \A i \in 1 .. Len(got[s]) : got[s][i] < published
    /\ got' = [got EXCEPT ![s] = Append(@, published)]
    /\ UNCHANGED <<lossy, published, members, from>>

Leave(S) ==
    /\ Served(S)
    /\ members' = members \ S
    /\ UNCHANGED <<lossy, published, from, got>>

Next ==
    \/ Publish
    \/ \E s \in Subscribers : Join(s) \/ Deliver(s)
    \/ \E S \in SUBSET members : Leave(S)

Spec == Init /\ [][Next]_vars
=============================================================================
