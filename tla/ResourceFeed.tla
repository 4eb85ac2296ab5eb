--------------------------- MODULE ResourceFeed ---------------------------
(***************************************************************************)
(* What a resource provider promises to the components that show its       *)
(* resources, without locks, goroutines, maps or subscriptions: there is a *)
(* current answer of the gateway, and a mounted component is only ever     *)
(* moved to that answer, whole, unless its parent replaces its list.  The  *)
(* answer does not change under a component that is taking it, and nobody  *)
(* who has left begins to take one.                                        *)
(* Nothing is promised of the list that a constructor reads, be it that of *)
(* a new component or the one of a parent's Render.                        *)
(***************************************************************************)
CONSTANTS Keys, Values, Absent, Components, Exported

VARIABLES
    answer,  \* the current answer of the gateway
    status,  \* "constructing", "mounted" or "dismounted"
    taking,  \* the components that are taking the answer
    view     \* the listing each component shows

vars == <<answer, status, taking, view>>

Listings == [Keys -> Values \cup {Absent}]
Empty == [k \in Keys |-> Absent]

Init ==
    /\ answer = Empty
    /\ status = [c \in Components |-> "constructing"]
    /\ taking = {}
    /\ view = [c \in Components |-> Empty]

\* The gateway gives a new answer.
Publish ==
    /\ taking = {}
    /\ answer' \in Listings
    /\ UNCHANGED <<status, taking, view>>

\* A new component shows what its constructor has read.
Join(c) ==
    /\ status[c] = "constructing"
    /\ status' = [status EXCEPT ![c] = "mounted"]
    /\ \E l \in Listings : view' = [view EXCEPT ![c] = l]
    /\ UNCHANGED <<answer, taking>>

\* The parent of a component replaces an exported list.
Replace(c) ==
    /\ c \in Exported
    /\ status[c] = "mounted"
    /\ \E l \in Listings : view' = [view EXCEPT ![c] = l]
    /\ UNCHANGED <<answer, status, taking>>

\* A mounted component begins to take the answer.
Begin(c) ==
    /\ status[c] = "mounted"
    /\ taking' = taking \cup {c}
    /\ UNCHANGED <<answer, status, view>>

\* It has taken it; it may have left in between.
Deliver(c) ==
    /\ c \in taking
    /\ taking' = taking \ {c}
    /\ view' = [view EXCEPT ![c] = answer]
    /\ UNCHANGED <<answer, status>>

Leave(c) ==
    /\ status[c] = "mounted"
    /\ status' = [status EXCEPT ![c] = "dismounted"]
    /\ UNCHANGED <<answer, taking, view>>

Next ==
    \/ Publish
    \/ \E c \in Components :
          Join(c) \/ Replace(c) \/ Begin(c) \/ Deliver(c) \/ Leave(c)

Spec == Init /\ [][Next]_vars
=============================================================================
