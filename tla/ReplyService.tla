---------------------------- MODULE ReplyService ----------------------------
(***************************************************************************)
(* What the request pipeline promises its clients: requests are numbered   *)
(* as they arrive; a pending request is answered at most once, to the one  *)
(* who asked and only while that one is still there, or it is dropped.     *)
(* The design this abstracts is the reply matching of ISGWAck::process.    *)
(***************************************************************************)
EXTENDS Naturals, Sequences

CONSTANT Clients    \* those who may ask: connections and UDP addresses

VARIABLES
    live,      \* clients that can be sent something
    asker,     \* asker[n]: who sent request n
    pending,   \* requests neither answered nor dropped
    sent       \* sent[n]: to whom answers to request n went

vars == <<live, asker, pending, sent>>

Init ==
    /\ live \subseteq Clients
    /\ asker = <<>>
    /\ pending = {}
    /\ sent = <<>>

Arrive(c) ==
    /\ live' = live \cup {c}
    /\ UNCHANGED <<asker, pending, sent>>

Leave(c) ==
    /\ live' = live \ {c}
    /\ UNCHANGED <<asker, pending, sent>>

(* A request arrives and is accepted ...                                   *)
Ask(c) ==
    /\ c \in live
    /\ asker' = Append(asker, c)
    /\ sent' = Append(sent, <<>>)
    /\ pending' = pending \cup {Len(asker) + 1}
    /\ UNCHANGED live

(* ... or refused, at the price of the connection if there is one.         *)
Refuse(c) ==
    /\ c \in live
    /\ asker' = Append(asker, c)
    /\ sent' = Append(sent, <<>>)
    /\ live' \in {live, live \ {c}}
    /\ UNCHANGED pending

Answer(n) ==
    /\ n \in pending
    /\ asker[n] \in live
    /\ sent' = [sent EXCEPT ![n] = Append(@, asker[n])]
    /\ pending' = pending \ {n}
    /\ UNCHANGED <<live, asker>>

(* An answer that cannot be sent costs the connection it was meant for.    *)
Drop(n) ==
    /\ n \in pending
    /\ pending' = pending \ {n}
    /\ live' \in {live, live \ {asker[n]}}
    /\ UNCHANGED <<asker, sent>>

Next ==
    \/ \E c \in Clients : Arrive(c) \/ Leave(c) \/ Ask(c) \/ Refuse(c)
    \/ \E n \in pending : Answer(n) \/ Drop(n)

Spec == Init /\ [][Next]_vars
=============================================================================
