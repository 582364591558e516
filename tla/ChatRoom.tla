------------------------------ MODULE ChatRoom ------------------------------
(***************************************************************************)
(* What the chat server of IPK/secondproject promises: a client is in one  *)
(* channel at a time, hears every message said there by somebody else, and *)
(* is told who joins and who leaves while it is there.                     *)
(***************************************************************************)
EXTENDS Naturals

CONSTANTS Clients, Channels, Default, Outside

VARIABLES
  room,    \* the channel each client is in, or Outside
  view,    \* whom each client has been told is in its channel, itself included
  mail     \* how many messages each client has heard

roomVars == <<room, view, mail>>

Init ==
  /\ room = [c \in Clients |-> Outside]
  /\ view = [c \in Clients |-> {}]
  /\ mail = [c \in Clients |-> 0]

\* c goes from its channel, if any, to channel r, if any: whoever is in the old
\* channel is told that c left, then whoever is in the new one that c joined.
Told(c, r) ==
  [d \in Clients |->
     IF d = c THEN (IF r = Outside THEN view[c] ELSE {c})
     ELSE LET heard == IF room[c] # Outside /\ room[d] = room[c]
                         THEN view[d] \ {c} ELSE view[d]
          IN IF r # Outside /\ room[d] = r THEN heard \cup {c} ELSE heard]

Go(c, r) ==
  /\ room' = [room EXCEPT ![c] = r]
  /\ view' = Told(c, r)
  /\ UNCHANGED mail

Enter(c) == room[c] = Outside /\ Go(c, Default)
Move(c, r) == room[c] # Outside /\ Go(c, r)
Leave(c) == room[c] # Outside /\ Go(c, Outside)

Say(c) ==
  /\ room[c] # Outside
  /\ mail' = [d \in Clients |->
                IF d # c /\ room[d] = room[c] THEN mail[d] + 1 ELSE mail[d]]
  /\ UNCHANGED <<room, view>>

\* The server ends: nobody is in a channel any more.
Collapse ==
  /\ room' = [c \in Clients |-> Outside]
  /\ view' \in [Clients -> SUBSET Clients]
  /\ mail' \in [Clients -> Nat]

Next ==
  \/ \E c \in Clients : Enter(c) \/ Leave(c) \/ Say(c)
  \/ \E c \in Clients, r \in Channels : Move(c, r)
  \/ Collapse

Spec == Init /\ [][Next]_roomVars

Inside(c) == room[c] # Outside

\* Of two clients in a channel exactly one has been told of the other: the one
\* that was there when the other came.  Nobody is told of a client that is not
\* there.
RosterKnown ==
  \A c \in Clients : Inside(c) =>
    /\ c \in view[c]
    /\ \A d \in view[c] : room[d] = room[c]
    /\ \A d \in Clients \ {c} :
         room[d] = room[c] => (d \in view[c] <=> c \notin view[d])
=============================================================================
