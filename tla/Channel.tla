------------------------------ MODULE Channel ------------------------------
(***************************************************************************)
(* What a channel promises the programs that share it: a queue of offered  *)
(* values, received in the order they were offered, each once.  The oldest *)
(* offers have room, their senders may go on; the others wait for room.    *)
(* Closing refuses exactly the offers without room and every later one.    *)
(* A sender is told yes when its value has room or a receiver, and no when *)
(* no receiver will ever have it.                                          *)
(***************************************************************************)
EXTENDS Naturals, Sequences, SequencesExt

CONSTANTS
  Handle,           \* the channels
  Value             \* what is sent, each at most once

VARIABLES
  offered,          \* [Handle -> Seq of values], neither received nor refused
  roomed,           \* [Handle -> how many of them have room]
  closed,           \* the handles that were closed
  received,         \* the values receivers were given
  yes,              \* the values whose sender is told that it got through
  no                \* the values whose sender is told that it did not

cvars == <<offered, roomed, closed, received, yes, no>>

Init ==
  /\ offered = [h \in Handle |-> <<>>]
  /\ roomed = [h \in Handle |-> 0]
  /\ closed = {} /\ received = {} /\ yes = {} /\ no = {}

\* A sender finds no room, and waits.
Offer(h) ==
  /\ h \notin closed
  /\ \E v \in Value : offered' = [offered EXCEPT ![h] = Append(@, v)]
  /\ UNCHANGED <<roomed, closed, received, yes, no>>

\* A sender finds room: nobody waits for it.
Store(h) ==
  /\ h \notin closed
  /\ roomed[h] = Len(offered[h])
  /\ \E v \in Value : /\ offered' = [offered EXCEPT ![h] = Append(@, v)]
                      /\ yes' = yes \cup {v}
  /\ roomed' = [roomed EXCEPT ![h] = @ + 1]
  /\ UNCHANGED <<closed, received, no>>

\* A receiver has the oldest offer, and the first that waits takes its room.
Give(h) ==
  /\ offered[h] # <<>>
  /\ offered' = [offered EXCEPT ![h] = Tail(@)]
  /\ received' = received \cup {Head(offered[h])}
  /\ \/ /\ roomed[h] < Len(offered[h])
        /\ yes' = yes \cup {offered[h][roomed[h] + 1]}
        /\ UNCHANGED roomed
     \/ /\ roomed[h] = Len(offered[h])
        /\ roomed' = [roomed EXCEPT ![h] = @ - 1]
        /\ UNCHANGED yes
  /\ UNCHANGED <<closed, no>>

\* A sender finds a receiver that waits.
Pass(h) ==
  /\ h \notin closed /\ offered[h] = <<>>
  /\ \E v \in Value : received' = received \cup {v} /\ yes' = yes \cup {v}
  /\ UNCHANGED <<offered, roomed, closed, no>>

Close(h) ==
  /\ h \notin closed
  /\ closed' = closed \cup {h}
  /\ offered' = [offered EXCEPT ![h] = SubSeq(@, 1, roomed[h])]
  /\ no' = no \cup (ToSet(offered[h]) \ ToSet(SubSeq(offered[h], 1, roomed[h])))
  /\ UNCHANGED <<roomed, received, yes>>

Refuse(h) ==
  /\ h \in closed
  /\ \E v \in Value : no' = no \cup {v}
  /\ UNCHANGED <<offered, roomed, closed, received, yes>>

Next ==
  \E h \in Handle :
    Offer(h) \/ Store(h) \/ Give(h) \/ Pass(h) \/ Close(h) \/ Refuse(h)

Spec == Init /\ [][Next]_cvars
=============================================================================
