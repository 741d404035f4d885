------------------------------ MODULE MsgQueue ------------------------------
(***************************************************************************)
(* What a message queue of the kernel promises its callers: messages are   *)
(* received in the order in which the sends linked them, urgent ones last  *)
(* in first out, each by one receiver, and unchanged while it is copied.   *)
(***************************************************************************)
EXTENDS Sequences, Integers

CONSTANTS Receivers, Msgs, NoMsg, Capacity

VARIABLES
  q,        \* the messages in the queue
  carried   \* the message a receiver has taken and not yet copied

vars == <<q, carried>>

Init ==
  /\ q = <<>>
  /\ carried = [r \in Receivers |-> NoMsg]

Accept(m) ==
  /\ Len(q) < Capacity
  /\ q' \in {Append(q, m), <<m>> \o q}
  /\ UNCHANGED carried

Take(r) ==
  /\ q # <<>> /\ carried[r] = NoMsg
  /\ q' = Tail(q)
  /\ carried' = [carried EXCEPT ![r] = Head(q)]

(* carried[r] is what the caller gets                                      *)
Deliver(r) ==
  /\ carried[r] # NoMsg
  /\ carried' = [carried EXCEPT ![r] = NoMsg]
  /\ UNCHANGED q

Reset ==
  /\ q' = <<>>
  /\ UNCHANGED carried

Next ==
  \/ \E m \in Msgs : Accept(m)
  \/ \E r \in Receivers : Take(r) \/ Deliver(r)
  \/ Reset

Spec == Init /\ [][Next]_vars
=============================================================================
