----------------------------- MODULE RtMsgQueue -----------------------------
(***************************************************************************)
(* The kernel's message queue (ipc.c): a pool of nodes linked by pointers  *)
(* into the queue and the free list.  A send takes a node in one critical  *)
(* section, fills it with interrupts on, and links it in a second one; a   *)
(* receive unlinks, copies and gives the node back in the same way, so     *)
(* that any number of sends and receives are half done at a time.          *)
(*                                                                         *)
(* A send that finds no free node returns -RT_EFULL, and a receive with no *)
(* waiting time that finds no message returns -RT_ETIMEOUT; they change    *)
(* nothing and are no steps here.                                          *)
(***************************************************************************)
EXTENDS Sequences, Integers, FiniteSets

CONSTANTS
  Senders, Receivers,    \* threads; a sender may also be an interrupt
  Server,                \* the receiver that calls again and again: msg_t
  Msgs, NoMsg,
  Flag,                  \* RT_IPC_FLAG_FIFO or RT_IPC_FLAG_PRIO
  Priority,              \* current_priority of each receiver
  PoolSize, MsgSize,     \* as given to rt_mq_init
  MaxUrgent              \* BOUND: how many urgent sends there are

AlignSize == 4           \* RT_ALIGN_SIZE
NodeHeader == 4          \* sizeof(struct rt_mq_message)
Align(n) == ((n + AlignSize - 1) \div AlignSize) * AlignSize
max_msgs == PoolSize \div (Align(MsgSize) + NodeHeader)

Threads == Senders \cup Receivers
Null == 0
Nodes == 1..max_msgs

ASSUME QueueAssumption ==
  /\ Server \in Receivers /\ NoMsg \notin Msgs
  /\ Flag \in {"FIFO", "PRIO"} /\ Priority \in [Receivers -> Nat]
  /\ PoolSize \in Nat /\ MsgSize \in Nat /\ MaxUrgent \in Nat
  /\ IsFiniteSet(Receivers)
  /\ max_msgs \in Nat

VARIABLES
  next, text,    \* the nodes of the pool: link and message
  head, tail,    \* msg_queue_head, msg_queue_tail
  free,          \* msg_queue_free
  entry,         \* mq->entry
  waiting,       \* the suspended receivers, in the order of the list
  pc, hold,      \* where a thread is, and the node that is its own
  urgent,        \* the send in progress is rt_mq_urgent
  timeout,       \* what is left: "none", "some", "forever"
  error,         \* thread->error
  order, spare,  \* history: the nodes of the queue and of the free list
  urgents        \* the number of urgent sends so far

pool == <<next, text, head, tail, free, entry, order, spare>>
vars == <<pool, waiting, pc, hold, urgent, timeout, error, urgents>>

InSeq(s) == {s[i] : i \in 1..Len(s)}

(* The waiting list                                                        *)

(* With RT_IPC_FLAG_PRIO, t goes before the first that has less priority   *)
Before(t) ==
  {i \in 1..Len(waiting) : Flag = "PRIO" /\ Priority[t] < Priority[waiting[i]]}

list_suspend(t) ==
  \E i \in 1..Len(waiting) + 1 :
    /\ i \in Before(t) \cup {Len(waiting) + 1}
    /\ \A k \in Before(t) : i <= k
    /\ waiting' = SubSeq(waiting, 1, i - 1) \o <<t>>
                    \o SubSeq(waiting, i, Len(waiting))

list_remove(t) ==
  \E i \in 1..Len(waiting) :
    /\ waiting[i] = t
    /\ waiting' = SubSeq(waiting, 1, i - 1)
                    \o SubSeq(waiting, i + 1, Len(waiting))

list_resume == waiting' = IF waiting = <<>> THEN <<>> ELSE Tail(waiting)

Suspended(t) == pc[t] = "receiving" /\ t \in InSeq(waiting)
Woken(t) == pc[t] = "receiving" /\ t \notin InSeq(waiting)

(* rt_mq_send and rt_mq_urgent                                             *)

TakeFreeKeeps ==        \* mutated: the node is left on the free list
  UNCHANGED <<free, spare>>
TakeFree ==
  free' = next[free] /\ spare' = Tail(spare)

SendTake(t, u) ==
  /\ pc[t] = "idle" /\ free # Null
  /\ u => urgents < MaxUrgent
  /\ urgents' = IF u THEN urgents + 1 ELSE urgents
  /\ TakeFree
  /\ hold' = [hold EXCEPT ![t] = free]
  /\ urgent' = [urgent EXCEPT ![t] = u]
  /\ pc' = [pc EXCEPT ![t] = "filling"]
  /\ UNCHANGED <<next, text, head, tail, entry, order, waiting, timeout,
                 error>>

SendFill(t, m) ==
  /\ pc[t] = "filling"
  /\ next' = IF urgent[t] THEN next ELSE [next EXCEPT ![hold[t]] = Null]
  /\ text' = [text EXCEPT ![hold[t]] = m]
  /\ pc' = [pc EXCEPT ![t] = "linking"]
  /\ UNCHANGED <<head, tail, free, entry, order, spare, waiting, hold, urgent,
                 timeout, error, urgents>>

LinkLast(msg) ==
  /\ next' = IF tail = Null THEN next ELSE [next EXCEPT ![tail] = msg]
  /\ tail' = msg
  /\ head' = IF head = Null THEN msg ELSE head
  /\ order' = Append(order, msg)

LinkFirst(msg) ==
  /\ next' = [next EXCEPT ![msg] = head]
  /\ head' = msg
  /\ tail' = IF tail = Null THEN msg ELSE tail
  /\ order' = <<msg>> \o order

WakeWhenEmpty(t) ==     \* mutated: nobody is woken behind another message
  IF entry = 0 THEN list_resume ELSE UNCHANGED waiting
WakeUnlessUrgent(t) ==  \* mutated: an urgent message wakes nobody
  IF urgent[t] THEN UNCHANGED waiting ELSE list_resume
Wake(t) == list_resume

SendLink(t) ==
  /\ pc[t] = "linking"
  /\ IF urgent[t] THEN LinkFirst(hold[t]) ELSE LinkLast(hold[t])
  /\ entry' = entry + 1
  /\ Wake(t)
  /\ hold' = [hold EXCEPT ![t] = Null]
  /\ pc' = [pc EXCEPT ![t] = "idle"]
  /\ UNCHANGED <<text, free, spare, urgent, timeout, error, urgents>>

(* rt_mq_recv                                                              *)

UnlinkKeepsTail ==      \* mutated: the tail is not reset
  /\ head' = next[head] /\ UNCHANGED tail
  /\ order' = Tail(order) /\ entry' = entry - 1
UnlinkKeepsEntry ==     \* mutated: the message is still counted
  /\ head # Null /\ head' = next[head]
  /\ tail' = IF tail = head THEN Null ELSE tail
  /\ order' = Tail(order) /\ UNCHANGED entry
UnlinkKeepsHead ==      \* mutated: the message stays at the head
  /\ UNCHANGED <<head, tail, order>> /\ entry' = entry - 1
UnlinkHead ==
  /\ head' = next[head]
  /\ tail' = IF tail = head THEN Null ELSE tail
  /\ order' = Tail(order)
  /\ entry' = entry - 1

Unlink(t) ==
  /\ entry # 0
  /\ UnlinkHead
  /\ hold' = [hold EXCEPT ![t] = head]
  /\ timeout' = [timeout EXCEPT ![t] = "none"]
  /\ pc' = [pc EXCEPT ![t] = "copying"]
  /\ UNCHANGED <<next, text, free, spare, waiting, error>>

Suspend(t, w) ==
  /\ entry = 0 /\ w # "none"
  /\ error' = [error EXCEPT ![t] = "EOK"]
  /\ timeout' = [timeout EXCEPT ![t] = w]
  /\ list_suspend(t)
  /\ pc' = [pc EXCEPT ![t] = "receiving"]
  /\ UNCHANGED <<pool, hold>>

GiveUp(t, e) ==
  /\ error' = [error EXCEPT ![t] = e]
  /\ timeout' = [timeout EXCEPT ![t] = "none"]
  /\ pc' = [pc EXCEPT ![t] = "idle"]
  /\ UNCHANGED <<pool, waiting, hold>>

RecvCall(t, w) ==
  /\ pc[t] = "idle"
  /\ Unlink(t) \/ Suspend(t, w)
  /\ UNCHANGED <<urgent, urgents>>

(* The clock is left out: of a limited time, any part may have passed      *)
Left(w) == IF w = "some" THEN {"some", "none"} ELSE {w}

RecvWake(t) ==
  /\ Woken(t)
  /\ \/ error[t] # "EOK" /\ GiveUp(t, error[t])
     \/ /\ error[t] = "EOK"
        /\ \E w \in Left(timeout[t]) :
             \/ Unlink(t)
             \/ Suspend(t, w)
             \/ entry = 0 /\ w = "none" /\ GiveUp(t, "ETIMEOUT")
  /\ UNCHANGED <<urgent, urgents>>

(* text[hold[t]] goes to the buffer of the caller                          *)
RecvCopy(t) ==
  /\ pc[t] = "copying"
  /\ pc' = [pc EXCEPT ![t] = "freeing"]
  /\ UNCHANGED <<pool, waiting, hold, urgent, timeout, error, urgents>>

RecvFree(t) ==
  /\ pc[t] = "freeing"
  /\ next' = [next EXCEPT ![hold[t]] = free]
  /\ free' = hold[t]
  /\ spare' = <<hold[t]>> \o spare
  /\ hold' = [hold EXCEPT ![t] = Null]
  /\ pc' = [pc EXCEPT ![t] = "idle"]
  /\ UNCHANGED <<text, head, tail, entry, order, waiting, urgent, timeout,
                 error, urgents>>

(* The timer of a thread that waits for a limited time                     *)
thread_timeout(t) ==
  /\ Suspended(t) /\ timeout[t] = "some"
  /\ error' = [error EXCEPT ![t] = "ETIMEOUT"]
  /\ list_remove(t)
  /\ UNCHANGED <<pool, pc, hold, urgent, timeout, urgents>>

(* rt_mq_control with RT_IPC_CMD_RESET: its loop pushes the nodes of the   *)
(* queue, which are those of order, on the free list one after the other   *)
control_reset ==
  /\ error' = [t \in Receivers |-> IF Suspended(t) THEN "ERROR" ELSE error[t]]
  /\ waiting' = <<>>
  /\ next' = [n \in Nodes |->
                IF \E i \in 1..Len(order) : order[i] = n
                THEN LET i == CHOOSE i \in 1..Len(order) : order[i] = n
                     IN  IF i = 1 THEN free ELSE order[i - 1]
                ELSE next[n]]
  /\ free' = IF order = <<>> THEN free ELSE order[Len(order)]
  /\ spare' = [i \in 1..Len(order) |-> order[Len(order) + 1 - i]] \o spare
  /\ order' = <<>>
  /\ head' = Null /\ tail' = Null /\ entry' = 0
  /\ UNCHANGED <<text, pc, hold, urgent, timeout, urgents>>

(* rt_mq_init: the loop links every node in front of those before it       *)
Init ==
  /\ next = [n \in Nodes |-> n - 1]
  /\ text = [n \in Nodes |-> NoMsg]
  /\ head = Null /\ tail = Null /\ entry = 0
  /\ free = max_msgs
  /\ waiting = <<>>
  /\ pc = [t \in Threads |-> "idle"]
  /\ hold = [t \in Threads |-> Null]
  /\ urgent = [t \in Senders |-> FALSE]
  /\ timeout = [t \in Receivers |-> "none"]
  /\ error = [t \in Receivers |-> "EOK"]
  /\ order = <<>>
  /\ spare = [i \in 1..max_msgs |-> max_msgs + 1 - i]
  /\ urgents = 0

SenderStep(t) ==
  \/ \E u \in BOOLEAN : SendTake(t, u)
  \/ \E m \in Msgs : SendFill(t, m)
  \/ SendLink(t)

ReceiverStep(t) ==
  \/ \E w \in {"none", "some", "forever"} : RecvCall(t, w)
  \/ RecvWake(t) \/ RecvCopy(t) \/ RecvFree(t)
  \/ thread_timeout(t)

Next ==
  \/ \E t \in Senders : SenderStep(t)
  \/ \E t \in Receivers : ReceiverStep(t)
  \/ control_reset

Spec == Init /\ [][Next]_vars

(* A thread that has begun goes on; msg_t calls rt_mq_recv for ever        *)
Fairness ==
  /\ \A t \in Senders : WF_vars((\E m \in Msgs : SendFill(t, m)) \/ SendLink(t))
  /\ \A t \in Receivers : WF_vars(RecvWake(t) \/ RecvCopy(t) \/ RecvFree(t))
  /\ WF_vars(RecvCall(Server, "forever"))

FairSpec == Spec /\ Fairness

-----------------------------------------------------------------------------
(* Properties                                                              *)

TypeOK ==
  /\ next \in [Nodes -> Nodes \cup {Null}]
  /\ text \in [Nodes -> Msgs \cup {NoMsg}]
  /\ {head, tail, free} \subseteq Nodes \cup {Null}
  /\ entry \in 0..max_msgs
  /\ waiting \in Seq(Receivers)
  /\ pc \in [Threads -> {"idle", "filling", "linking", "receiving", "copying",
                         "freeing"}]
  /\ hold \in [Threads -> Nodes \cup {Null}]
  /\ urgent \in [Senders -> BOOLEAN]
  /\ timeout \in [Receivers -> {"none", "some", "forever"}]
  /\ error \in [Receivers -> {"EOK", "ETIMEOUT", "ERROR"}]
  /\ order \in Seq(Nodes) /\ spare \in Seq(Nodes)
  /\ urgents \in 0..MaxUrgent

(* A list that starts at first and ends with Null has these nodes          *)
Chain(first, s) ==
  /\ first = IF s = <<>> THEN Null ELSE s[1]
  /\ \A i \in 1..Len(s) : next[s[i]] = IF i = Len(s) THEN Null ELSE s[i + 1]

(* The pointers are two proper lists, whoever is in between two critical   *)
(* sections: the queue from msg_queue_head to msg_queue_tail with entry    *)
(* messages, and the free list.                                            *)
ListsProper ==
  /\ Chain(head, order) /\ Chain(free, spare)
  /\ tail = IF order = <<>> THEN Null ELSE order[Len(order)]
  /\ entry = Len(order)

NoRepeat(s) == \A i, j \in 1..Len(s) : s[i] = s[j] => i = j

(* Every node of the pool is in the queue, or free, or in the hands of the *)
(* one thread that has it between two critical sections: none is lost and  *)
(* none is in two places, so none is overwritten while it is read.         *)
NodesAccounted ==
  /\ NoRepeat(order) /\ NoRepeat(spare)
  /\ InSeq(order) \cap InSeq(spare) = {}
  /\ \A t \in Threads : hold[t] # Null =>
       /\ hold[t] \notin InSeq(order) \cup InSeq(spare)
       /\ \A u \in Threads : hold[u] = hold[t] => u = t
  /\ Nodes \subseteq InSeq(order) \cup InSeq(spare) \cup {hold[t] : t \in Threads}

(* Receivers stay suspended only while each message in the queue has one   *)
(* that a send woke and that has not run yet: no wake-up is lost to a      *)
(* timeout, a reset or a receiver that came first.                         *)
NoLostWakeup ==
  waiting # <<>> =>
    Len(order) <= Cardinality({t \in Receivers : Woken(t) /\ error[t] = "EOK"})

(* What msg_t is sent it receives: a node does not stay in the queue,      *)
(* once MaxUrgent urgent messages have gone past it.                       *)
EveryMessageLeaves ==
  \A n \in Nodes : n \in InSeq(order) ~> n \notin InSeq(order)

(* The queue is a first-in first-out queue of messages                     *)
Queue == INSTANCE MsgQueue WITH
  Capacity <- max_msgs,
  q <- [i \in 1..Len(order) |-> text[order[i]]],
  carried <- [t \in Receivers |->
                IF pc[t] = "copying" THEN text[hold[t]] ELSE NoMsg]

ImplementsQueue == Queue!Spec
=============================================================================
