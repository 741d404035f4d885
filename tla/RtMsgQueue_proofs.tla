------------------------- MODULE RtMsgQueue_proofs --------------------------
(***************************************************************************)
(* Proofs about RtMsgQueue for any pool, any threads and any number of     *)
(* sends, receives, timeouts and resets half done: the pointers always     *)
(* form two proper lists, every node is in one place, and the queue is a   *)
(* first-in first-out queue of messages (MsgQueue).                        *)
(***************************************************************************)
EXTENDS RtMsgQueue, SequenceTheorems, FiniteSetTheorems, TLAPS

IsChain(nx, first, s) ==
  /\ first = IF s = <<>> THEN Null ELSE s[1]
  /\ \A i \in 1..Len(s) : nx[s[i]] = IF i = Len(s) THEN Null ELSE s[i + 1]

-----------------------------------------------------------------------------
(* Sequences of nodes                                                      *)

(* What adding a node in front does to a list without repetitions.         *)
LEMMA ConsFacts ==
  ASSUME NEW s \in Seq(Nodes), NEW m \in Nodes, m \notin InSeq(s), NoRepeat(s)
  PROVE  LET c == <<m>> \o s IN
         /\ c \in Seq(Nodes) /\ c # <<>> /\ Len(c) = Len(s) + 1 /\ c[1] = m
         /\ \A i \in 2..Len(c) : c[i] = s[i - 1]
         /\ NoRepeat(c) /\ InSeq(c) = InSeq(s) \cup {m}
<1> DEFINE c == <<m>> \o s
<1>1. Len(s) \in Nat
  BY LenProperties
<1>2. /\ <<m>> \in Seq(Nodes) /\ Len(<<m>>) = 1 /\ <<m>>[1] = m
  OBVIOUS
<1>3. /\ c \in Seq(Nodes) /\ Len(c) = Len(s) + 1
      /\ \A i \in 1..Len(s) + 1 : c[i] = IF i <= 1 THEN m ELSE s[i - 1]
  BY <1>1, <1>2, ConcatProperties
<1> HIDE DEF c
<1>4. c # <<>> /\ c[1] = m /\ \A i \in 2..Len(c) : c[i] = s[i - 1]
  BY <1>1, <1>3, EmptySeq
<1>5. NoRepeat(c)
  <2>1. ASSUME NEW i \in 1..Len(c), NEW j \in 1..Len(c), c[i] = c[j], i # 1
        PROVE  i = j
    <3>1. i - 1 \in 1..Len(s) /\ c[i] = s[i - 1]
      BY <1>1, <1>3, <2>1
    <3>2. j # 1
      BY <1>4, <2>1, <3>1 DEF InSeq
    <3>3. j - 1 \in 1..Len(s) /\ c[j] = s[j - 1]
      BY <1>1, <1>3, <3>2
    <3>4. i - 1 = j - 1
      BY <2>1, <3>1, <3>3 DEF NoRepeat
    <3> QED
      BY <1>1, <1>3, <3>4
  <2> QED
    BY <2>1 DEF NoRepeat
<1>6. InSeq(c) = InSeq(s) \cup {m}
  <2>1. ASSUME NEW i \in 1..Len(s) PROVE s[i] \in InSeq(c)
    <3>1. i + 1 \in 1..Len(c) /\ c[i + 1] = s[i]
      BY <1>1, <1>3
    <3> QED
      BY <3>1 DEF InSeq
  <2>2. m \in InSeq(c)
    <3>1. 1 \in 1..Len(c)
      BY <1>1, <1>3
    <3> QED
      BY <1>4, <3>1 DEF InSeq
  <2>3. ASSUME NEW i \in 1..Len(c), i # 1 PROVE c[i] \in InSeq(s)
    <3>1. i - 1 \in 1..Len(s) /\ c[i] = s[i - 1]
      BY <1>1, <1>3, <2>3
    <3> QED
      BY <3>1 DEF InSeq
  <2>4. InSeq(s) \subseteq InSeq(c)
    BY <2>1 DEF InSeq
  <2>5. ASSUME NEW x \in InSeq(c) PROVE x \in InSeq(s) \cup {m}
    <3>1. PICK i \in 1..Len(c) : x = c[i]
      BY DEF InSeq
    <3> QED
      BY <1>4, <2>3, <3>1
  <2> QED
    BY <2>2, <2>4, <2>5
<1> QED
  BY <1>3, <1>4, <1>5, <1>6 DEF c

(* What adding a node at the end does to a list without repetitions.       *)
LEMMA AppendFacts ==
  ASSUME NEW s \in Seq(Nodes), NEW m \in Nodes, m \notin InSeq(s), NoRepeat(s)
  PROVE  LET c == Append(s, m) IN
         /\ c \in Seq(Nodes) /\ c # <<>> /\ Len(c) = Len(s) + 1
         /\ c[Len(c)] = m /\ \A i \in 1..Len(s) : c[i] = s[i]
         /\ NoRepeat(c) /\ InSeq(c) = InSeq(s) \cup {m}
<1> DEFINE c == Append(s, m)
<1>1. Len(s) \in Nat
  BY LenProperties
<1>2. /\ c \in Seq(Nodes) /\ c # <<>> /\ Len(c) = Len(s) + 1
      /\ c[Len(s) + 1] = m /\ \A i \in 1..Len(s) : c[i] = s[i]
  BY AppendProperties
<1> HIDE DEF c
<1>3. NoRepeat(c)
  BY <1>1, <1>2 DEF NoRepeat, InSeq
<1>4. InSeq(c) = InSeq(s) \cup {m}
  BY <1>1, <1>2 DEF InSeq
<1> QED
  BY <1>2, <1>3, <1>4 DEF c

(* What removing the first node does to a list without repetitions.        *)
LEMMA TailFacts ==
  ASSUME NEW s \in Seq(Nodes), s # <<>>, NoRepeat(s)
  PROVE  /\ Len(s) \in Nat \ {0} /\ s[1] \in Nodes /\ s[1] \in InSeq(s)
         /\ Tail(s) \in Seq(Nodes) /\ Len(Tail(s)) = Len(s) - 1
         /\ \A i \in 1..Len(Tail(s)) : Tail(s)[i] = s[i + 1]
         /\ NoRepeat(Tail(s)) /\ InSeq(Tail(s)) = InSeq(s) \ {s[1]}
<1>1. Len(s) \in Nat \ {0}
  BY EmptySeq
<1>2. s[1] \in Nodes /\ s[1] \in InSeq(s)
  BY <1>1, ElementOfSeq DEF InSeq
<1>3. /\ Tail(s) \in Seq(Nodes) /\ Len(Tail(s)) = Len(s) - 1
      /\ \A i \in 1..Len(Tail(s)) : Tail(s)[i] = s[i + 1]
  BY HeadTailProperties
<1>4. NoRepeat(Tail(s))
  BY <1>1, <1>3 DEF NoRepeat
<1>5. InSeq(Tail(s)) = InSeq(s) \ {s[1]}
  <2>1. \A i \in 2..Len(s) : i - 1 \in 1..Len(Tail(s)) /\ Tail(s)[i - 1] = s[i]
    BY <1>1, <1>3
  <2>2. ASSUME NEW n \in InSeq(s) \ {s[1]} PROVE n \in InSeq(Tail(s))
    BY <1>1, <2>1 DEF InSeq
  <2>3. ASSUME NEW n \in InSeq(Tail(s)) PROVE n \in InSeq(s) \ {s[1]}
    BY <1>1, <1>3 DEF InSeq, NoRepeat
  <2> QED
    BY <2>2, <2>3
<1> QED
  BY <1>1, <1>2, <1>3, <1>4, <1>5

-----------------------------------------------------------------------------
(* Lists of nodes                                                          *)

(* A write to a node that is not in a list leaves the list as it is.       *)
LEMMA ChainFrame ==
  ASSUME NEW nx \in [Nodes -> Nodes \cup {Null}], NEW f, NEW s \in Seq(Nodes),
         IsChain(nx, f, s), NEW m, m \notin InSeq(s), NEW x
  PROVE  IsChain([nx EXCEPT ![m] = x], f, s)
<1>1. \A i \in 1..Len(s) : s[i] \in Nodes /\ s[i] # m
  BY ElementOfSeq DEF InSeq
<1> QED
  BY <1>1 DEF IsChain

(* The second node is the first one of the rest.                           *)
LEMMA ChainTail ==
  ASSUME NEW nx, NEW f, NEW s \in Seq(Nodes), NoRepeat(s),
         IsChain(nx, f, s), s # <<>>
  PROVE  f = s[1] /\ IsChain(nx, nx[f], Tail(s))
<1> DEFINE r == Tail(s)
<1>1. /\ Len(s) \in Nat \ {0} /\ Len(r) = Len(s) - 1
      /\ r \in Seq(Nodes)
      /\ \A i \in 1..Len(r) : r[i] = s[i + 1]
  BY TailFacts
<1> HIDE DEF r
<1>2. f = s[1]
  BY DEF IsChain
<1>3. nx[f] = IF r = <<>> THEN Null ELSE r[1]
  <2>1. CASE Len(s) = 1
    <3>1. r = <<>>
      BY <1>1, <2>1, EmptySeq
    <3> QED
      BY <1>1, <1>2, <2>1, <3>1 DEF IsChain
  <2>2. CASE Len(s) # 1
    <3>1. r # <<>> /\ 1 \in 1..Len(r) /\ 1 \in 1..Len(s)
      BY <1>1, <2>2, EmptySeq
    <3>2. r[1] = s[1 + 1] /\ nx[s[1]] = s[1 + 1]
      BY <1>1, <2>2, <3>1 DEF IsChain
    <3> QED
      BY <1>2, <3>1, <3>2
  <2> QED
    BY <2>1, <2>2
<1>4. ASSUME NEW i \in 1..Len(r)
      PROVE  nx[r[i]] = IF i = Len(r) THEN Null ELSE r[i + 1]
  <2>1. /\ i \in Nat /\ i + 1 \in 1..Len(s) /\ r[i] = s[i + 1]
    BY <1>1
  <2>2. nx[s[i + 1]] = IF i + 1 = Len(s) THEN Null ELSE s[(i + 1) + 1]
    BY <1>1, <2>1 DEF IsChain
  <2>3. i # Len(r) => i + 1 \in 1..Len(r) /\ r[i + 1] = s[(i + 1) + 1]
    BY <1>1, <2>1
  <2> QED
    BY <1>1, <2>1, <2>2, <2>3
<1> QED
  BY <1>2, <1>3, <1>4 DEF IsChain, r

(* A node is put in front of a list by one write to it.                    *)
LEMMA ChainCons ==
  ASSUME NEW nx \in [Nodes -> Nodes \cup {Null}], NEW f, NEW s \in Seq(Nodes),
         NoRepeat(s), IsChain(nx, f, s), NEW m \in Nodes, m \notin InSeq(s)
  PROVE  IsChain([nx EXCEPT ![m] = f], m, <<m>> \o s)
<1> DEFINE c == <<m>> \o s
           n2 == [nx EXCEPT ![m] = f]
<1>1. /\ c \in Seq(Nodes) /\ c # <<>> /\ Len(c) = Len(s) + 1 /\ c[1] = m
      /\ \A i \in 2..Len(c) : c[i] = s[i - 1]
  BY ConsFacts
<1>2. Len(s) \in Nat
  BY LenProperties
<1>3. IsChain(n2, f, s) /\ n2[m] = f
  BY ChainFrame
<1> HIDE DEF c, n2
<1>4. ASSUME NEW i \in 1..Len(c)
      PROVE  n2[c[i]] = IF i = Len(c) THEN Null ELSE c[i + 1]
  <2>1. CASE i = 1
    <3>1. CASE s = <<>>
      BY <1>1, <1>2, <1>3, <2>1, <3>1, EmptySeq DEF IsChain
    <3>2. CASE s # <<>>
      <4>1. Len(s) # 0 /\ f = s[1]
        BY <1>3, <3>2, EmptySeq DEF IsChain
      <4>2. c[2] = s[1]
        BY <1>1, <1>2, <4>1
      <4> QED
        BY <1>1, <1>2, <1>3, <2>1, <4>1, <4>2
    <3> QED
      BY <3>1, <3>2
  <2>2. CASE i # 1
    <3>1. /\ i \in Nat /\ i - 1 \in 1..Len(s) /\ c[i] = s[i - 1]
      BY <1>1, <1>2, <2>2
    <3>3. i # Len(c) => i + 1 \in 2..Len(c) /\ c[i + 1] = s[(i + 1) - 1]
      BY <1>1, <1>2, <3>1
    <3>2. n2[s[i - 1]] = IF i - 1 = Len(s) THEN Null ELSE s[i - 1 + 1]
      BY <1>3, <3>1 DEF IsChain
    <3> QED
      BY <1>1, <1>2, <3>1, <3>2, <3>3
  <2> QED
    BY <2>1, <2>2
<1> QED
  BY <1>1, <1>4 DEF IsChain, c, n2

(* A node that ends a list is put behind it by one write to the last one.  *)
LEMMA ChainAppend ==
  ASSUME NEW nx \in [Nodes -> Nodes \cup {Null}], NEW f, NEW s \in Seq(Nodes),
         NoRepeat(s), IsChain(nx, f, s),
         NEW m \in Nodes, m \notin InSeq(s), nx[m] = Null
  PROVE  IsChain(IF s = <<>> THEN nx ELSE [nx EXCEPT ![s[Len(s)]] = m],
                 IF s = <<>> THEN m ELSE f, Append(s, m))
<1> DEFINE c == Append(s, m)
           n2 == IF s = <<>> THEN nx ELSE [nx EXCEPT ![s[Len(s)]] = m]
<1>1. /\ c \in Seq(Nodes) /\ c # <<>> /\ Len(c) = Len(s) + 1
      /\ c[Len(c)] = m /\ \A i \in 1..Len(s) : c[i] = s[i]
  BY AppendFacts
<1>2. Len(s) \in Nat /\ (s = <<>> <=> Len(s) = 0)
  BY LenProperties, EmptySeq
<1>3. \A i \in 1..Len(s) : s[i] \in Nodes /\ s[i] # m
  BY ElementOfSeq DEF InSeq
<1>4. n2[m] = Null
  BY <1>2, <1>3
<1>5. \A i \in 1..Len(s) : n2[s[i]] = IF i = Len(s) THEN m ELSE s[i + 1]
  BY <1>2, <1>3 DEF IsChain, NoRepeat
<1> HIDE DEF c, n2
<1>6. ASSUME NEW i \in 1..Len(c)
      PROVE  n2[c[i]] = IF i = Len(c) THEN Null ELSE c[i + 1]
  <2>1. CASE i = Len(c)
    BY <1>1, <1>4, <2>1
  <2>2. CASE i = Len(s)
    BY <1>1, <1>2, <1>5, <2>2
  <2>3. CASE i # Len(c) /\ i # Len(s)
    <3>1. i \in 1..Len(s) /\ i + 1 \in 1..Len(s)
      BY <1>1, <1>2, <2>3
    <3> QED
      BY <1>1, <1>2, <1>5, <2>3, <3>1
  <2> QED
    BY <2>1, <2>2, <2>3
<1>7. c[1] = IF s = <<>> THEN m ELSE f
  BY <1>1, <1>2 DEF IsChain
<1> QED
  BY <1>1, <1>6, <1>7 DEF IsChain, c, n2

-----------------------------------------------------------------------------
(* Where the nodes are                                                     *)

Placed(o, s, h) ==
  /\ NoRepeat(o) /\ NoRepeat(s)
  /\ InSeq(o) \cap InSeq(s) = {}
  /\ \A t \in Threads : h[t] # Null =>
       /\ h[t] \notin InSeq(o) \cup InSeq(s)
       /\ \A u \in Threads : h[u] = h[t] => u = t
  /\ Nodes \subseteq InSeq(o) \cup InSeq(s) \cup {h[t] : t \in Threads}

LEMMA NullNoNode == Null \notin Nodes
BY DEF Null, Nodes

LEMMA PlacedSym ==
  ASSUME NEW o, NEW s, NEW h, Placed(o, s, h)
  PROVE  Placed(s, o, h)
BY DEF Placed

(* A thread takes a node out of one of the lists.                          *)
LEMMA PlacedTake ==
  ASSUME NEW o, NEW s, NEW s2, NEW h \in [Threads -> Nodes \cup {Null}],
         Placed(o, s, h), NEW t \in Threads, h[t] = Null,
         NEW m \in InSeq(s), m \in Nodes,
         NoRepeat(s2), InSeq(s2) = InSeq(s) \ {m}
  PROVE  Placed(o, s2, [h EXCEPT ![t] = m])
<1> DEFINE h2 == [h EXCEPT ![t] = m]
<1>1. h2[t] = m /\ \A u \in Threads : u # t => h2[u] = h[u]
  OBVIOUS
<1>2. \A u \in Threads : h[u] # m
  BY NullNoNode DEF Placed
<1> HIDE DEF h2
<1>3. ASSUME NEW u \in Threads, h2[u] # Null
      PROVE  /\ h2[u] \notin InSeq(o) \cup InSeq(s2)
             /\ \A v \in Threads : h2[v] = h2[u] => v = u
  BY <1>1, <1>2, <1>3, NullNoNode DEF Placed
<1>4. ASSUME NEW n \in Nodes
      PROVE  n \in InSeq(o) \cup InSeq(s2) \cup {h2[u] : u \in Threads}
  <2>1. CASE n \in InSeq(o) \cup InSeq(s2)
    BY <2>1
  <2>2. CASE n = m
    BY <1>1, <2>2
  <2>3. CASE \E u \in Threads : n = h[u]
    BY <1>1, <2>3, NullNoNode
  <2> QED
    BY <2>1, <2>2, <2>3 DEF Placed
<1> QED
  BY <1>3, <1>4 DEF Placed, h2

(* A thread puts the node it has into one of the lists.                    *)
LEMMA PlacedGive ==
  ASSUME NEW o, NEW s, NEW s2, NEW h \in [Threads -> Nodes \cup {Null}],
         Placed(o, s, h), NEW t \in Threads, h[t] # Null,
         NoRepeat(s2), InSeq(s2) = InSeq(s) \cup {h[t]}
  PROVE  Placed(o, s2, [h EXCEPT ![t] = Null])
<1> DEFINE h2 == [h EXCEPT ![t] = Null]
<1>1. h2[t] = Null /\ \A u \in Threads : u # t => h2[u] = h[u]
  OBVIOUS
<1> HIDE DEF h2
<1>2. ASSUME NEW u \in Threads, h2[u] # Null
      PROVE  /\ h2[u] \notin InSeq(o) \cup InSeq(s2)
             /\ \A v \in Threads : h2[v] = h2[u] => v = u
  BY <1>1, <1>2 DEF Placed
<1>3. InSeq(o) \cap InSeq(s2) = {}
  BY DEF Placed
<1>4. ASSUME NEW n \in Nodes
      PROVE  n \in InSeq(o) \cup InSeq(s2) \cup {h2[u] : u \in Threads}
  BY <1>1, <1>4 DEF Placed
<1> QED
  BY <1>2, <1>3, <1>4 DEF Placed, h2

-----------------------------------------------------------------------------
(* The inductive invariant                                                 *)

(* TypeOK with no bound on entry, which follows from the rest              *)
Types ==
  /\ next \in [Nodes -> Nodes \cup {Null}]
  /\ text \in [Nodes -> Msgs \cup {NoMsg}]
  /\ {head, tail, free} \subseteq Nodes \cup {Null}
  /\ waiting \in Seq(Receivers)
  /\ pc \in [Threads -> {"idle", "filling", "linking", "receiving", "copying",
                         "freeing"}]
  /\ hold \in [Threads -> Nodes \cup {Null}]
  /\ urgent \in [Senders -> BOOLEAN]
  /\ timeout \in [Receivers -> {"none", "some", "forever"}]
  /\ error \in [Receivers -> {"EOK", "ETIMEOUT", "ERROR"}]
  /\ order \in Seq(Nodes) /\ spare \in Seq(Nodes)
  /\ urgents \in 0..MaxUrgent

Lists == ListsProper /\ NodesAccounted

(* Who has a node, and what the node of a sender about to link it holds    *)
Hands ==
  /\ \A t \in Threads :
       /\ hold[t] # Null <=> pc[t] \in {"filling", "linking", "copying", "freeing"}
       /\ pc[t] \in {"filling", "linking"} => t \in Senders
       /\ pc[t] \in {"receiving", "copying", "freeing"} => t \in Receivers
       /\ pc[t] = "linking" /\ ~urgent[t] => next[hold[t]] = Null

(* The nodes that are filled                                               *)
Filled ==
  /\ \A t \in Threads : pc[t] \in {"linking", "copying"} => text[hold[t]] \in Msgs
  /\ \A n \in InSeq(order) : text[n] \in Msgs

Inv == Types /\ Lists /\ Hands /\ Filled

LEMMA ListsFacts ==
  /\ Lists <=> /\ IsChain(next, head, order) /\ IsChain(next, free, spare)
               /\ tail = IF order = <<>> THEN Null ELSE order[Len(order)]
               /\ entry = Len(order)
               /\ Placed(order, spare, hold)
BY DEF Lists, ListsProper, NodesAccounted, Chain, IsChain, Placed

LEMMA ListsFactsNext ==
  /\ Lists' <=> /\ IsChain(next', head', order') /\ IsChain(next', free', spare')
                /\ tail' = IF order' = <<>> THEN Null ELSE order'[Len(order')]
                /\ entry' = Len(order')
                /\ Placed(order', spare', hold')
BY DEF Lists, ListsProper, NodesAccounted, Chain, IsChain, Placed

-----------------------------------------------------------------------------
(* The waiting list                                                        *)

LEMMA WaitingPart ==
  ASSUME waiting \in Seq(Receivers), NEW i \in Int, i >= 1,
         NEW j \in Int, j <= Len(waiting)
  PROVE  SubSeq(waiting, i, j) \in Seq(Receivers)
<1>1. Len(waiting) \in Nat
  BY LenProperties
<1>2. \A k \in i..j : waiting[k] \in Receivers
  BY <1>1, ElementOfSeq
<1> QED
  BY <1>2, SubSeqProperties

LEMMA WaitingSuspend ==
  ASSUME waiting \in Seq(Receivers), NEW t \in Receivers, list_suspend(t)
  PROVE  waiting' \in Seq(Receivers)
<1>1. Len(waiting) \in Nat
  BY LenProperties
<1>2. PICK i \in 1..Len(waiting) + 1 :
        waiting' = (SubSeq(waiting, 1, i - 1) \o <<t>>)
                     \o SubSeq(waiting, i, Len(waiting))
  BY DEF list_suspend
<1> DEFINE a == SubSeq(waiting, 1, i - 1)
           b == SubSeq(waiting, i, Len(waiting))
<1>3. a \in Seq(Receivers) /\ b \in Seq(Receivers)
  BY <1>1, WaitingPart
<1>4. <<t>> \in Seq(Receivers)
  OBVIOUS
<1>5. waiting' = (a \o <<t>>) \o b
  BY <1>2
<1> HIDE DEF a, b
<1>6. a \o <<t>> \in Seq(Receivers)
  BY <1>3, <1>4, ConcatProperties
<1> QED
  BY <1>3, <1>5, <1>6, ConcatProperties

LEMMA WaitingRemove ==
  ASSUME waiting \in Seq(Receivers), NEW t, list_remove(t)
  PROVE  waiting' \in Seq(Receivers)
<1>1. Len(waiting) \in Nat
  BY LenProperties
<1>2. PICK i \in 1..Len(waiting) :
        waiting' = SubSeq(waiting, 1, i - 1) \o SubSeq(waiting, i + 1, Len(waiting))
  BY DEF list_remove
<1> DEFINE a == SubSeq(waiting, 1, i - 1)
           b == SubSeq(waiting, i + 1, Len(waiting))
<1>3. a \in Seq(Receivers) /\ b \in Seq(Receivers)
  BY <1>1, WaitingPart
<1>4. waiting' = a \o b
  BY <1>2
<1> HIDE DEF a, b
<1> QED
  BY <1>3, <1>4, ConcatProperties

LEMMA WaitingResume ==
  ASSUME waiting \in Seq(Receivers), list_resume
  PROVE  waiting' \in Seq(Receivers)
<1>1. CASE waiting = <<>>
  BY <1>1 DEF list_resume
<1>2. CASE waiting # <<>>
  BY <1>2, HeadTailProperties DEF list_resume
<1> QED
  BY <1>1, <1>2

-----------------------------------------------------------------------------
(* The steps that leave the nodes where they are                           *)

(* A thread with no node goes from one such place to another.              *)
LEMMA NoNodeMoves ==
  ASSUME Inv, NEW t \in Receivers, pc[t] \in {"idle", "receiving"},
         NEW x \in {"idle", "receiving"}, pc' = [pc EXCEPT ![t] = x],
         UNCHANGED <<pool, hold, urgent>>
  PROVE  Lists' /\ Hands' /\ Filled'
<1>1. Lists'
  BY ListsFacts, ListsFactsNext DEF Inv, pool
<1>2. Hands' /\ Filled'
  BY DEF Inv, Types, Hands, Filled, pool, Threads
<1> QED
  BY <1>1, <1>2

LEMMA SuspendStep ==
  ASSUME Inv, NEW t \in Receivers, pc[t] \in {"idle", "receiving"},
         NEW w \in {"none", "some", "forever"}, Suspend(t, w),
         UNCHANGED <<urgent, urgents>>
  PROVE  Inv'
<1>1. Lists' /\ Hands' /\ Filled'
  BY NoNodeMoves DEF Suspend
<1>2. waiting' \in Seq(Receivers)
  BY WaitingSuspend DEF Suspend, Inv, Types
<1>3. Types'
  BY <1>2 DEF Inv, Types, Suspend, pool, Threads
<1> QED
  BY <1>1, <1>3 DEF Inv

LEMMA GiveUpStep ==
  ASSUME Inv, NEW t \in Receivers, pc[t] \in {"idle", "receiving"},
         NEW e \in {"ETIMEOUT", "ERROR"}, GiveUp(t, e),
         UNCHANGED <<urgent, urgents>>
  PROVE  Inv'
<1>1. Lists' /\ Hands' /\ Filled'
  BY NoNodeMoves DEF GiveUp
<1>2. Types'
  BY DEF Inv, Types, GiveUp, pool, Threads
<1> QED
  BY <1>1, <1>2 DEF Inv

LEMMA CopyStep ==
  ASSUME Inv, NEW t \in Receivers, RecvCopy(t)
  PROVE  Inv'
<1>1. Lists'
  BY ListsFacts, ListsFactsNext DEF Inv, RecvCopy, pool
<1>2. Types' /\ Hands' /\ Filled'
  BY DEF Inv, Types, Hands, Filled, RecvCopy, pool, Threads
<1> QED
  BY <1>1, <1>2 DEF Inv

LEMMA TimeoutStep ==
  ASSUME Inv, NEW t \in Receivers, thread_timeout(t)
  PROVE  Inv'
<1>1. Lists'
  BY ListsFacts, ListsFactsNext DEF Inv, thread_timeout, pool
<1>2. waiting' \in Seq(Receivers)
  BY WaitingRemove DEF thread_timeout, Inv, Types
<1>3. Types' /\ Hands' /\ Filled'
  BY <1>2 DEF Inv, Types, Hands, Filled, thread_timeout, pool, Threads
<1> QED
  BY <1>1, <1>3 DEF Inv

-----------------------------------------------------------------------------
(* The two critical sections of a send                                     *)

LEMMA TakeStep ==
  ASSUME Inv, NEW t \in Senders, NEW u \in BOOLEAN, SendTake(t, u)
  PROVE  Inv'
<1>1. /\ t \in Threads /\ hold[t] = Null /\ spare \in Seq(Nodes)
      /\ NoRepeat(spare) /\ IsChain(next, free, spare) /\ free # Null
      /\ Placed(order, spare, hold) /\ hold \in [Threads -> Nodes \cup {Null}]
  BY ListsFacts DEF Inv, Types, Hands, SendTake, Threads, Placed
<1>2. spare # <<>>
  BY <1>1 DEF IsChain
<1>3. /\ free = spare[1] /\ IsChain(next, next[free], Tail(spare))
      /\ Tail(spare) \in Seq(Nodes) /\ NoRepeat(Tail(spare))
      /\ InSeq(Tail(spare)) = InSeq(spare) \ {free}
      /\ free \in InSeq(spare) /\ free \in Nodes
  BY <1>1, <1>2, ChainTail, TailFacts
<1>4. Placed(order', spare', hold')
  BY <1>1, <1>3, PlacedTake DEF SendTake, TakeFree
<1>5. Lists'
  BY <1>3, <1>4, ListsFacts, ListsFactsNext DEF Inv, SendTake, TakeFree
<1>6. Types'
  BY <1>1, <1>3, QueueAssumption DEF Inv, Types, SendTake, TakeFree
<1>7. Hands' /\ Filled'
  BY <1>1, <1>3, NullNoNode
  DEF Inv, Types, Hands, Filled, SendTake, TakeFree, Threads
<1> QED
  BY <1>5, <1>6, <1>7 DEF Inv

LEMMA FillStep ==
  ASSUME Inv, NEW t \in Senders, NEW m \in Msgs, SendFill(t, m)
  PROVE  Inv'
<1>1. /\ t \in Threads /\ hold[t] # Null /\ hold[t] \in Nodes
      /\ hold[t] \notin InSeq(order) /\ hold[t] \notin InSeq(spare)
      /\ \A u \in Threads : hold[u] = hold[t] => u = t
  BY ListsFacts DEF Inv, Types, Hands, SendFill, Threads, Placed
<1>2. IsChain(next', head, order) /\ IsChain(next', free, spare)
  BY <1>1, ChainFrame, ListsFacts DEF Inv, Types, SendFill
<1>3. Lists'
  BY <1>2, ListsFacts, ListsFactsNext DEF Inv, SendFill
<1>4. Types'
  BY <1>1 DEF Inv, Types, SendFill
<1>5. /\ \A n \in Nodes : n # hold[t] => next'[n] = next[n] /\ text'[n] = text[n]
      /\ ~urgent[t] => next'[hold[t]] = Null
      /\ text'[hold[t]] = m
  BY <1>1 DEF Inv, Types, SendFill
<1>6. Hands'
  BY <1>1, <1>5 DEF Inv, Types, Hands, SendFill, Threads
<1>7. Filled'
  <2>1. ASSUME NEW u \in Threads, pc'[u] \in {"linking", "copying"}
        PROVE  text'[hold[u]] \in Msgs
    <3>1. CASE u = t
      BY <1>5, <3>1
    <3>2. CASE u # t
      <4>1. /\ pc[u] \in {"linking", "copying"} /\ hold[u] \in Nodes
            /\ hold[u] # hold[t]
        BY <1>1, <2>1, <3>2 DEF Inv, Types, Hands, SendFill
      <4> QED
        BY <1>5, <4>1 DEF Inv, Filled
    <3> QED
      BY <3>1, <3>2
  <2>2. ASSUME NEW n \in InSeq(order) PROVE text'[n] \in Msgs
    <3>1. n \in Nodes /\ n # hold[t]
      BY <1>1, ElementOfSeq DEF Inv, Types, InSeq
    <3> QED
      BY <1>5, <3>1 DEF Inv, Filled
  <2> QED
    BY <2>1, <2>2 DEF Filled, SendFill
<1> QED
  BY <1>3, <1>4, <1>6, <1>7 DEF Inv

LEMMA LinkStep ==
  ASSUME Inv, NEW t \in Senders, SendLink(t)
  PROVE  Inv'
<1> DEFINE m == hold[t]
<1>1. /\ t \in Threads /\ m # Null /\ m \in Nodes
      /\ m \notin InSeq(order) /\ m \notin InSeq(spare)
      /\ \A u \in Threads : hold[u] = m => u = t
      /\ NoRepeat(order) /\ order \in Seq(Nodes) /\ spare \in Seq(Nodes)
      /\ IsChain(next, head, order) /\ IsChain(next, free, spare)
      /\ Placed(order, spare, hold) /\ Placed(spare, order, hold)
      /\ tail = IF order = <<>> THEN Null ELSE order[Len(order)]
      /\ entry = Len(order) /\ Len(order) \in Nat
      /\ next \in [Nodes -> Nodes \cup {Null}]
      /\ hold \in [Threads -> Nodes \cup {Null}]
      /\ ~urgent[t] => next[m] = Null
  BY ListsFacts, PlacedSym, LenProperties
  DEF Inv, Types, Hands, SendLink, Threads, Placed
<1>2. order # <<>> => /\ order[Len(order)] \in Nodes
                      /\ order[Len(order)] \in InSeq(order)
                      /\ Len(order) # 0
  BY <1>1, ElementOfSeq, EmptySeq DEF InSeq
<1>3. head = Null <=> order = <<>>
  BY <1>1, TailFacts, NullNoNode DEF IsChain
<1>4. /\ order' \in Seq(Nodes) /\ order' # <<>> /\ NoRepeat(order')
      /\ Len(order') = Len(order) + 1 /\ InSeq(order') = InSeq(order) \cup {m}
      /\ IsChain(next', head', order') /\ tail' = order'[Len(order')]
      /\ next' \in [Nodes -> Nodes \cup {Null}] /\ {head', tail'} \subseteq Nodes
      /\ \A n \in Nodes : n # m /\ n \notin InSeq(order) => next'[n] = next[n]
      /\ IsChain(next', free, spare)
  <2>1. CASE urgent[t]
    <3>1. /\ order' = <<m>> \o order /\ next' = [next EXCEPT ![m] = head]
          /\ head' = m /\ tail' = IF tail = Null THEN m ELSE tail
      BY <2>1 DEF SendLink, LinkFirst
    <3>2. /\ order' \in Seq(Nodes) /\ order' # <<>> /\ NoRepeat(order')
          /\ Len(order') = Len(order) + 1 /\ order'[1] = m
          /\ \A i \in 2..Len(order') : order'[i] = order[i - 1]
          /\ InSeq(order') = InSeq(order) \cup {m}
      BY <1>1, <3>1, ConsFacts
    <3>3. IsChain(next', head', order')
      BY <1>1, <3>1, ChainCons
    <3>4. IsChain(next', free, spare)
      BY <1>1, <3>1, ChainFrame
    <3>5. tail' = order'[Len(order')]
      BY <1>1, <1>2, <3>1, <3>2, NullNoNode, EmptySeq
    <3>6. next' \in [Nodes -> Nodes \cup {Null}] /\ {head', tail'} \subseteq Nodes
      BY <1>1, <3>1 DEF Inv, Types
    <3> QED
      BY <3>1, <3>2, <3>3, <3>4, <3>5, <3>6
  <2>2. CASE ~urgent[t]
    <3>1. /\ order' = Append(order, m)
          /\ next' = IF tail = Null THEN next ELSE [next EXCEPT ![tail] = m]
          /\ tail' = m /\ head' = IF head = Null THEN m ELSE head
      BY <2>2 DEF SendLink, LinkLast
    <3>2. /\ order' \in Seq(Nodes) /\ order' # <<>> /\ NoRepeat(order')
          /\ Len(order') = Len(order) + 1 /\ order'[Len(order')] = m
          /\ InSeq(order') = InSeq(order) \cup {m}
      BY <1>1, <3>1, AppendFacts
    <3>3. next' = IF order = <<>> THEN next ELSE [next EXCEPT ![order[Len(order)]] = m]
      BY <1>1, <1>2, <3>1, NullNoNode
    <3>4. head' = IF order = <<>> THEN m ELSE head
      BY <1>3, <3>1
    <3>5. IsChain(next', head', order')
      <4>1. IsChain(IF order = <<>> THEN next
                    ELSE [next EXCEPT ![order[Len(order)]] = m],
                    IF order = <<>> THEN m ELSE head, Append(order, m))
        BY <1>1, <2>2, ChainAppend
      <4> QED
        BY <3>1, <3>3, <3>4, <4>1
    <3>6. IsChain(next', free, spare)
      <4>1. order # <<>> => order[Len(order)] \notin InSeq(spare)
        BY <1>1, <1>2 DEF Placed
      <4> QED
        BY <1>1, <3>3, <4>1, ChainFrame
    <3>7. next' \in [Nodes -> Nodes \cup {Null}] /\ {head', tail'} \subseteq Nodes
      BY <1>1, <1>3, <3>1 DEF Inv, Types
    <3>8. \A n \in Nodes : n # m /\ n \notin InSeq(order) => next'[n] = next[n]
      BY <1>1, <1>2, <3>3
    <3> QED
      BY <3>1, <3>2, <3>5, <3>6, <3>7, <3>8
  <2> QED
    BY <2>1, <2>2
<1>5. Placed(order', spare', hold')
  <2>1. Placed(spare, order', [hold EXCEPT ![t] = Null])
    BY <1>1, <1>4, PlacedGive
  <2> QED
    BY <2>1, PlacedSym DEF SendLink
<1>6. Lists'
  BY <1>1, <1>4, <1>5, ListsFactsNext DEF SendLink
<1>7. waiting' \in Seq(Receivers)
  BY WaitingResume DEF SendLink, Wake, Inv, Types
<1>8. Types'
  BY <1>1, <1>4, <1>7 DEF Inv, Types, SendLink
<1>9. Hands'
  <2>1. ASSUME NEW u \in Threads, u # t, pc[u] = "linking", ~urgent[u]
        PROVE  next'[hold[u]] = Null
    <3>1. hold[u] \in Nodes /\ hold[u] # m /\ hold[u] \notin InSeq(order)
      BY <1>1, <2>1 DEF Inv, Types, Hands, Placed
    <3> QED
      BY <1>4, <2>1, <3>1 DEF Inv, Hands
  <2> QED
    BY <1>1, <2>1 DEF Inv, Types, Hands, SendLink
<1>10. Filled'
  BY <1>1, <1>4 DEF Inv, Types, Filled, SendLink
<1> QED
  BY <1>6, <1>8, <1>9, <1>10 DEF Inv

-----------------------------------------------------------------------------
(* The two critical sections of a receive                                  *)

LEMMA UnlinkStep ==
  ASSUME Inv, NEW t \in Receivers, pc[t] \in {"idle", "receiving"}, Unlink(t),
         UNCHANGED <<urgent, urgents>>
  PROVE  Inv' /\ order # <<>> /\ head = order[1]
<1>1. /\ t \in Threads /\ hold[t] = Null /\ order \in Seq(Nodes)
      /\ NoRepeat(order) /\ IsChain(next, head, order) /\ IsChain(next, free, spare)
      /\ tail = IF order = <<>> THEN Null ELSE order[Len(order)]
      /\ entry = Len(order) /\ entry # 0
      /\ Placed(spare, order, hold) /\ hold \in [Threads -> Nodes \cup {Null}]
  BY ListsFacts, PlacedSym DEF Inv, Types, Hands, Unlink, Threads, Placed
<1>2. order # <<>>
  BY <1>1
<1> DEFINE r == Tail(order)
<1>3. /\ head = order[1] /\ IsChain(next, next[head], r)
      /\ r \in Seq(Nodes) /\ NoRepeat(r) /\ Len(r) = Len(order) - 1
      /\ InSeq(r) = InSeq(order) \ {head}
      /\ head \in InSeq(order) /\ head \in Nodes /\ Len(order) \in Nat \ {0}
      /\ \A i \in 1..Len(r) : r[i] = order[i + 1]
  BY <1>1, <1>2, ChainTail, TailFacts
<1>4. /\ head' = next[head] /\ tail' = IF tail = head THEN Null ELSE tail
      /\ order' = r /\ entry' = entry - 1
  BY DEF Unlink, UnlinkHead
<1> HIDE DEF r
<1>5. tail' = IF r = <<>> THEN Null ELSE r[Len(r)]
  <2>1. CASE Len(order) = 1
    <3>1. r = <<>>
      BY <1>3, <2>1, EmptySeq
    <3> QED
      BY <1>1, <1>2, <1>3, <1>4, <2>1, <3>1
  <2>2. CASE Len(order) # 1
    <3>1. r # <<>> /\ Len(r) \in 1..Len(r) /\ r[Len(r)] = order[Len(order)]
      BY <1>3, <2>2
    <3>2. order[Len(order)] # order[1]
      BY <1>1, <1>3, <2>2 DEF NoRepeat
    <3> QED
      BY <1>1, <1>2, <1>3, <1>4, <3>1, <3>2
  <2> QED
    BY <2>1, <2>2
<1>6. Placed(order', spare', hold')
  <2>1. Placed(spare, r, [hold EXCEPT ![t] = head])
    BY <1>1, <1>3, PlacedTake
  <2> QED
    BY <1>4, <2>1, PlacedSym DEF Unlink
<1>7. Lists'
  BY <1>1, <1>3, <1>4, <1>5, <1>6, ListsFactsNext DEF Unlink
<1>8. Types'
  BY <1>1, <1>3, <1>4 DEF Inv, Types, Unlink
<1>9. Hands'
  BY <1>1, <1>3, NullNoNode DEF Inv, Types, Hands, Unlink
<1>10. Filled'
  BY <1>1, <1>3, <1>4 DEF Inv, Types, Filled, Unlink
<1> QED
  BY <1>2, <1>3, <1>7, <1>8, <1>9, <1>10 DEF Inv

LEMMA FreeStep ==
  ASSUME Inv, NEW t \in Receivers, RecvFree(t)
  PROVE  Inv'
<1> DEFINE m == hold[t]
<1>1. /\ t \in Threads /\ m # Null /\ m \in Nodes
      /\ m \notin InSeq(order) /\ m \notin InSeq(spare)
      /\ \A u \in Threads : hold[u] = m => u = t
      /\ NoRepeat(spare) /\ order \in Seq(Nodes) /\ spare \in Seq(Nodes)
      /\ IsChain(next, head, order) /\ IsChain(next, free, spare)
      /\ Placed(order, spare, hold)
      /\ next \in [Nodes -> Nodes \cup {Null}]
      /\ hold \in [Threads -> Nodes \cup {Null}]
  BY ListsFacts DEF Inv, Types, Hands, RecvFree, Threads, Placed
<1>2. /\ spare' = <<m>> \o spare /\ next' = [next EXCEPT ![m] = free]
      /\ free' = m
  BY DEF RecvFree
<1>3. /\ spare' \in Seq(Nodes) /\ NoRepeat(spare')
      /\ InSeq(spare') = InSeq(spare) \cup {m}
  BY <1>1, <1>2, ConsFacts
<1>4. IsChain(next', free', spare') /\ IsChain(next', head, order)
  BY <1>1, <1>2, ChainCons, ChainFrame
<1>5. Placed(order', spare', hold')
  BY <1>1, <1>3, PlacedGive DEF RecvFree
<1>6. Lists'
  BY <1>4, <1>5, ListsFacts, ListsFactsNext DEF Inv, RecvFree
<1>7. Types'
  BY <1>1, <1>2, <1>3 DEF Inv, Types, RecvFree
<1>8. Hands'
  <2>1. \A u \in Threads : u # t /\ hold[u] # Null => next'[hold[u]] = next[hold[u]]
    BY <1>1, <1>2
  <2> QED
    BY <1>1, <2>1 DEF Inv, Types, Hands, RecvFree
<1>9. Filled'
  BY DEF Inv, Types, Filled, RecvFree
<1> QED
  BY <1>6, <1>7, <1>8, <1>9 DEF Inv

-----------------------------------------------------------------------------
(* The reset of the queue, and the initial state                           *)

(* A sequence given by its elements is one.                                *)
LEMMA SeqOfFunction ==
  ASSUME NEW S, NEW n \in Nat, NEW f \in [1..n -> S]
  PROVE  f \in Seq(S) /\ Len(f) = n
<1>1. f \in Seq(S)
  BY SeqDef
<1>2. DOMAIN f = 1..Len(f) /\ Len(f) \in Nat
  BY <1>1, LenProperties
<1>3. DOMAIN f = 1..n
  OBVIOUS
<1>4. 1..Len(f) = 1..n
  BY <1>2, <1>3
<1>5. Len(f) = n
  BY <1>2, <1>4, SMT
<1> QED
  BY <1>1, <1>5

(* The nodes of the queue, last one first, in front of the free ones.      *)
LEMMA ResetChain ==
  ASSUME Inv, control_reset
  PROVE  /\ spare' \in Seq(Nodes) /\ NoRepeat(spare')
         /\ InSeq(spare') = InSeq(order) \cup InSeq(spare)
         /\ IsChain(next', free', spare')
         /\ next' \in [Nodes -> Nodes \cup {Null}] /\ free' \in Nodes \cup {Null}
         /\ \A n \in Nodes : n \notin InSeq(order) => next'[n] = next[n]
<1> DEFINE L == Len(order)
           M == Len(spare)
           rev == [i \in 1..L |-> order[L + 1 - i]]
           c == rev \o spare
<1>1. /\ order \in Seq(Nodes) /\ spare \in Seq(Nodes)
      /\ NoRepeat(order) /\ NoRepeat(spare) /\ InSeq(order) \cap InSeq(spare) = {}
      /\ IsChain(next, free, spare)
      /\ next \in [Nodes -> Nodes \cup {Null}] /\ free \in Nodes \cup {Null}
  BY ListsFacts DEF Inv, Types, Placed
<1>2. /\ L \in Nat /\ M \in Nat /\ (order = <<>> <=> L = 0) /\ (spare = <<>> <=> M = 0)
      /\ \A i \in 1..L : order[i] \in Nodes /\ order[i] \in InSeq(order)
      /\ \A i \in 1..M : spare[i] \in Nodes /\ spare[i] \in InSeq(spare)
  BY <1>1, EmptySeq, LenProperties, ElementOfSeq DEF InSeq
<1>3. rev \in Seq(Nodes) /\ Len(rev) = L
  <2>1. rev \in [1..L -> Nodes]
    BY <1>2
  <2> QED
    BY <1>2, <2>1, SeqOfFunction
<1>4. /\ c \in Seq(Nodes) /\ Len(c) = L + M
      /\ \A i \in 1..L + M : c[i] = IF i <= L THEN rev[i] ELSE spare[i - L]
  BY <1>1, <1>3, ConcatProperties
<1>5. \A i \in 1..L : i \in 1..L + M /\ c[i] = order[L + 1 - i]
  BY <1>2, <1>4
<1>6. \A i \in 1..M : i + L \in 1..L + M /\ c[i + L] = spare[i]
  BY <1>2, <1>4
<1>7. spare' = c /\ free' = IF L = 0 THEN free ELSE order[L]
  BY <1>2 DEF control_reset
<1> HIDE DEF rev, c
<1>8. /\ \A n \in Nodes : n \notin InSeq(order) => next'[n] = next[n]
      /\ \A j \in 1..L : next'[order[j]] = IF j = 1 THEN free ELSE order[j - 1]
  <2>1. next' = [n \in Nodes |->
                   IF \E i \in 1..L : order[i] = n
                   THEN LET i == CHOOSE i \in 1..L : order[i] = n
                        IN  IF i = 1 THEN free ELSE order[i - 1]
                   ELSE next[n]]
    BY DEF control_reset
  <2>2. ASSUME NEW j \in 1..L
        PROVE  (CHOOSE i \in 1..L : order[i] = order[j]) = j
    BY <1>1 DEF NoRepeat
  <2>3. ASSUME NEW j \in 1..L
        PROVE  next'[order[j]] = IF j = 1 THEN free ELSE order[j - 1]
    <3>1. order[j] \in Nodes /\ \E i \in 1..L : order[i] = order[j]
      BY <1>2
    <3> QED
      BY <2>1, <2>2, <3>1
  <2> QED
    BY <2>1, <2>3 DEF InSeq
<1>9. next' \in [Nodes -> Nodes \cup {Null}]
  <2>1. ASSUME NEW n \in Nodes PROVE next'[n] \in Nodes \cup {Null}
    <3>1. CASE n \in InSeq(order)
      <4>1. PICK j \in 1..L : n = order[j]
        BY <3>1 DEF InSeq
      <4>2. j # 1 => order[j - 1] \in Nodes
        BY <1>2, <4>1
      <4> QED
        BY <1>1, <1>8, <4>1, <4>2
    <3>2. CASE n \notin InSeq(order)
      BY <1>1, <1>8, <3>2
    <3> QED
      BY <3>1, <3>2
  <2>2. next' = [n \in Nodes |-> next'[n]]
    BY DEF control_reset
  <2> QED
    BY <2>1, <2>2
<1>10. InSeq(c) = InSeq(order) \cup InSeq(spare)
  <2>1. ASSUME NEW n \in InSeq(c) PROVE n \in InSeq(order) \cup InSeq(spare)
    <3>1. PICK i \in 1..L + M : n = c[i]
      BY <1>4 DEF InSeq
    <3>2. CASE i <= L
      <4>1. i \in 1..L /\ L + 1 - i \in 1..L
        BY <1>2, <3>2
      <4> QED
        BY <1>2, <1>5, <3>1, <4>1
    <3>3. CASE ~(i <= L)
      BY <1>2, <1>4, <3>1, <3>3
    <3> QED
      BY <3>2, <3>3
  <2>2. ASSUME NEW n \in InSeq(order) PROVE n \in InSeq(c)
    <3>1. PICK j \in 1..L : n = order[j]
      BY DEF InSeq
    <3>2. L + 1 - j \in 1..L /\ L + 1 - (L + 1 - j) = j
      BY <1>2
    <3>3. c[L + 1 - j] = n
      BY <1>5, <3>1, <3>2
    <3> QED
      BY <1>4, <1>5, <3>2, <3>3 DEF InSeq
  <2>3. ASSUME NEW n \in InSeq(spare) PROVE n \in InSeq(c)
    BY <1>4, <1>6 DEF InSeq
  <2> QED
    BY <2>1, <2>2, <2>3
<1>11. NoRepeat(c)
  <2> SUFFICES ASSUME NEW i \in 1..L + M, NEW j \in 1..L + M, c[i] = c[j]
               PROVE  i = j
    BY <1>4 DEF NoRepeat
  <2>1. CASE i <= L /\ j <= L
    <3>1. /\ i \in 1..L /\ j \in 1..L /\ L + 1 - i \in 1..L /\ L + 1 - j \in 1..L
      BY <1>2, <2>1
    <3>2. L + 1 - i = L + 1 - j
      BY <1>1, <1>5, <3>1 DEF NoRepeat
    <3> QED
      BY <1>2, <3>1, <3>2
  <2>2. CASE i > L /\ j > L
    <3>1. i - L \in 1..M /\ j - L \in 1..M /\ c[i] = spare[i - L] /\ c[j] = spare[j - L]
      BY <1>2, <1>4, <2>2
    <3>2. i - L = j - L
      BY <1>1, <3>1 DEF NoRepeat
    <3> QED
      BY <1>2, <3>1, <3>2
  <2>3. ASSUME NEW a \in 1..L + M, NEW b \in 1..L + M, a <= L, b > L
        PROVE  c[a] # c[b]
    <3>1. a \in 1..L /\ L + 1 - a \in 1..L /\ b - L \in 1..M /\ c[b] = spare[b - L]
      BY <1>2, <1>4, <2>3
    <3>2. c[a] \in InSeq(order) /\ c[b] \in InSeq(spare)
      BY <1>2, <1>5, <3>1
    <3> QED
      BY <1>1, <3>2
  <2> QED
    BY <1>2, <2>1, <2>2, <2>3
<1>12. IsChain(next', free', c)
  <2>1. ASSUME NEW i \in 1..L + M
        PROVE  next'[c[i]] = IF i = L + M THEN Null ELSE c[i + 1]
    <3>1. CASE i < L
      <4>1. /\ i \in 1..L /\ i + 1 \in 1..L /\ L + 1 - i \in 1..L /\ L + 1 - i # 1
            /\ L + 1 - i - 1 = L + 1 - (i + 1) /\ i # L + M
        BY <1>2, <3>1
      <4> DEFINE j == L + 1 - i
      <4>2. c[i] = order[j]
        BY <1>5, <4>1
      <4>3. j \in 1..L /\ j # 1
        BY <4>1
      <4>4. next'[order[j]] = order[j - 1]
        BY <1>8, <4>3
      <4>5. c[i + 1] = order[L + 1 - (i + 1)]
        BY <1>5, <4>1
      <4> QED
        BY <4>1, <4>2, <4>4, <4>5
    <3>2. CASE i = L
      <4>1. 1 \in 1..L /\ i \in 1..L /\ L + 1 - i = 1
        BY <1>2, <3>2
      <4>2. next'[c[i]] = free
        BY <1>5, <1>8, <4>1
      <4>3. CASE M = 0
        BY <1>1, <1>2, <3>2, <4>2, <4>3 DEF IsChain
      <4>4. CASE M # 0
        <5>1. 1 \in 1..M /\ L + 1 = 1 + L /\ i # L + M
          BY <1>2, <3>2, <4>4
        <5>2. c[1 + L] = spare[1]
          BY <1>6, <5>1
        <5>3. free = spare[1]
          BY <1>1, <1>2, <4>4 DEF IsChain
        <5> QED
          BY <3>2, <4>2, <5>1, <5>2, <5>3
      <4> QED
        BY <4>3, <4>4
    <3>3. CASE i > L
      <4>1. i - L \in 1..M /\ c[i] = spare[i - L]
        BY <1>2, <1>4, <3>3
      <4>2. next'[c[i]] = next[spare[i - L]]
        BY <1>1, <1>2, <1>8, <4>1
      <4>3. next[spare[i - L]] = IF i - L = M THEN Null ELSE spare[i - L + 1]
        BY <1>1, <4>1 DEF IsChain
      <4>4. i # L + M => /\ i - L + 1 \in 1..M /\ i - L + 1 + L = i + 1
                         /\ c[i - L + 1 + L] = spare[i - L + 1]
        BY <1>2, <1>6, <3>3, <4>1
      <4> QED
        BY <1>2, <3>3, <4>1, <4>2, <4>3, <4>4
    <3> QED
      BY <1>2, <3>1, <3>2, <3>3
  <2>2. free' = IF c = <<>> THEN Null ELSE c[1]
    <3>1. c = <<>> <=> L + M = 0
      BY <1>4, EmptySeq
    <3>2. CASE L = 0
      <4>1. M # 0 => 1 \in 1..M /\ c[1 + L] = spare[1] /\ 1 + L = 1
        BY <1>2, <1>6, <3>2
      <4> QED
        BY <1>1, <1>2, <1>7, <3>1, <3>2, <4>1 DEF IsChain
    <3>3. CASE L # 0
      <4>1. 1 \in 1..L /\ L + 1 - 1 = L
        BY <1>2, <3>3
      <4> QED
        BY <1>2, <1>5, <1>7, <3>1, <3>3, <4>1
    <3> QED
      BY <3>2, <3>3
  <2> QED
    BY <1>4, <2>1, <2>2 DEF IsChain
<1>13. free' \in Nodes \cup {Null}
  <2>1. L # 0 => L \in 1..L
    BY <1>2
  <2> QED
    BY <1>1, <1>2, <1>7, <2>1
<1> QED
  BY <1>4, <1>7, <1>8, <1>9, <1>10, <1>11, <1>12, <1>13

LEMMA ResetStep ==
  ASSUME Inv, control_reset
  PROVE  Inv'
<1>1. /\ spare' \in Seq(Nodes) /\ NoRepeat(spare')
      /\ InSeq(spare') = InSeq(order) \cup InSeq(spare)
      /\ IsChain(next', free', spare')
      /\ next' \in [Nodes -> Nodes \cup {Null}] /\ free' \in Nodes \cup {Null}
      /\ \A n \in Nodes : n \notin InSeq(order) => next'[n] = next[n]
  BY ResetChain
<1>2. /\ order' = <<>> /\ Len(order') = 0 /\ order' \in Seq(Nodes)
      /\ InSeq(order') = {} /\ NoRepeat(order')
  BY DEF control_reset, InSeq, NoRepeat
<1>3. IsChain(next', head', order')
  BY <1>2 DEF control_reset, IsChain
<1>4. Placed(order, spare, hold) /\ hold' = hold
  BY ListsFacts DEF Inv, control_reset
<1>5. Placed(order', spare', hold')
  BY <1>1, <1>2, <1>4 DEF Placed
<1>6. Lists'
  BY <1>1, <1>2, <1>3, <1>5, ListsFactsNext DEF control_reset
<1>7. Types'
  <2>1. error' \in [Receivers -> {"EOK", "ETIMEOUT", "ERROR"}]
    BY DEF Inv, Types, control_reset
  <2>2. waiting' \in Seq(Receivers) /\ {head', tail'} \subseteq Nodes \cup {Null}
    BY DEF control_reset
  <2>3. UNCHANGED <<text, pc, hold, urgent, timeout, urgents>>
    BY DEF control_reset
  <2> QED
    BY <1>1, <1>2, <2>1, <2>2, <2>3 DEF Inv, Types
<1>8. Hands'
  <2>1. \A t \in Threads : hold[t] # Null => hold[t] \in Nodes /\ hold[t] \notin InSeq(order)
    BY <1>4 DEF Inv, Types, Placed
  <2> QED
    BY <1>1, <2>1 DEF Inv, Hands, control_reset
<1>9. Filled'
  BY <1>2 DEF Inv, Filled, control_reset
<1> QED
  BY <1>6, <1>7, <1>8, <1>9 DEF Inv

LEMMA InitInv == Init => Inv
<1> SUFFICES ASSUME Init PROVE Inv
  OBVIOUS
<1> DEFINE N == max_msgs
<1>1. N \in Nat /\ MaxUrgent \in Nat
  BY QueueAssumption
<1>2. /\ order = <<>> /\ Len(order) = 0 /\ order \in Seq(Nodes)
      /\ InSeq(order) = {} /\ NoRepeat(order)
  BY DEF Init, InSeq, NoRepeat
<1>3. spare \in [1..N -> Nodes] /\ \A i \in 1..N : spare[i] = N + 1 - i
  BY <1>1 DEF Init, Nodes
<1>4. spare \in Seq(Nodes) /\ Len(spare) = N
  BY <1>1, <1>3, SeqOfFunction
<1>5. NoRepeat(spare)
  BY <1>1, <1>3, <1>4 DEF NoRepeat
<1>6. Nodes \subseteq InSeq(spare)
  <2>1. ASSUME NEW n \in Nodes PROVE n \in InSeq(spare)
    <3>1. N + 1 - n \in 1..N /\ spare[N + 1 - n] = n
      BY <1>1, <1>3 DEF Nodes
    <3> QED
      BY <1>4, <3>1 DEF InSeq
  <2> QED
    BY <2>1
<1>7. next \in [Nodes -> Nodes \cup {Null}] /\ \A n \in Nodes : next[n] = n - 1
  BY <1>1 DEF Init, Nodes, Null
<1>8. IsChain(next, free, spare)
  <2>1. free = IF spare = <<>> THEN Null ELSE spare[1]
    <3>1. spare = <<>> <=> N = 0
      BY <1>4, EmptySeq
    <3>2. N # 0 => spare[1] = N
      BY <1>1, <1>3
    <3> QED
      BY <3>1, <3>2 DEF Init, Null
  <2>2. ASSUME NEW i \in 1..N
        PROVE  next[spare[i]] = IF i = N THEN Null ELSE spare[i + 1]
    <3>1. spare[i] = N + 1 - i /\ spare[i] \in Nodes
      BY <1>3
    <3>2. next[spare[i]] = N - i
      BY <1>1, <1>7, <3>1
    <3>3. i # N => spare[i + 1] = N - i
      BY <1>1, <1>3
    <3> QED
      BY <1>1, <3>2, <3>3 DEF Null
  <2> QED
    BY <1>4, <2>1, <2>2 DEF IsChain
<1>9. Placed(order, spare, hold)
  BY <1>2, <1>5, <1>6 DEF Placed, Init
<1>10. IsChain(next, head, order) /\ tail = Null /\ entry = 0
  BY <1>2 DEF Init, IsChain
<1>11. Lists
  BY <1>2, <1>8, <1>9, <1>10, ListsFacts
<1>12. Types
  BY <1>1, <1>2, <1>4, <1>7 DEF Types, Init, Nodes, Null
<1>13. Hands /\ Filled
  BY <1>2 DEF Hands, Filled, Init
<1> QED
  BY <1>11, <1>12, <1>13 DEF Inv

LEMMA NextInv == Inv /\ [Next]_vars => Inv'
<1> SUFFICES ASSUME Inv, [Next]_vars PROVE Inv'
  OBVIOUS
<1>1. ASSUME NEW t \in Senders, SenderStep(t) PROVE Inv'
  BY <1>1, TakeStep, FillStep, LinkStep DEF SenderStep
<1>2. ASSUME NEW t \in Receivers, NEW w \in {"none", "some", "forever"},
             RecvCall(t, w)
      PROVE  Inv'
  <2>1. pc[t] = "idle" /\ UNCHANGED <<urgent, urgents>>
    BY <1>2 DEF RecvCall
  <2>2. CASE Unlink(t)
    BY <2>1, <2>2, UnlinkStep
  <2>3. CASE Suspend(t, w)
    BY <2>1, <2>3, SuspendStep
  <2> QED
    BY <1>2, <2>2, <2>3 DEF RecvCall
<1>3. ASSUME NEW t \in Receivers, RecvWake(t) PROVE Inv'
  <2>1. pc[t] = "receiving" /\ UNCHANGED <<urgent, urgents>>
    BY <1>3 DEF RecvWake, Woken
  <2>2. CASE error[t] # "EOK" /\ GiveUp(t, error[t])
    <3>1. error[t] \in {"ETIMEOUT", "ERROR"}
      BY <2>2 DEF Inv, Types
    <3> QED
      BY <2>1, <2>2, <3>1, GiveUpStep
  <2>3. ASSUME NEW w \in Left(timeout[t]),
               \/ Unlink(t)
               \/ Suspend(t, w)
               \/ entry = 0 /\ w = "none" /\ GiveUp(t, "ETIMEOUT")
        PROVE  Inv'
    <3>1. w \in {"none", "some", "forever"}
      BY DEF Inv, Types, Left
    <3>2. CASE Unlink(t)
      BY <2>1, <3>2, UnlinkStep
    <3>3. CASE Suspend(t, w)
      BY <2>1, <3>1, <3>3, SuspendStep
    <3>4. CASE GiveUp(t, "ETIMEOUT")
      BY <2>1, <3>4, GiveUpStep
    <3> QED
      BY <2>3, <3>2, <3>3, <3>4
  <2> QED
    BY <1>3, <2>2, <2>3 DEF RecvWake
<1>4. ASSUME NEW t \in Receivers, ReceiverStep(t) PROVE Inv'
  BY <1>2, <1>3, <1>4, CopyStep, FreeStep, TimeoutStep DEF ReceiverStep
<1>5. CASE control_reset
  BY <1>5, ResetStep
<1>6. CASE UNCHANGED vars
  <2>1. Lists'
    BY <1>6, ListsFacts, ListsFactsNext DEF Inv, vars, pool
  <2>2. Types' /\ Hands' /\ Filled'
    BY <1>6 DEF Inv, Types, Hands, Filled, vars, pool
  <2> QED
    BY <2>1, <2>2 DEF Inv
<1> QED
  BY <1>1, <1>4, <1>5, <1>6 DEF Next

-----------------------------------------------------------------------------
(* The invariants                                                          *)

(* For every pool, all threads and any number of calls in progress: the    *)
(* inductive invariant, which adds to the lists who has a node and which   *)
(* nodes are filled, always holds.                                         *)
THEOREM QueueConsistent == Spec => []Inv
<1>1. Init => Inv
  BY InitInv
<1>2. Inv /\ [Next]_vars => Inv'
  BY NextInv
<1> QED
  BY <1>1, <1>2, PTL DEF Spec

(* The pointers of rt_mq_send, rt_mq_urgent, rt_mq_recv and rt_mq_control  *)
(* always form two proper lists, and entry counts the first.               *)
THEOREM PointersAlwaysProper == Spec => []ListsProper
<1>1. Inv => ListsProper
  BY DEF Inv, Lists
<1> QED
  BY <1>1, QueueConsistent, PTL

(* No node of the pool is ever lost or in two places.                      *)
THEOREM NoNodeEverLost == Spec => []NodesAccounted
<1>1. Inv => NodesAccounted
  BY DEF Inv, Lists
<1> QED
  BY <1>1, QueueConsistent, PTL

(* Nodes without repetition are no more than there are in a set of them.   *)
LEMMA CountNodes ==
  ASSUME NEW s \in Seq(Nodes), NoRepeat(s), NEW T \in SUBSET Nodes,
         InSeq(s) \subseteq T
  PROVE  /\ IsFiniteSet(T) /\ Cardinality(T) \in Nat
         /\ Len(s) <= Cardinality(T)
<1>1. Len(s) \in Nat /\ s \in [1..Len(s) -> Nodes] /\ max_msgs \in Nat
  BY LenProperties, QueueAssumption
<1>2. IsFiniteSet(T) /\ Cardinality(T) \in Nat
  <2>1. IsFiniteSet(Nodes)
    BY <1>1, FS_Interval DEF Nodes
  <2>2. IsFiniteSet(T)
    BY <2>1, FS_Subset
  <2> QED
    BY <2>2, FS_CardinalityType
<1>3. \A i \in 1..Len(s) : s[i] \in T
  BY DEF InSeq
<1>4. DOMAIN s = 1..Len(s) /\ s \in [1..Len(s) -> T]
  BY <1>1, <1>3
<1>5. s \in Injection(1..Len(s), T)
  BY <1>4 DEF Injection, IsInjective, NoRepeat
<1>6. Cardinality(1..Len(s)) <= Cardinality(T)
  BY <1>2, <1>5, FS_Injection
<1>7. Cardinality(1..Len(s)) = Len(s)
  BY <1>1, FS_Interval
<1> QED
  BY <1>2, <1>6, <1>7

LEMMA QueueBounds ==
  ASSUME Inv
  PROVE  /\ Len(order) <= max_msgs
         /\ (\E m \in Nodes : m \notin InSeq(order)) => Len(order) < max_msgs
<1>1. order \in Seq(Nodes) /\ NoRepeat(order) /\ max_msgs \in Nat
  BY QueueAssumption, ListsFacts DEF Inv, Types, Placed
<1>2. InSeq(order) \subseteq Nodes
  BY <1>1, ElementOfSeq DEF InSeq
<1>3. IsFiniteSet(Nodes) /\ Cardinality(Nodes) = max_msgs
  BY <1>1, FS_Interval DEF Nodes
<1>4. Len(order) <= max_msgs
  BY <1>1, <1>2, <1>3, CountNodes
<1>5. ASSUME NEW m \in Nodes, m \notin InSeq(order)
      PROVE  Len(order) < max_msgs
  <2>1. InSeq(order) \subseteq Nodes \ {m}
    BY <1>2, <1>5
  <2>2. Cardinality(Nodes \ {m}) = max_msgs - 1
    BY <1>3, FS_RemoveElement
  <2>3. Len(order) <= max_msgs - 1
    BY <1>1, <2>1, <2>2, CountNodes
  <2> QED
    BY <1>1, <2>3, LenProperties
<1> QED
  BY <1>4, <1>5

(* Every variable keeps its type; in particular entry never exceeds the    *)
(* number of messages of the pool.                                         *)
THEOREM QueueTypeCorrect == Spec => []TypeOK
<1>1. Inv => TypeOK
  <2> SUFFICES ASSUME Inv PROVE TypeOK
    OBVIOUS
  <2>1. entry \in 0..max_msgs
    BY QueueBounds, ListsFacts, QueueAssumption, LenProperties DEF Inv, Types
  <2> QED
    BY <2>1 DEF Inv, Types, TypeOK
<1> QED
  BY <1>1, QueueConsistent, PTL

-----------------------------------------------------------------------------
(* No wake-up is lost                                                      *)

(* The receivers that a send has woken and that have not run yet           *)
Awake == {t \in Receivers : Woken(t) /\ error[t] = "EOK"}

(* Who is suspended is in the list once, and nothing has gone wrong for    *)
(* him: what takes him out of the list other than a send sets the error.   *)
Waiters ==
  /\ NoRepeat(waiting)
  /\ \A t \in InSeq(waiting) : pc[t] = "receiving" /\ error[t] = "EOK"

WaitInv == Waiters /\ NoLostWakeup

LEMMA AwakeFinite ==
  /\ IsFiniteSet(Awake) /\ Cardinality(Awake) \in Nat
  /\ IsFiniteSet(Awake') /\ Cardinality(Awake') \in Nat
<1>1. IsFiniteSet(Receivers)
  BY QueueAssumption
<1>2. Awake \in SUBSET Receivers /\ Awake' \in SUBSET Receivers
  BY DEF Awake
<1> QED
  BY <1>1, <1>2, FS_Subset, FS_CardinalityType

(* One who comes into the list, wherever that is, keeps it without         *)
(* repetitions.                                                            *)
LEMMA SuspendFacts ==
  ASSUME waiting \in Seq(Receivers), NoRepeat(waiting),
         NEW t \in Receivers, t \notin InSeq(waiting), list_suspend(t)
  PROVE  NoRepeat(waiting') /\ InSeq(waiting') \subseteq InSeq(waiting) \cup {t}
<1>1. Len(waiting) \in Nat /\ \A k \in 1..Len(waiting) : waiting[k] \in Receivers
  BY LenProperties, ElementOfSeq
<1>2. PICK i \in 1..Len(waiting) + 1 :
        waiting' = (SubSeq(waiting, 1, i - 1) \o <<t>>)
                     \o SubSeq(waiting, i, Len(waiting))
  BY DEF list_suspend
<1> DEFINE a == SubSeq(waiting, 1, i - 1)
           b == SubSeq(waiting, i, Len(waiting))
           n == Len(waiting)
<1>3. /\ a \in Seq(Receivers) /\ Len(a) = i - 1
      /\ \A k \in 1..i - 1 : a[k] = waiting[k]
  <2>1. 1 \in Int /\ i - 1 \in Int /\ \A k \in 1..i - 1 : waiting[k] \in Receivers
    BY <1>1
  <2> QED
    BY <1>1, <2>1, SubSeqProperties
<1>4. /\ b \in Seq(Receivers) /\ Len(b) = n - i + 1
      /\ \A k \in 1..n - i + 1 : b[k] = waiting[i + k - 1]
  <2>1. i \in Int /\ n \in Int /\ \A k \in i..n : waiting[k] \in Receivers
    BY <1>1
  <2> QED
    BY <1>1, <2>1, SubSeqProperties
<1>5. <<t>> \in Seq(Receivers) /\ Len(<<t>>) = 1 /\ <<t>>[1] = t
  OBVIOUS
<1>6. waiting' = (a \o <<t>>) \o b
  BY <1>2
<1> HIDE DEF a, b
<1>7. /\ a \o <<t>> \in Seq(Receivers) /\ Len(a \o <<t>>) = i
      /\ \A k \in 1..i : (a \o <<t>>)[k] = IF k = i THEN t ELSE waiting[k]
  BY <1>1, <1>3, <1>5, ConcatProperties
<1>8. /\ Len(waiting') = n + 1
      /\ \A k \in 1..n + 1 :
           waiting'[k] = IF k < i THEN waiting[k]
                         ELSE IF k = i THEN t ELSE waiting[k - 1]
  <2> DEFINE c == a \o <<t>>
  <2>1. c \in Seq(Receivers) /\ Len(c) = i /\ waiting' = c \o b
    BY <1>6, <1>7
  <2> HIDE DEF c
  <2>2. /\ Len(waiting') = Len(c) + Len(b)
        /\ \A k \in 1..Len(c) + Len(b) :
             waiting'[k] = IF k <= Len(c) THEN c[k] ELSE b[k - Len(c)]
    BY <1>4, <2>1, ConcatProperties
  <2>3. Len(waiting') = n + 1
    BY <1>1, <1>4, <2>1, <2>2
  <2>4. ASSUME NEW k \in 1..n + 1, k <= i
        PROVE  waiting'[k] = IF k = i THEN t ELSE waiting[k]
    <3>1. k \in 1..i /\ k \in 1..Len(c) + Len(b)
      BY <1>1, <1>4, <2>1, <2>4
    <3> QED
      BY <1>7, <2>1, <2>2, <2>4, <3>1 DEF c
  <2>5. ASSUME NEW k \in 1..n + 1, ~(k <= i)
        PROVE  waiting'[k] = waiting[k - 1]
    <3>1. /\ k \in 1..Len(c) + Len(b) /\ k - i \in 1..n - i + 1
          /\ i + (k - i) - 1 = k - 1
      BY <1>1, <1>4, <2>1, <2>5
    <3> QED
      BY <1>4, <2>1, <2>2, <2>5, <3>1
  <2> QED
    BY <1>1, <2>3, <2>4, <2>5
<1>9. \A k \in 1..n : waiting[k] # t
  BY DEF InSeq
<1>10. NoRepeat(waiting')
  <2>1. ASSUME NEW j \in 1..n + 1, NEW k \in 1..n + 1, waiting'[j] = waiting'[k]
        PROVE  j = k
    <3> DEFINE old(m) == IF m < i THEN m ELSE m - 1
    <3>1. \A m \in 1..n + 1 : m # i => /\ old(m) \in 1..n
                                       /\ waiting'[m] = waiting[old(m)]
      BY <1>1, <1>8
    <3>2. waiting'[i] = t
      BY <1>1, <1>8
    <3>3. CASE j = i \/ k = i
      BY <1>9, <2>1, <3>1, <3>2, <3>3
    <3>4. CASE j # i /\ k # i
      <4>1. old(j) = old(k)
        BY <2>1, <3>1, <3>4 DEF NoRepeat
      <4> QED
        BY <1>1, <3>4, <4>1
    <3> QED
      BY <3>3, <3>4
  <2> QED
    BY <1>8, <2>1 DEF NoRepeat
<1>11. InSeq(waiting') \subseteq InSeq(waiting) \cup {t}
  BY <1>1, <1>8 DEF InSeq
<1> QED
  BY <1>10, <1>11

(* One who leaves the list, from wherever he is in it.                     *)
LEMMA RemoveFacts ==
  ASSUME waiting \in Seq(Receivers), NoRepeat(waiting), NEW t, list_remove(t)
  PROVE  NoRepeat(waiting') /\ InSeq(waiting') \subseteq InSeq(waiting) \ {t}
<1>1. Len(waiting) \in Nat /\ \A k \in 1..Len(waiting) : waiting[k] \in Receivers
  BY LenProperties, ElementOfSeq
<1>2. PICK i \in 1..Len(waiting) :
        /\ waiting[i] = t
        /\ waiting' = SubSeq(waiting, 1, i - 1)
                        \o SubSeq(waiting, i + 1, Len(waiting))
  BY DEF list_remove
<1> DEFINE a == SubSeq(waiting, 1, i - 1)
           b == SubSeq(waiting, i + 1, Len(waiting))
           n == Len(waiting)
<1>3. /\ a \in Seq(Receivers) /\ Len(a) = i - 1
      /\ \A k \in 1..i - 1 : a[k] = waiting[k]
  <2>1. 1 \in Int /\ i - 1 \in Int /\ \A k \in 1..i - 1 : waiting[k] \in Receivers
    BY <1>1
  <2> QED
    BY <1>1, <2>1, SubSeqProperties
<1>4. /\ b \in Seq(Receivers) /\ Len(b) = n - i
      /\ \A k \in 1..n - i : b[k] = waiting[i + k]
  <2>1. i + 1 \in Int /\ n \in Int /\ \A k \in i + 1..n : waiting[k] \in Receivers
    BY <1>1
  <2> QED
    BY <1>1, <2>1, SubSeqProperties
<1>5. waiting' = a \o b
  BY <1>2
<1> HIDE DEF a, b
<1>6. /\ Len(waiting') = n - 1
      /\ \A k \in 1..n - 1 :
           waiting'[k] = IF k < i THEN waiting[k] ELSE waiting[k + 1]
  <2>1. /\ Len(waiting') = Len(a) + Len(b)
        /\ \A k \in 1..Len(a) + Len(b) :
             waiting'[k] = IF k <= Len(a) THEN a[k] ELSE b[k - Len(a)]
    BY <1>3, <1>4, <1>5, ConcatProperties
  <2>2. Len(waiting') = n - 1
    BY <1>1, <1>3, <1>4, <2>1
  <2>3. ASSUME NEW k \in 1..n - 1, k < i
        PROVE  waiting'[k] = waiting[k]
    <3>1. k \in 1..i - 1 /\ k \in 1..Len(a) + Len(b) /\ k <= Len(a)
      BY <1>1, <1>3, <1>4, <2>3
    <3> QED
      BY <1>3, <2>1, <3>1
  <2>4. ASSUME NEW k \in 1..n - 1, ~(k < i)
        PROVE  waiting'[k] = waiting[k + 1]
    <3>1. /\ k \in 1..Len(a) + Len(b) /\ ~(k <= Len(a))
          /\ k - (i - 1) \in 1..n - i /\ i + (k - (i - 1)) = k + 1
      BY <1>1, <1>3, <1>4, <2>4
    <3> QED
      BY <1>3, <1>4, <2>1, <3>1
  <2> QED
    BY <2>2, <2>3, <2>4
<1> DEFINE old(k) == IF k < i THEN k ELSE k + 1
<1>7. /\ \A k \in 1..n - 1 : /\ old(k) \in 1..n /\ old(k) # i
                             /\ waiting'[k] = waiting[old(k)]
      /\ \A j, k \in 1..n - 1 : old(j) = old(k) => j = k
  BY <1>1, <1>6
<1> HIDE DEF old
<1>8. NoRepeat(waiting')
  BY <1>6, <1>7 DEF NoRepeat
<1>9. InSeq(waiting') \subseteq InSeq(waiting) \ {t}
  <2>1. ASSUME NEW k \in 1..n - 1 PROVE waiting'[k] \in InSeq(waiting) \ {t}
    BY <1>2, <1>7 DEF NoRepeat, InSeq
  <2> QED
    BY <1>6, <2>1 DEF InSeq
<1> QED
  BY <1>8, <1>9

(* The first in the list is woken, and is one more who is awake.           *)
LEMMA ResumeFacts ==
  ASSUME waiting \in Seq(Receivers), NoRepeat(waiting), waiting # <<>>,
         list_resume
  PROVE  /\ NoRepeat(waiting') /\ InSeq(waiting') \subseteq InSeq(waiting)
         /\ waiting[1] \in InSeq(waiting) \ InSeq(waiting')
         /\ waiting[1] \in Receivers
<1>1. Len(waiting) \in Nat \ {0} /\ waiting' = Tail(waiting)
  BY EmptySeq DEF list_resume
<1>2. /\ Len(waiting') = Len(waiting) - 1
      /\ \A k \in 1..Len(waiting') : waiting'[k] = waiting[k + 1]
  BY <1>1, HeadTailProperties
<1> QED
  BY <1>1, <1>2, ElementOfSeq DEF NoRepeat, InSeq

(* A step that lengthens neither list and puts nobody to sleep again.      *)
LEMMA AwakeKept ==
  ASSUME NoLostWakeup, waiting' # <<>> => waiting # <<>>,
         Awake \subseteq Awake', Len(order') \in Nat, Len(order) \in Nat,
         Len(order') <= Len(order)
  PROVE  NoLostWakeup'
<1>1. Cardinality(Awake) <= Cardinality(Awake')
  BY AwakeFinite, FS_Subset
<1> QED
  BY <1>1, AwakeFinite DEF NoLostWakeup, Awake

LEMMA LengthsNat ==
  ASSUME Inv, Inv'
  PROVE  /\ Len(order) \in Nat /\ Len(order') \in Nat
         /\ entry = Len(order) /\ waiting \in Seq(Receivers)
  BY LenProperties DEF Inv, Types, Lists, ListsProper

(* A step of a thread that nobody waits for and nobody counts on.          *)
LEMMA WaitUntouched ==
  ASSUME Inv, Inv', WaitInv, NEW t \in Threads, NEW x,
         pc[t] # "receiving", x # "receiving", pc' = [pc EXCEPT ![t] = x],
         UNCHANGED <<waiting, error, order>>
  PROVE  WaitInv'
<1>1. \A u \in Receivers : u # t => pc'[u] = pc[u]
  BY DEF Inv, Types, Threads
<1>2. Waiters'
  <2>1. NoRepeat(waiting')
    BY DEF WaitInv, Waiters
  <2>2. \A u \in InSeq(waiting') : u \in Receivers
    BY LengthsNat, ElementOfSeq DEF InSeq
  <2> QED
    BY <1>1, <2>1, <2>2 DEF WaitInv, Waiters
<1>3. Awake \subseteq Awake'
  BY <1>1 DEF Awake, Woken
<1> QED
  BY <1>2, <1>3, AwakeKept, LengthsNat DEF WaitInv

LEMMA LinkWakes ==
  ASSUME Inv, Inv', WaitInv, NEW t \in Senders, SendLink(t)
  PROVE  WaitInv'
<1>1. /\ t \in Threads /\ pc[t] = "linking" /\ pc' = [pc EXCEPT ![t] = "idle"]
      /\ error' = error /\ list_resume /\ Len(order') = Len(order) + 1
  <2>1. entry' = Len(order') /\ entry = Len(order)
    BY DEF Inv, Lists, ListsProper
  <2> QED
    BY <2>1 DEF SendLink, Wake, Threads
<1>2. \A u \in Receivers : u # t => pc'[u] = pc[u]
  BY <1>1 DEF Inv, Types, Threads
<1>3. CASE waiting = <<>>
  <2>1. waiting' = <<>>
    BY <1>1, <1>3 DEF list_resume
  <2> QED
    BY <2>1 DEF WaitInv, Waiters, NoLostWakeup, NoRepeat, InSeq
<1>4. CASE waiting # <<>>
  <2> DEFINE w == waiting[1]
  <2>1. /\ NoRepeat(waiting') /\ InSeq(waiting') \subseteq InSeq(waiting)
        /\ w \in InSeq(waiting) \ InSeq(waiting') /\ w \in Receivers
    BY <1>1, <1>4, ResumeFacts, LengthsNat DEF WaitInv, Waiters
  <2>2. \A u \in InSeq(waiting) : u \in Receivers
    BY LengthsNat, ElementOfSeq DEF InSeq
  <2>3. Waiters'
    BY <1>1, <1>2, <2>1, <2>2 DEF WaitInv, Waiters
  <2>4. w \notin Awake /\ Awake \cup {w} \subseteq Awake'
    BY <1>1, <1>2, <2>1 DEF Awake, Woken, WaitInv, Waiters
  <2> HIDE DEF w
  <2>5. Cardinality(Awake \cup {w}) = Cardinality(Awake) + 1
    BY <2>4, AwakeFinite, FS_AddElement
  <2>6. Cardinality(Awake) + 1 <= Cardinality(Awake')
    BY <2>4, <2>5, AwakeFinite, FS_Subset
  <2>7. Len(order) <= Cardinality(Awake)
    BY <1>4 DEF WaitInv, NoLostWakeup, Awake
  <2>8. Len(order') <= Cardinality(Awake')
    BY <1>1, <2>6, <2>7, AwakeFinite, LengthsNat
  <2> QED
    BY <2>3, <2>8 DEF WaitInv, NoLostWakeup, Awake
<1> QED
  BY <1>3, <1>4

(* A receiver that was not suspended takes a message.                      *)
LEMMA UnlinkWakes ==
  ASSUME Inv, Inv', WaitInv, NEW t \in Receivers,
         pc[t] = "idle" \/ Woken(t), Unlink(t)
  PROVE  WaitInv'
<1>1. /\ t \in Threads /\ pc[t] # "copying" /\ pc' = [pc EXCEPT ![t] = "copying"]
      /\ error' = error /\ waiting' = waiting /\ t \notin InSeq(waiting)
  BY DEF Unlink, Woken, Threads, WaitInv, Waiters
<1>2. \A u \in Receivers : u # t => pc'[u] = pc[u]
  BY <1>1 DEF Inv, Types, Threads
<1>3. Len(order') = Len(order) - 1
  <2>1. entry' = Len(order') /\ entry = Len(order) /\ entry' = entry - 1
    BY DEF Inv, Lists, ListsProper, Unlink, UnlinkHead
  <2> QED
    BY <2>1
<1>4. \A u \in InSeq(waiting) : u \in Receivers
  BY LengthsNat, ElementOfSeq DEF InSeq
<1>5. Waiters'
  BY <1>1, <1>2, <1>4 DEF WaitInv, Waiters
<1>6. Awake \ {t} \subseteq Awake'
  BY <1>1, <1>2 DEF Awake, Woken
<1>7. /\ IsFiniteSet(Awake \ {t}) /\ Cardinality(Awake \ {t}) \in Nat
      /\ Cardinality(Awake \ {t}) >= Cardinality(Awake) - 1
  <2>1. /\ IsFiniteSet(Awake \ {t})
        /\ Cardinality(Awake \ {t}) = IF t \in Awake THEN Cardinality(Awake) - 1
                                      ELSE Cardinality(Awake)
    BY AwakeFinite, FS_RemoveElement
  <2>2. Cardinality(Awake \ {t}) \in Nat
    BY <2>1, FS_CardinalityType
  <2> QED
    BY <2>1, <2>2, AwakeFinite
<1>8. Cardinality(Awake \ {t}) <= Cardinality(Awake')
  BY <1>6, AwakeFinite, FS_Subset
<1>9. waiting # <<>> => Len(order') <= Cardinality(Awake')
  <2>1. waiting # <<>> => Len(order) <= Cardinality(Awake)
    BY DEF WaitInv, NoLostWakeup, Awake
  <2> QED
    BY <1>3, <1>7, <1>8, <2>1, AwakeFinite, LengthsNat
<1> QED
  BY <1>1, <1>5, <1>9 DEF WaitInv, NoLostWakeup, Awake

(* A receiver that was not suspended is suspended: the queue is empty.     *)
LEMMA SuspendWakes ==
  ASSUME Inv, Inv', WaitInv, NEW t \in Receivers, NEW w,
         pc[t] = "idle" \/ Woken(t), Suspend(t, w)
  PROVE  WaitInv'
<1>1. /\ t \in Threads /\ pc' = [pc EXCEPT ![t] = "receiving"]
      /\ error' = [error EXCEPT ![t] = "EOK"] /\ list_suspend(t)
      /\ order' = order /\ entry = 0
  BY DEF Suspend, Threads, pool
<1>2. t \notin InSeq(waiting)
  BY DEF Woken, WaitInv, Waiters
<1>3. NoRepeat(waiting') /\ InSeq(waiting') \subseteq InSeq(waiting) \cup {t}
  BY <1>1, <1>2, LengthsNat, SuspendFacts DEF WaitInv, Waiters
<1>4. \A u \in InSeq(waiting) : u \in Receivers
  BY LengthsNat, ElementOfSeq DEF InSeq
<1>5. \A u \in InSeq(waiting') : pc'[u] = "receiving" /\ error'[u] = "EOK"
  BY <1>1, <1>3, <1>4 DEF WaitInv, Waiters, Inv, Types, Threads
<1>6. NoLostWakeup'
  BY <1>1, LengthsNat, AwakeFinite DEF NoLostWakeup, Awake
<1> QED
  BY <1>3, <1>5, <1>6 DEF WaitInv, Waiters

(* A receiver gives up, for an error or because the queue is empty.        *)
LEMMA GiveUpWakes ==
  ASSUME Inv, Inv', WaitInv, NEW t \in Receivers, Woken(t), NEW e, GiveUp(t, e),
         error[t] # "EOK" \/ entry = 0
  PROVE  WaitInv'
<1>1. /\ t \in Threads /\ pc' = [pc EXCEPT ![t] = "idle"]
      /\ error' = [error EXCEPT ![t] = e] /\ waiting' = waiting
      /\ order' = order /\ t \notin InSeq(waiting)
  BY DEF GiveUp, Threads, pool, Woken
<1>2. \A u \in Receivers : u # t => pc'[u] = pc[u] /\ error'[u] = error[u]
  BY <1>1 DEF Inv, Types, Threads
<1>3. \A u \in InSeq(waiting) : u \in Receivers
  BY LengthsNat, ElementOfSeq DEF InSeq
<1>4. Waiters'
  BY <1>1, <1>2, <1>3 DEF WaitInv, Waiters
<1>5. CASE entry = 0
  <2>1. NoLostWakeup'
    BY <1>1, <1>5, LengthsNat, AwakeFinite DEF NoLostWakeup, Awake
  <2> QED
    BY <1>4, <2>1 DEF WaitInv
<1>6. CASE error[t] # "EOK"
  <2>1. Awake \subseteq Awake'
    BY <1>1, <1>2, <1>6 DEF Awake, Woken
  <2> QED
    BY <1>1, <1>4, <2>1, AwakeKept, LengthsNat DEF WaitInv
<1> QED
  BY <1>5, <1>6

LEMMA TimeoutWakes ==
  ASSUME Inv, Inv', WaitInv, NEW t \in Receivers, thread_timeout(t)
  PROVE  WaitInv'
<1>1. /\ t \in InSeq(waiting) /\ list_remove(t) /\ pc' = pc /\ order' = order
      /\ error' = [error EXCEPT ![t] = "ETIMEOUT"]
  BY DEF thread_timeout, Suspended, pool
<1>2. NoRepeat(waiting') /\ InSeq(waiting') \subseteq InSeq(waiting) \ {t}
  BY <1>1, LengthsNat, RemoveFacts DEF WaitInv, Waiters
<1>3. \A u \in Receivers : u # t => error'[u] = error[u]
  BY <1>1 DEF Inv, Types
<1>4. \A u \in InSeq(waiting) : u \in Receivers
  BY LengthsNat, ElementOfSeq DEF InSeq
<1>5. Waiters'
  BY <1>1, <1>2, <1>3, <1>4 DEF WaitInv, Waiters
<1>6. Awake \subseteq Awake'
  BY <1>1, <1>2, <1>3 DEF Awake, Woken
<1>7. waiting # <<>>
  BY <1>1 DEF InSeq
<1> QED
  BY <1>1, <1>5, <1>6, <1>7, AwakeKept, LengthsNat DEF WaitInv

LEMMA NextWaitInv == Inv /\ Inv' /\ WaitInv /\ [Next]_vars => WaitInv'
<1> SUFFICES ASSUME Inv, Inv', WaitInv, [Next]_vars PROVE WaitInv'
  OBVIOUS
<1>0. Senders \subseteq Threads /\ Receivers \subseteq Threads
  BY DEF Threads
<1>1. ASSUME NEW t \in Senders, SenderStep(t) PROVE WaitInv'
  <2>1. ASSUME NEW u \in BOOLEAN, SendTake(t, u) PROVE WaitInv'
    BY <1>0, <2>1, WaitUntouched DEF SendTake
  <2>2. ASSUME NEW m \in Msgs, SendFill(t, m) PROVE WaitInv'
    BY <1>0, <2>2, WaitUntouched DEF SendFill
  <2> QED
    BY <1>1, <2>1, <2>2, LinkWakes DEF SenderStep
<1>2. ASSUME NEW t \in Receivers, ReceiverStep(t) PROVE WaitInv'
  <2>1. ASSUME NEW w, RecvCall(t, w) PROVE WaitInv'
    BY <2>1, UnlinkWakes, SuspendWakes DEF RecvCall
  <2>2. CASE RecvWake(t)
    BY <2>2, UnlinkWakes, SuspendWakes, GiveUpWakes DEF RecvWake
  <2>3. CASE RecvCopy(t)
    BY <1>0, <2>3, WaitUntouched DEF RecvCopy, pool
  <2>4. CASE RecvFree(t)
    BY <1>0, <2>4, WaitUntouched DEF RecvFree
  <2> QED
    BY <1>2, <2>1, <2>2, <2>3, <2>4, TimeoutWakes DEF ReceiverStep
<1>3. CASE control_reset
  <2>1. waiting' = <<>>
    BY <1>3 DEF control_reset
  <2> QED
    BY <2>1 DEF WaitInv, Waiters, NoLostWakeup, NoRepeat, InSeq
<1>4. CASE UNCHANGED vars
  BY <1>4 DEF vars, pool, WaitInv, Waiters, NoLostWakeup, Woken
<1> QED
  BY <1>1, <1>2, <1>3, <1>4 DEF Next

(* For any receivers, priorities and waiting times: rt_mq_recv stays       *)
(* suspended only while every message in the queue has a receiver that a   *)
(* send has woken for it, whatever timeouts, resets and receivers that     *)
(* come first do in between.                                               *)
THEOREM NoWakeupEverLost == Spec => []NoLostWakeup
<1>1. Init => WaitInv
  BY DEF Init, WaitInv, Waiters, NoLostWakeup, NoRepeat, InSeq
<1>2. WaitInv => NoLostWakeup
  BY DEF WaitInv
<1> QED
  BY <1>1, <1>2, NextWaitInv, QueueConsistent, PTL DEF Spec

-----------------------------------------------------------------------------
(* RtMsgQueue implements MsgQueue                                          *)

Contents(tx, o) == [i \in 1..Len(o) |-> tx[o[i]]]
Carried(tx, p, h) ==
  [t \in Receivers |-> IF p[t] = "copying" THEN tx[h[t]] ELSE NoMsg]

LEMMA ContentsSeq ==
  ASSUME NEW S, NEW tx \in [Nodes -> S], NEW o \in Seq(Nodes)
  PROVE  /\ Len(o) \in Nat
         /\ Contents(tx, o) \in Seq(S) /\ Len(Contents(tx, o)) = Len(o)
         /\ \A i \in 1..Len(o) : Contents(tx, o)[i] = tx[o[i]]
<1>1. Len(o) \in Nat /\ \A i \in 1..Len(o) : o[i] \in Nodes
  BY LenProperties, ElementOfSeq
<1>2. Contents(tx, o) \in [1..Len(o) -> S]
  BY <1>1 DEF Contents
<1>3. Contents(tx, o) \in Seq(S) /\ Len(Contents(tx, o)) = Len(o)
  BY <1>1, <1>2, SeqOfFunction
<1> QED
  BY <1>1, <1>3 DEF Contents

LEMMA ContentsAppend ==
  ASSUME NEW S, NEW tx \in [Nodes -> S], NEW o \in Seq(Nodes), NEW m \in Nodes
  PROVE  Contents(tx, Append(o, m)) = Append(Contents(tx, o), tx[m])
<1> DEFINE p == Append(o, m)
           a == Contents(tx, p)
           b == Append(Contents(tx, o), tx[m])
<1>1. /\ p \in Seq(Nodes) /\ Len(p) = Len(o) + 1 /\ p[Len(o) + 1] = m
      /\ \A i \in 1..Len(o) : p[i] = o[i]
  BY AppendProperties
<1>2. /\ Len(o) \in Nat /\ Contents(tx, o) \in Seq(S)
      /\ Len(Contents(tx, o)) = Len(o)
      /\ \A i \in 1..Len(o) : Contents(tx, o)[i] = tx[o[i]]
  BY ContentsSeq
<1>3. /\ b \in Seq(S) /\ Len(b) = Len(o) + 1 /\ b[Len(o) + 1] = tx[m]
      /\ \A i \in 1..Len(o) : b[i] = tx[o[i]]
  BY <1>2, AppendProperties
<1> HIDE DEF p
<1>4. /\ a \in Seq(S) /\ Len(a) = Len(o) + 1
      /\ \A i \in 1..Len(p) : a[i] = tx[p[i]]
  BY <1>1, ContentsSeq
<1> HIDE DEF a, b
<1>5. \A i \in 1..Len(a) : a[i] = b[i]
  BY <1>1, <1>2, <1>3, <1>4
<1>6. a = b
  BY <1>3, <1>4, <1>5, SeqEqual
<1> QED
  BY <1>6 DEF a, b, p

LEMMA ContentsCons ==
  ASSUME NEW S, NEW tx \in [Nodes -> S], NEW o \in Seq(Nodes), NEW m \in Nodes
  PROVE  Contents(tx, <<m>> \o o) = <<tx[m]>> \o Contents(tx, o)
<1> DEFINE p == <<m>> \o o
           a == Contents(tx, p)
           b == <<tx[m]>> \o Contents(tx, o)
<1>1. /\ Len(o) \in Nat /\ Contents(tx, o) \in Seq(S)
      /\ Len(Contents(tx, o)) = Len(o)
      /\ \A i \in 1..Len(o) : Contents(tx, o)[i] = tx[o[i]]
  BY ContentsSeq
<1>2. /\ <<m>> \in Seq(Nodes) /\ Len(<<m>>) = 1 /\ <<m>>[1] = m
      /\ <<tx[m]>> \in Seq(S) /\ Len(<<tx[m]>>) = 1 /\ <<tx[m]>>[1] = tx[m]
  OBVIOUS
<1>3. /\ p \in Seq(Nodes) /\ Len(p) = Len(o) + 1
      /\ \A i \in 1..Len(o) + 1 : p[i] = IF i <= 1 THEN m ELSE o[i - 1]
  BY <1>1, <1>2, ConcatProperties
<1>4. /\ b \in Seq(S) /\ Len(b) = Len(o) + 1
      /\ \A i \in 1..Len(o) + 1 :
           b[i] = IF i <= 1 THEN tx[m] ELSE Contents(tx, o)[i - 1]
  BY <1>1, <1>2, ConcatProperties
<1> HIDE DEF p
<1>5. /\ a \in Seq(S) /\ Len(a) = Len(o) + 1
      /\ \A i \in 1..Len(p) : a[i] = tx[p[i]]
  BY <1>3, ContentsSeq
<1> HIDE DEF a, b
<1>6. ASSUME NEW i \in 1..Len(o) + 1 PROVE a[i] = b[i]
  <2>1. CASE i = 1
    BY <1>1, <1>3, <1>4, <1>5, <2>1
  <2>2. CASE i # 1
    <3>1. i - 1 \in 1..Len(o) /\ ~(i <= 1)
      BY <1>1, <2>2
    <3>2. p[i] = o[i - 1] /\ b[i] = Contents(tx, o)[i - 1]
      BY <1>3, <1>4, <3>1
    <3>3. a[i] = tx[p[i]] /\ Contents(tx, o)[i - 1] = tx[o[i - 1]]
      BY <1>1, <1>3, <1>5, <3>1
    <3> QED
      BY <3>2, <3>3
  <2> QED
    BY <2>1, <2>2
<1>7. a = b
  BY <1>4, <1>5, <1>6, SeqEqual
<1> QED
  BY <1>7 DEF a, b, p

LEMMA ContentsTail ==
  ASSUME NEW S, NEW tx \in [Nodes -> S], NEW o \in Seq(Nodes), o # <<>>
  PROVE  /\ Contents(tx, o) # <<>> /\ Head(Contents(tx, o)) = tx[o[1]]
         /\ Contents(tx, Tail(o)) = Tail(Contents(tx, o))
<1> DEFINE p == Tail(o)
           c == Contents(tx, o)
           a == Contents(tx, p)
           b == Tail(c)
<1>1. /\ Len(o) \in Nat /\ c \in Seq(S) /\ Len(c) = Len(o)
      /\ \A i \in 1..Len(o) : c[i] = tx[o[i]]
  BY ContentsSeq
<1>2. Len(o) # 0 /\ 1 \in 1..Len(o)
  BY <1>1, EmptySeq
<1>3. /\ p \in Seq(Nodes) /\ Len(p) = Len(o) - 1
      /\ \A i \in 1..Len(p) : p[i] = o[i + 1]
  BY HeadTailProperties
<1> HIDE DEF p, c
<1>4. c # <<>>
  BY <1>1, <1>2, EmptySeq
<1>5. /\ b \in Seq(S) /\ Len(b) = Len(o) - 1
      /\ \A i \in 1..Len(b) : b[i] = c[i + 1]
  BY <1>1, <1>4, HeadTailProperties
<1>6. Head(c) = c[1]
  BY <1>1, <1>4
<1>7. /\ a \in Seq(S) /\ Len(a) = Len(p)
      /\ \A i \in 1..Len(p) : a[i] = tx[p[i]]
  <2>1. p \in Seq(Nodes)
    BY <1>3
  <2> QED
    BY ONLY <2>1, ContentsSeq, tx \in [Nodes -> S]
<1> HIDE DEF a, b
<1>8. ASSUME NEW i \in 1..Len(o) - 1 PROVE a[i] = b[i]
  <2>1. i \in 1..Len(p) /\ i \in 1..Len(b) /\ i + 1 \in 1..Len(o)
    BY <1>1, <1>3, <1>5
  <2>2. a[i] = tx[o[i + 1]]
    BY <1>3, <1>7, <2>1
  <2>3. b[i] = tx[o[i + 1]]
    BY <1>1, <1>5, <2>1
  <2> QED
    BY <2>2, <2>3
<1>9. a = b
  BY <1>3, <1>5, <1>7, <1>8, SeqEqual
<1>10. c[1] = tx[o[1]]
  BY <1>1, <1>2
<1>11. c # <<>> /\ Head(c) = tx[o[1]] /\ a = Tail(c)
  BY <1>4, <1>6, <1>9, <1>10 DEF b
<1> QED
  BY <1>11 DEF a, c, p

(* The message of a node that is not there does not matter.                *)
LEMMA ContentsFrame ==
  ASSUME NEW tx, NEW ty, NEW o, \A n \in InSeq(o) : ty[n] = tx[n]
  PROVE  Contents(ty, o) = Contents(tx, o)
BY DEF Contents, InSeq

LEMMA Mapped ==
  /\ Queue!Init <=> /\ Contents(text, order) = <<>>
                    /\ Carried(text, pc, hold) = [r \in Receivers |-> NoMsg]
  /\ Queue!vars = <<Contents(text, order), Carried(text, pc, hold)>>
BY DEF Queue!Init, Queue!vars, Contents, Carried

LEMMA MappedNext ==
  ASSUME NEW c, NEW d, c = Contents(text', order'), d = Carried(text', pc', hold'),
         NEW a, NEW b, a = Contents(text, order), b = Carried(text, pc, hold)
  PROVE  /\ c = a /\ d = b => UNCHANGED Queue!vars
         /\ \A m \in Msgs :
              Len(a) < max_msgs /\ c \in {Append(a, m), <<m>> \o a} /\ d = b
              => Queue!Next
         /\ \A r \in Receivers :
              /\ a # <<>> /\ b[r] = NoMsg /\ c = Tail(a)
              /\ d = [b EXCEPT ![r] = Head(a)]
              => Queue!Next
         /\ \A r \in Receivers :
              b[r] # NoMsg /\ d = [b EXCEPT ![r] = NoMsg] /\ c = a
              => Queue!Next
         /\ c = <<>> /\ d = b => Queue!Next
BY DEF Queue!vars, Queue!Next, Queue!Accept, Queue!Take, Queue!Deliver,
       Queue!Reset, Contents, Carried

(* A step that leaves alone the queue, its messages and those in transit.  *)
LEMMA Stutters ==
  ASSUME UNCHANGED order, \A n \in InSeq(order) : text'[n] = text[n],
         \A r \in Receivers : pc'[r] = "copying" <=> pc[r] = "copying",
         \A r \in Receivers : pc[r] = "copying" => text'[hold'[r]] = text[hold[r]]
  PROVE  UNCHANGED Queue!vars
<1>1. Contents(text', order') = Contents(text, order)
  BY ContentsFrame
<1>2. Carried(text', pc', hold') = Carried(text, pc, hold)
  BY DEF Carried
<1> QED
  BY <1>1, <1>2, MappedNext

LEMMA UnlinkMaps ==
  ASSUME Inv, Inv', NEW t \in Receivers, pc[t] \in {"idle", "receiving"},
         Unlink(t), UNCHANGED <<urgent, urgents>>
  PROVE  Queue!Next
<1> DEFINE a == Contents(text, order)
           b == Carried(text, pc, hold)
           d == Carried(text', pc', hold')
<1>1. order # <<>> /\ head = order[1] /\ order \in Seq(Nodes)
  BY UnlinkStep DEF Inv, Types
<1>2. text \in [Nodes -> Msgs \cup {NoMsg}] /\ t \in Threads
  BY DEF Inv, Types, Threads
<1>3. /\ a # <<>> /\ Head(a) = text[head]
      /\ Contents(text', order') = Tail(a)
  BY <1>1, <1>2, ContentsTail DEF Unlink, UnlinkHead
<1>4. b[t] = NoMsg
  BY DEF Carried
<1>5. d = [b EXCEPT ![t] = text[head]]
  <2>1. /\ pc'[t] = "copying" /\ hold'[t] = head /\ text' = text
        /\ \A r \in Receivers : r # t => pc'[r] = pc[r] /\ hold'[r] = hold[r]
    BY <1>2 DEF Inv, Types, Unlink
  <2> QED
    BY <2>1 DEF Carried
<1> QED
  BY <1>3, <1>4, <1>5, MappedNext

LEMMA LinkMaps ==
  ASSUME Inv, NEW t \in Senders, SendLink(t)
  PROVE  Queue!Next
<1> DEFINE a == Contents(text, order)
           c == Contents(text', order')
           m == hold[t]
<1>1. /\ t \in Threads /\ m \in Nodes /\ text[m] \in Msgs /\ m \notin InSeq(order)
      /\ order \in Seq(Nodes) /\ text \in [Nodes -> Msgs \cup {NoMsg}]
  BY ListsFacts DEF Inv, Types, Hands, Filled, SendLink, Threads, Placed
<1>2. Len(a) < max_msgs
  BY <1>1, QueueBounds, ContentsSeq
<1>3. c \in {Append(a, text[m]), <<text[m]>> \o a}
  <2>1. CASE urgent[t]
    BY <1>1, <2>1, ContentsCons DEF SendLink, LinkFirst
  <2>2. CASE ~urgent[t]
    BY <1>1, <2>2, ContentsAppend DEF SendLink, LinkLast
  <2> QED
    BY <2>1, <2>2
<1>4. Carried(text', pc', hold') = Carried(text, pc, hold)
  <2>1. /\ text' = text /\ pc[t] = "linking" /\ pc'[t] = "idle"
        /\ \A r \in Receivers : r # t => pc'[r] = pc[r] /\ hold'[r] = hold[r]
    BY <1>1 DEF Inv, Types, SendLink, Threads
  <2> QED
    BY <2>1 DEF Carried
<1> QED
  BY <1>1, <1>2, <1>3, <1>4, MappedNext

LEMMA CopyMaps ==
  ASSUME Inv, NEW t \in Receivers, RecvCopy(t)
  PROVE  Queue!Next
<1> DEFINE b == Carried(text, pc, hold)
<1>1. text[hold[t]] \in Msgs /\ b[t] = text[hold[t]] /\ NoMsg \notin Msgs
  BY QueueAssumption DEF Inv, Filled, RecvCopy, Carried, Threads
<1>2. Carried(text', pc', hold') = [b EXCEPT ![t] = NoMsg]
  BY DEF Inv, Types, RecvCopy, Carried, pool, Threads
<1>3. Contents(text', order') = Contents(text, order)
  BY DEF RecvCopy, pool
<1> QED
  BY <1>1, <1>2, <1>3, MappedNext

LEMMA SenderMaps ==
  ASSUME Inv, NEW t \in Senders, SenderStep(t)
  PROVE  Queue!Next \/ UNCHANGED Queue!vars
<1>1. t \in Threads /\ Receivers \subseteq Threads
  BY DEF Threads
<1>2. ASSUME NEW u \in BOOLEAN, SendTake(t, u) PROVE UNCHANGED Queue!vars
  <2>1. \A r \in Receivers : r # t => pc'[r] = pc[r] /\ hold'[r] = hold[r]
    BY <1>1, <1>2 DEF SendTake, Inv, Types
  <2>2. pc[t] = "idle" /\ pc'[t] = "filling" /\ text' = text /\ order' = order
    BY <1>1, <1>2 DEF SendTake, Inv, Types
  <2> QED
    BY <2>1, <2>2, Stutters
<1>3. ASSUME NEW m \in Msgs, SendFill(t, m) PROVE UNCHANGED Queue!vars
  <2>1. \A r \in Receivers : r # t => pc'[r] = pc[r] /\ hold'[r] = hold[r]
    BY <1>1, <1>3 DEF SendFill, Inv, Types
  <2>2. pc[t] = "filling" /\ pc'[t] = "linking" /\ order' = order
    BY <1>1, <1>3 DEF SendFill, Inv, Types
  <2>3. /\ hold[t] # Null /\ hold[t] \notin InSeq(order)
        /\ \A u \in Threads : hold[u] = hold[t] => u = t
    BY <1>1, <2>2, ListsFacts DEF Inv, Hands, Placed
  <2>4. \A n \in Nodes : n # hold[t] => text'[n] = text[n]
    BY <1>3 DEF SendFill, Inv, Types
  <2>5. \A n \in InSeq(order) : n \in Nodes
    BY ElementOfSeq DEF InSeq, Inv, Types
  <2>6. \A r \in Receivers : pc[r] = "copying" => hold[r] \in Nodes
    BY <1>1 DEF Inv, Types, Hands
  <2>7. ASSUME NEW r \in Receivers, pc[r] = "copying"
        PROVE  text'[hold'[r]] = text[hold[r]]
    BY <1>1, <2>1, <2>2, <2>3, <2>4, <2>6, <2>7
  <2> QED
    BY <2>1, <2>2, <2>3, <2>4, <2>5, <2>7, Stutters
<1>4. CASE SendLink(t)
  BY <1>4, LinkMaps
<1> QED
  BY <1>2, <1>3, <1>4 DEF SenderStep

LEMMA ReceiverMaps ==
  ASSUME Inv, Inv', NEW t \in Receivers, ReceiverStep(t)
  PROVE  Queue!Next \/ UNCHANGED Queue!vars
<1>1. t \in Threads /\ Receivers \subseteq Threads
  BY DEF Threads
<1>2. ASSUME pc[t] \in {"idle", "receiving"}, NEW x \in {"idle", "receiving"},
             pc' = [pc EXCEPT ![t] = x], UNCHANGED <<pool, hold>>
      PROVE  UNCHANGED Queue!vars
  <2>1. \A r \in Receivers : r # t => pc'[r] = pc[r]
    BY <1>1, <1>2 DEF Inv, Types
  <2>2. pc'[t] = x /\ text' = text /\ order' = order /\ hold' = hold
    BY <1>1, <1>2 DEF Inv, Types, pool
  <2> QED
    BY <1>2, <2>1, <2>2, Stutters
<1>3. ASSUME NEW w \in {"none", "some", "forever"}, RecvCall(t, w)
      PROVE  Queue!Next \/ UNCHANGED Queue!vars
  <2>1. CASE Unlink(t)
    BY <1>3, <2>1, UnlinkMaps DEF RecvCall
  <2>2. CASE Suspend(t, w)
    BY <1>2, <1>3, <2>2 DEF RecvCall, Suspend
  <2> QED
    BY <1>3, <2>1, <2>2 DEF RecvCall
<1>4. CASE RecvWake(t)
  <2>1. pc[t] = "receiving" /\ UNCHANGED <<urgent, urgents>>
    BY <1>4 DEF RecvWake, Woken
  <2>2. CASE Unlink(t)
    BY <2>1, <2>2, UnlinkMaps
  <2>3. ASSUME NEW w, Suspend(t, w) PROVE UNCHANGED Queue!vars
    BY <1>2, <2>1, <2>3 DEF Suspend
  <2>4. ASSUME NEW e, GiveUp(t, e) PROVE UNCHANGED Queue!vars
    BY <1>2, <2>1, <2>4 DEF GiveUp
  <2> QED
    BY <1>4, <2>2, <2>3, <2>4 DEF RecvWake
<1>5. CASE RecvCopy(t)
  BY <1>5, CopyMaps
<1>6. CASE RecvFree(t)
  <2>1. \A r \in Receivers : r # t => pc'[r] = pc[r] /\ hold'[r] = hold[r]
    BY <1>1, <1>6 DEF RecvFree, Inv, Types
  <2>2. pc[t] = "freeing" /\ pc'[t] = "idle" /\ text' = text /\ order' = order
    BY <1>1, <1>6 DEF RecvFree, Inv, Types
  <2> QED
    BY <2>1, <2>2, Stutters
<1>7. CASE thread_timeout(t)
  BY <1>7, Stutters DEF thread_timeout, pool
<1> QED
  BY <1>3, <1>4, <1>5, <1>6, <1>7 DEF ReceiverStep

LEMMA ResetMaps ==
  ASSUME control_reset
  PROVE  Queue!Next
<1>1. order' = <<>> /\ text' = text /\ pc' = pc /\ hold' = hold
  BY DEF control_reset
<1>2. Contents(text', order') = <<>>
  BY <1>1 DEF Contents
<1> QED
  BY <1>1, <1>2, MappedNext

(* For every pool and any interleaving of the critical sections, the queue *)
(* is a first-in first-out queue of messages, urgent ones in front, that   *)
(* gives each message to one receiver and unchanged.                       *)
THEOREM QueueImplemented == Spec => ImplementsQueue
<1>1. Init => Queue!Init
  <2> SUFFICES ASSUME Init PROVE Queue!Init
    OBVIOUS
  <2>1. Contents(text, order) = <<>>
    BY DEF Init, Contents
  <2>2. Carried(text, pc, hold) = [r \in Receivers |-> NoMsg]
    BY DEF Init, Carried, Threads
  <2> QED
    BY <2>1, <2>2, Mapped
<1>2. Inv /\ Inv' /\ [Next]_vars => [Queue!Next]_(Queue!vars)
  <2> SUFFICES ASSUME Inv, Inv', [Next]_vars
               PROVE  Queue!Next \/ UNCHANGED Queue!vars
    OBVIOUS
  <2>1. CASE UNCHANGED vars
    BY <2>1, Stutters DEF vars, pool
  <2> QED
    BY <2>1, SenderMaps, ReceiverMaps, ResetMaps DEF Next
<1> QED
  BY <1>1, <1>2, QueueConsistent, PTL DEF Spec, ImplementsQueue, Queue!Spec

=============================================================================
