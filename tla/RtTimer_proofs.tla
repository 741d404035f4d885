--------------------------- MODULE RtTimer_proofs ---------------------------
(***************************************************************************)
(* Proofs about RtTimer for any timers, threads, delays and width of the   *)
(* tick: if every timer has one caller, a timer is never inserted twice,   *)
(* its flag tells whether it is in the list, the list is in the order of   *)
(* expiry, and the timers fire as TimerService promises.                   *)
(***************************************************************************)
EXTENDS RtTimer, FiniteSetTheorems, TLAPS

Ranges ==
  /\ place \in [Timers -> Nat]
  /\ active \subseteq Timers
  /\ pc \in [Threads -> {"idle", "removed", "stamped", "stop", "unlisted"}]
  /\ on \in [Threads -> Timers \cup {NoTimer}]
  /\ isr \in {"off", "tick", "check", "callback", "after"}

(* What a thread in the middle of a call knows of its timer.               *)
Calls ==
  \A th \in Threads :
    /\ pc[th] # "idle" => on[th] \in Owns[th]
    /\ pc[th] \in {"removed", "stamped"} => on[th] \notin active
    /\ pc[th] \in {"removed", "stamped", "unlisted"} =>
         on[th] \notin Listed /\ on[th] # firing

Fires ==
  IF isr \in {"callback", "after"}
    THEN firing \in Timers /\ firing \notin Listed
    ELSE firing = NoTimer

TimerInv == Ranges /\ Calls /\ Fires /\ FlagsMatch

-----------------------------------------------------------------------------
(* A removal takes one timer out and keeps the others.                     *)
LEMMA RemovedFacts ==
  ASSUME NEW f \in [Timers -> Nat], NEW t \in Timers
  PROVE  /\ Removed(f, t) \in [Timers -> Nat]
         /\ In(Removed(f, t)) = In(f) \ {t}
  BY DEF Removed, In

LEMMA SlotType ==
  ASSUME NEW f \in [Timers -> Nat], NEW to, NEW t
  PROVE  Slot(f, to, t) \in Nat \ {0}
<1>. DEFINE S == {u \in In(f) : \A v \in In(f) : Later(to, v, t) => f[u] < f[v]}
<1>1. IsFiniteSet(S)
  BY TimerAssumption, FS_Subset, S \subseteq Timers DEF In
<1>2. Cardinality(S) \in Nat
  BY <1>1, FS_CardinalityType
<1>. QED
  BY <1>2 DEF Slot

(* An insertion puts one timer in and keeps the others.                    *)
LEMMA InsertedFacts ==
  ASSUME NEW f \in [Timers -> Nat], NEW to, NEW t \in Timers
  PROVE  /\ Inserted(f, to, t) \in [Timers -> Nat]
         /\ In(Inserted(f, to, t)) = In(f) \cup {t}
<1>1. Slot(f, to, t) \in Nat \ {0}
  BY SlotType
<1>. QED
  BY <1>1 DEF Inserted, InsertedAt, In

(* rt_timer_start where nothing comes in between.                          *)
LEMMA StartNowFacts ==
  ASSUME Ranges, NEW t \in Timers, StartNow(t)
  PROVE  /\ place' \in [Timers -> Nat]
         /\ Listed' = Listed \cup {t}
         /\ active' = active \cup {t}
<1>1. /\ Removed(place, t) \in [Timers -> Nat]
      /\ In(Removed(place, t)) = Listed \ {t}
  BY RemovedFacts DEF Ranges, Listed
<1>2. /\ Inserted(Removed(place, t), timeout_tick', t) \in [Timers -> Nat]
      /\ In(Inserted(Removed(place, t), timeout_tick', t))
           = In(Removed(place, t)) \cup {t}
  BY <1>1, InsertedFacts
<1>. QED
  BY <1>1, <1>2 DEF StartNow, Listed, In

LEMMA StopNowFacts ==
  ASSUME Ranges, FlagsMatch, NEW t \in Timers, StopNow(t)
  PROVE  /\ place' \in [Timers -> Nat]
         /\ Listed' = Listed \ {t}
         /\ active' = active \ {t}
<1>1. CASE t \in active
  BY <1>1, RemovedFacts DEF StopNow, Listed, Ranges, In
<1>2. CASE t \notin active
  BY <1>2 DEF StopNow, Listed, Ranges, In, FlagsMatch, lists
<1>. QED
  BY <1>1, <1>2

-----------------------------------------------------------------------------
LEMMA InitTimerInv == Init => TimerInv
  BY DEF Init, TimerInv, Ranges, Calls, Fires, FlagsMatch, Listed, In

(* Steps of a thread.                                                      *)
LEMMA ThreadPreserves ==
  ASSUME OneCaller, TimerInv, NEW th \in Threads,
         Continue(th) \/ \E t \in Timers : StartRemove(th, t) \/ StopTest(th, t)
  PROVE  TimerInv'
<1>. USE TimerAssumption
<1>0. isr = "off" /\ firing = NoTimer
  BY DEF TimerInv, Fires, Continue, StartStamp, StartInsert, StopRemove,
         StopClear, StartRemove, StopTest
<1>1. CASE \E t \in Timers : StartRemove(th, t)
  <2>1. PICK t \in Timers : StartRemove(th, t)
    BY <1>1
  <2>2. place' \in [Timers -> Nat] /\ Listed' = Listed \ {t}
    BY <2>1, RemovedFacts DEF StartRemove, TimerInv, Ranges, Listed, In
  <2>. QED
    BY <1>0, <2>1, <2>2
       DEF StartRemove, TimerInv, Ranges, Calls, Fires, FlagsMatch, clock,
           OneCaller
<1>2. CASE \E t \in Timers : StopTest(th, t)
  BY <1>0, <1>2
     DEF StopTest, TimerInv, Ranges, Calls, Fires, FlagsMatch, Listed, In,
         clock, lists
<1>3. CASE StartStamp(th)
  BY <1>0, <1>3
     DEF StartStamp, TimerInv, Ranges, Calls, Fires, FlagsMatch, Listed, In,
         clock, lists
<1>4. CASE StartInsert(th)
  <2>1. on[th] \in Timers /\ on[th] \in Owns[th]
    BY <1>4 DEF StartInsert, TimerInv, Calls
  <2>2. place' \in [Timers -> Nat] /\ Listed' = Listed \cup {on[th]}
    BY <1>4, <2>1, InsertedFacts DEF StartInsert, TimerInv, Ranges, Listed, In
  <2>. QED
    BY <1>0, <1>4, <2>1, <2>2
       DEF StartInsert, TimerInv, Ranges, Calls, Fires, FlagsMatch, clock,
           OneCaller
<1>5. CASE StopRemove(th)
  <2>1. on[th] \in Timers /\ on[th] \in Owns[th]
    BY <1>5 DEF StopRemove, TimerInv, Calls
  <2>2. place' \in [Timers -> Nat] /\ Listed' = Listed \ {on[th]}
    BY <1>5, <2>1, RemovedFacts DEF StopRemove, TimerInv, Ranges, Listed, In
  <2>. QED
    BY <1>0, <1>5, <2>1, <2>2
       DEF StopRemove, TimerInv, Ranges, Calls, Fires, FlagsMatch, clock,
           OneCaller
<1>6. CASE StopClear(th)
  <2>1. Listed' = Listed /\ on[th] \in Owns[th]
    BY <1>6 DEF StopClear, TimerInv, Calls, Listed, In, lists
  <2>. QED
    BY <1>0, <1>6, <2>1
       DEF StopClear, TimerInv, Ranges, Calls, Fires, FlagsMatch, clock, lists,
           OneCaller
<1>. QED
  BY <1>1, <1>2, <1>3, <1>4, <1>5, <1>6 DEF Continue

(* Starts and stops with interrupts off.                                   *)
LEMMA IsrPreserves ==
  ASSUME OneCaller, TimerInv, NEW t \in Timers, IsrStart(t) \/ IsrStop(t)
  PROVE  TimerInv'
<1>. USE TimerAssumption
<1>1. \A th \in Threads : pc[th] # "idle" => on[th] # t
  BY DEF TimerInv, Calls, OneCaller, IsrStart, IsrStop
<1>2. firing = NoTimer
  BY DEF TimerInv, Fires, IsrStart, IsrStop
<1>3. CASE IsrStart(t)
  <2>1. /\ place' \in [Timers -> Nat]
        /\ Listed' = Listed \cup {t}
        /\ active' = active \cup {t}
    BY <1>3, StartNowFacts DEF IsrStart, TimerInv
  <2>. QED
    BY <1>1, <1>2, <1>3, <2>1
       DEF IsrStart, TimerInv, Ranges, Calls, Fires, FlagsMatch, clock, threads
<1>4. CASE IsrStop(t)
  <2>1. /\ place' \in [Timers -> Nat]
        /\ Listed' = Listed \ {t}
        /\ active' = active \ {t}
    BY <1>4, StopNowFacts DEF IsrStop, TimerInv
  <2>. QED
    BY <1>1, <1>2, <1>4, <2>1
       DEF IsrStop, TimerInv, Ranges, Calls, Fires, FlagsMatch, clock, threads
<1>. QED
  BY <1>3, <1>4

(* The tick interrupt.                                                     *)
LEMMA CheckPreserves ==
  ASSUME OneCaller, TimerInv, Check
  PROVE  TimerInv'
<1>. USE TimerAssumption
<1>1. CASE CheckDone
  BY <1>1 DEF CheckDone, TimerInv, Ranges, Calls, Fires, FlagsMatch, Listed,
              In, threads, lists
<1>2. CASE \E t \in Timers : CheckRemove(t)
  <2>1. PICK t \in Timers : CheckRemove(t)
    BY <1>2
  <2>2. place' \in [Timers -> Nat] /\ Listed' = Listed \ {t} /\ t \in Listed
    BY <2>1, RemovedFacts DEF CheckRemove, TimerInv, Ranges, Listed, In
  <2>. QED
    BY <2>1, <2>2
       DEF CheckRemove, TimerInv, Ranges, Calls, Fires, FlagsMatch, threads
<1>3. CASE Callback
  <2>0. /\ firing \in Timers /\ firing \notin Listed /\ isr' = "after"
        /\ firing' = firing /\ pc' = pc /\ on' = on
    BY <1>3 DEF Callback, TimerInv, Fires, threads
  <2>1. CASE \E t \in StartedBy[firing] : StartNow(t)
    <3>1. PICK t \in StartedBy[firing] : StartNow(t)
      BY <2>1
    <3>2. /\ t \in Timers /\ t # firing
          /\ \A th \in Threads : pc[th] # "idle" => on[th] # t
      BY <2>0, <3>1 DEF OneCaller, TimerInv, Calls
    <3>3. /\ place' \in [Timers -> Nat]
          /\ Listed' = Listed \cup {t}
          /\ active' = active \cup {t}
      BY <3>1, <3>2, StartNowFacts DEF TimerInv
    <3>. QED
      BY <2>0, <3>2, <3>3 DEF TimerInv, Ranges, Calls, Fires, FlagsMatch
  <2>2. CASE StopNow(firing)
    <3>1. /\ place' \in [Timers -> Nat]
          /\ Listed' = Listed \ {firing}
          /\ active' = active \ {firing}
      BY <2>0, <2>2, StopNowFacts DEF TimerInv
    <3>. QED
      BY <2>0, <3>1 DEF TimerInv, Ranges, Calls, Fires, FlagsMatch
  <2>3. CASE UNCHANGED <<lists, active, timeout_tick>>
    BY <2>0, <2>3 DEF TimerInv, Ranges, Calls, Fires, FlagsMatch, Listed, In,
                      lists
  <2>. QED
    BY <1>3, <2>1, <2>2, <2>3 DEF Callback
<1>4. CASE CheckRestart
  <2>0. /\ firing \in Timers /\ firing \notin Listed /\ isr' = "check"
        /\ firing' = NoTimer /\ pc' = pc /\ on' = on
    BY <1>4 DEF CheckRestart, TimerInv, Fires, threads
  <2>1. CASE firing \in Periodic \cap active
    <3>1. /\ place' \in [Timers -> Nat]
          /\ Listed' = Listed \cup {firing}
          /\ active' = active \cup {firing}
      BY <1>4, <2>0, <2>1, StartNowFacts DEF CheckRestart, TimerInv
    <3>. QED
      BY <2>0, <3>1 DEF TimerInv, Ranges, Calls, Fires, FlagsMatch
  <2>2. CASE firing \notin Periodic \cap active
    <3>1. place' = place /\ Listed' = Listed /\ active' = active \ {firing}
      BY <1>4, <2>2 DEF CheckRestart, lists, Listed, In
    <3>. QED
      BY <2>0, <3>1 DEF TimerInv, Ranges, Calls, Fires, FlagsMatch
  <2>. QED
    BY <2>1, <2>2
<1>. QED
  BY <1>1, <1>2, <1>3, <1>4 DEF Check

LEMMA TimerInvPreserved ==
  ASSUME OneCaller
  PROVE  TimerInv /\ [Next]_vars => TimerInv'
<1>. SUFFICES ASSUME TimerInv, [Next]_vars PROVE TimerInv'
  OBVIOUS
<1>1. CASE TickIncrease
  BY <1>1 DEF TickIncrease, TimerInv, Ranges, Calls, Fires, FlagsMatch, Listed,
              In, threads, lists
<1>2. CASE \E t \in Timers, d \in Delays : SetTime(t, d)
  BY <1>2 DEF SetTime, TimerInv, Ranges, Calls, Fires, FlagsMatch, Listed, In,
              clock, threads, lists
<1>3. CASE UNCHANGED vars
  BY <1>3 DEF vars, TimerInv, Ranges, Calls, Fires, FlagsMatch, Listed, In
<1>. QED
  BY <1>1, <1>2, <1>3, ThreadPreserves, IsrPreserves, CheckPreserves DEF Next

(* Where every timer has one caller, rt_timer_start inserts a timer only   *)
(* when it is not in the list, whatever interrupts its two sections.       *)
THEOREM NeverInsertedTwice ==
  ASSUME OneCaller
  PROVE  Spec => []InsertedOnce
<1>1. TimerInv => InsertedOnce
  BY DEF TimerInv, Calls, InsertedOnce
<1>. QED
  BY <1>1, InitTimerInv, TimerInvPreserved, PTL DEF Spec

(* Where every timer has one caller, RT_TIMER_FLAG_ACTIVATED tells whether *)
(* the timer is in the list, although it is changed outside the sections.  *)
THEOREM FlagsAlwaysMatch ==
  ASSUME OneCaller
  PROVE  Spec => []FlagsMatch
<1>1. TimerInv => FlagsMatch
  BY DEF TimerInv
<1>. QED
  BY <1>1, InitTimerInv, TimerInvPreserved, PTL DEF Spec

-----------------------------------------------------------------------------
(* Numberings: the list and the arrivals                                   *)

LEMMA NumberingFacts ==
  ASSUME NEW f, Numbering(f)
  PROVE  /\ f \in [Timers -> Nat]
         /\ IsFiniteSet(In(f)) /\ Cardinality(In(f)) \in Nat
         /\ \A t \in In(f) : f[t] \in 1..Cardinality(In(f))
         /\ \A k \in 1..Cardinality(In(f)) : \E t \in In(f) : f[t] = k
         /\ \A t, u \in In(f) : f[t] = f[u] => t = u
<1> DEFINE n == Cardinality(In(f))
           g == [t \in In(f) |-> f[t]]
<1>1. IsFiniteSet(Timers) /\ Cardinality(Timers) \in Nat
  BY TimerAssumption, FS_CardinalityType
<1>2. f \in [Timers -> Nat] /\ {f[t] : t \in In(f)} = 1..n
  BY <1>1 DEF Numbering
<1>3. In(f) \in SUBSET Timers
  BY DEF In
<1>4. IsFiniteSet(In(f)) /\ n \in Nat
  BY <1>1, <1>3, FS_Subset, FS_CardinalityType
<1> HIDE DEF n
<1>5. /\ \A t \in In(f) : f[t] \in 1..n
      /\ \A k \in 1..n : \E t \in In(f) : f[t] = k
  BY <1>2
<1>6. g \in Surjection(In(f), 1..n)
  BY <1>5 DEF Surjection
<1>7. Cardinality(1..n) = Cardinality(In(f))
  BY <1>4, FS_Interval DEF n
<1>8. g \in Injection(In(f), 1..n)
  BY <1>4, <1>6, <1>7, FS_SurjSameCardinalityImpliesInj
<1>9. \A t, u \in In(f) : f[t] = f[u] => t = u
  BY <1>8 DEF Injection, IsInjective
<1> QED
  BY <1>2, <1>4, <1>5, <1>9 DEF n

LEMMA NumberingFrom ==
  ASSUME NEW f \in [Timers -> Nat], NEW n \in Nat, Cardinality(In(f)) = n,
         \A t \in In(f) : f[t] <= n,
         \A k \in 1..n : \E t \in In(f) : f[t] = k
  PROVE  Numbering(f)
<1>1. IsFiniteSet(Timers) /\ Cardinality(Timers) \in Nat
  BY TimerAssumption, FS_CardinalityType
<1>2. In(f) \in SUBSET Timers
  BY DEF In
<1>3. n <= Cardinality(Timers)
  BY <1>1, <1>2, FS_Subset
<1>4. \A t \in In(f) : f[t] \in 1..n
  BY DEF In
<1>5. {f[t] : t \in In(f)} = 1..n
  BY <1>4
<1>6. f \in [Timers -> 0..Cardinality(Timers)]
  <2>1. \A t \in Timers : f[t] \in 0..Cardinality(Timers)
    BY <1>1, <1>3, <1>4 DEF In
  <2> QED
    BY <2>1
<1> QED
  BY <1>5, <1>6 DEF Numbering

(* A removal keeps the others in their order.                              *)
LEMMA RemovedNumbering ==
  ASSUME NEW f, Numbering(f), NEW t \in Timers
  PROVE  LET g == Removed(f, t) IN
         /\ Numbering(g) /\ In(g) = In(f) \ {t}
         /\ \A u, v \in In(g) : g[u] < g[v] <=> f[u] < f[v]
<1> DEFINE g == Removed(f, t)
           n == Cardinality(In(f))
<1>1. /\ f \in [Timers -> Nat] /\ IsFiniteSet(In(f)) /\ n \in Nat
      /\ \A u \in In(f) : f[u] \in 1..n
      /\ \A k \in 1..n : \E u \in In(f) : f[u] = k
      /\ \A u, v \in In(f) : f[u] = f[v] => u = v
  BY NumberingFacts
<1>2. g \in [Timers -> Nat] /\ In(g) = In(f) \ {t}
  BY <1>1, RemovedFacts
<1>3. Cardinality(In(g)) = IF t \in In(f) THEN n - 1 ELSE n
  BY <1>1, <1>2, FS_RemoveElement
<1> HIDE DEF n
<1>4. CASE t \notin In(f)
  <2>1. f[t] = 0 /\ g = f
    BY <1>1, <1>4 DEF Removed, In
  <2> QED
    BY <1>2, <2>1
<1>5. CASE t \in In(f)
  <2>1. \A u \in In(g) : /\ u \in In(f) /\ f[u] # f[t]
                         /\ g[u] = IF f[u] > f[t] THEN f[u] - 1 ELSE f[u]
    BY <1>1, <1>2, <1>5 DEF Removed, In
  <2> HIDE DEF g
  <2>2. \A u, v \in In(g) : g[u] < g[v] <=> f[u] < f[v]
    BY <1>1, <1>5, <2>1
  <2>3. n \in Nat \ {0} /\ Cardinality(In(g)) = n - 1
    BY <1>1, <1>3, <1>5
  <2>4. \A u \in In(g) : g[u] <= n - 1
    BY <1>1, <1>5, <2>1
  <2>5. ASSUME NEW k \in 1..n - 1 PROVE \E u \in In(g) : g[u] = k
    <3>1. CASE k < f[t]
      <4>1. PICK u \in In(f) : f[u] = k
        BY <1>1, <2>3
      <4>2. u \in In(g)
        BY <1>2, <3>1, <4>1
      <4> QED
        BY <1>1, <1>5, <2>1, <3>1, <4>1, <4>2
    <3>2. CASE ~(k < f[t])
      <4>1. PICK u \in In(f) : f[u] = k + 1
        BY <1>1, <2>3
      <4>2. u \in In(g)
        BY <1>1, <1>2, <1>5, <3>2, <4>1
      <4> QED
        BY <1>1, <1>5, <2>1, <3>2, <4>1, <4>2
    <3> QED
      BY <3>1, <3>2
  <2>6. Numbering(g)
    <3>1. n - 1 \in Nat
      BY <2>3
    <3> QED
      BY <1>2, <2>3, <2>4, <2>5, <3>1, NumberingFrom
  <2> QED
    BY <1>2, <2>2, <2>6 DEF g
<1> QED
  BY <1>4, <1>5

(* An insertion keeps the others in their order, too.                      *)
LEMMA InsertedAtNumbering ==
  ASSUME NEW f, Numbering(f), NEW t \in Timers, t \notin In(f),
         NEW i \in 1..Cardinality(In(f)) + 1
  PROVE  LET g == InsertedAt(f, i, t) IN
         /\ Numbering(g) /\ In(g) = In(f) \cup {t}
         /\ \A u, v \in In(f) : g[u] < g[v] <=> f[u] < f[v]
         /\ \A u \in In(f) : /\ g[u] < g[t] <=> f[u] < i
                             /\ g[t] < g[u] <=> ~(f[u] < i)
<1> DEFINE g == InsertedAt(f, i, t)
           n == Cardinality(In(f))
<1>1. /\ f \in [Timers -> Nat] /\ IsFiniteSet(In(f)) /\ n \in Nat
      /\ \A u \in In(f) : f[u] \in 1..n
      /\ \A k \in 1..n : \E u \in In(f) : f[u] = k
      /\ \A u, v \in In(f) : f[u] = f[v] => u = v
  BY NumberingFacts
<1>2. g \in [Timers -> Nat] /\ In(g) = In(f) \cup {t}
  BY <1>1 DEF InsertedAt, In
<1>3. Cardinality(In(g)) = n + 1
  BY <1>1, <1>2, FS_AddElement
<1>4. i \in 1..n + 1
  OBVIOUS
<1> HIDE DEF n
<1>5. /\ g[t] = i
      /\ \A u \in In(f) : g[u] = IF f[u] >= i THEN f[u] + 1 ELSE f[u]
  BY <1>1 DEF InsertedAt, In
<1> HIDE DEF g
<1>6. /\ \A u, v \in In(f) : g[u] < g[v] <=> f[u] < f[v]
      /\ \A u \in In(f) : /\ g[u] < g[t] <=> f[u] < i
                          /\ g[t] < g[u] <=> ~(f[u] < i)
  BY <1>1, <1>4, <1>5
<1>7. \A u \in In(g) : g[u] <= n + 1
  BY <1>1, <1>2, <1>4, <1>5
<1>8. ASSUME NEW k \in 1..n + 1 PROVE \E u \in In(g) : g[u] = k
  <2>1. CASE k = i
    BY <1>2, <1>5, <2>1
  <2>2. CASE k < i
    <3>1. PICK u \in In(f) : f[u] = k
      BY <1>1, <1>4, <2>2
    <3> QED
      BY <1>1, <1>2, <1>4, <1>5, <2>2, <3>1
  <2>3. CASE i < k
    <3>1. PICK u \in In(f) : f[u] = k - 1
      BY <1>1, <1>4, <2>3
    <3> QED
      BY <1>1, <1>2, <1>4, <1>5, <2>3, <3>1
  <2> QED
    BY <1>1, <1>4, <2>1, <2>2, <2>3
<1>9. Numbering(g)
  <2>1. n + 1 \in Nat
    BY <1>1
  <2> QED
    BY <1>2, <1>3, <1>7, <1>8, <2>1, NumberingFrom
<1> QED
  BY <1>2, <1>6, <1>9 DEF g

(* The timers that rt_timer_start passes are the first of the list: as     *)
(* many as it counts.                                                      *)
LEMMA SlotFacts ==
  ASSUME NEW f, Numbering(f), NEW to, NEW t
  PROVE  /\ Slot(f, to, t) \in 1..Cardinality(In(f)) + 1
         /\ \A u \in In(f) : f[u] < Slot(f, to, t) <=>
              \A v \in In(f) : Later(to, v, t) => f[u] < f[v]
<1> DEFINE n == Cardinality(In(f))
           P == {u \in In(f) : \A v \in In(f) : Later(to, v, t) => f[u] < f[v]}
           c == Cardinality(P)
<1>1. /\ f \in [Timers -> Nat] /\ IsFiniteSet(In(f)) /\ n \in Nat
      /\ \A u \in In(f) : f[u] \in 1..n
      /\ \A k \in 1..n : \E u \in In(f) : f[u] = k
      /\ \A u, v \in In(f) : f[u] = f[v] => u = v
  BY NumberingFacts
<1>2. P \in SUBSET In(f)
  OBVIOUS
<1>3. \A u \in P, v \in In(f) : f[v] <= f[u] => v \in P
  BY <1>1
<1>4. Slot(f, to, t) = 1 + c
  BY DEF Slot
<1> HIDE DEF P
<1>5. IsFiniteSet(P) /\ c \in Nat /\ c <= n
  BY <1>1, <1>2, FS_Subset, FS_CardinalityType
<1>6. ASSUME NEW u \in P PROVE f[u] <= c
  <2> DEFINE m == f[u]
             h == [k \in 1..m |-> CHOOSE v \in P : f[v] = k]
  <2>1. m \in 1..n
    BY <1>1, <1>2
  <2>2. \A k \in 1..m : \E v \in P : f[v] = k
    BY <1>1, <1>2, <1>3, <2>1
  <2>3. \A k \in 1..m : h[k] \in P /\ f[h[k]] = k
    BY <2>2
  <2> HIDE DEF h, m
  <2>4. DOMAIN h = 1..m
    BY DEF h
  <2>5. h \in [1..m -> P]
    BY <2>3, <2>4 DEF h
  <2>6. h \in Injection(1..m, P)
    BY <2>3, <2>5 DEF Injection, IsInjective
  <2>7. Cardinality(1..m) <= c
    BY <1>5, <2>6, FS_Injection
  <2>8. Cardinality(1..m) = m
    BY <1>1, <2>1, FS_Interval
  <2> QED
    BY <2>7, <2>8 DEF m
<1>7. ASSUME NEW u \in In(f) \ P PROVE c < f[u]
  <2> DEFINE m == f[u] - 1
             h == [v \in P |-> f[v]]
  <2>1. f[u] \in 1..n /\ m \in Nat /\ m = f[u] - 1
    BY <1>1
  <2> HIDE DEF m
  <2>2. \A v \in P : f[v] \in 1..m
    BY <1>1, <1>2, <1>3, <2>1
  <2>3. h \in [P -> 1..m]
    BY <2>2
  <2>4. h \in Injection(P, 1..m)
    BY <1>1, <1>2, <2>3 DEF Injection, IsInjective
  <2>5. IsFiniteSet(1..m) /\ Cardinality(1..m) = m
    <3>1. m \in Nat
      BY <2>1
    <3> QED
      BY ONLY <3>1, FS_Interval
  <2>6. c <= m
    BY <2>4, <2>5, FS_Injection
  <2> QED
    BY <1>5, <2>1, <2>6
<1>8. \A u \in In(f) : f[u] < 1 + c <=> u \in P
  BY <1>1, <1>5, <1>6, <1>7
<1> QED
  BY <1>1, <1>4, <1>5, <1>8 DEF P

-----------------------------------------------------------------------------
(* The order of the list                                                   *)

(* f is the list, a the arrivals, lf what is left of every timer in it.    *)
InOrder(f, a, lf) ==
  /\ Numbering(f) /\ Numbering(a) /\ In(a) = In(f)
  /\ \A t, u \in In(f) :
       /\ f[t] < f[u] => lf[t] <= lf[u]
       /\ lf[t] = lf[u] /\ a[t] < a[u] => f[t] < f[u]

LEMMA OrderFrame ==
  ASSUME NEW f, NEW a, NEW lf, NEW lg, InOrder(f, a, lf),
         \A t \in In(f) : lg[t] = lf[t]
  PROVE  InOrder(f, a, lg)
  BY DEF InOrder

LEMMA RemovedOrder ==
  ASSUME NEW f, NEW a, NEW lf, InOrder(f, a, lf), NEW t \in Timers
  PROVE  /\ InOrder(Removed(f, t), Removed(a, t), lf)
         /\ In(Removed(f, t)) = In(f) \ {t}
<1> DEFINE g == Removed(f, t)
           b == Removed(a, t)
<1>1. /\ Numbering(g) /\ In(g) = In(f) \ {t}
      /\ \A u, v \in In(g) : g[u] < g[v] <=> f[u] < f[v]
  BY RemovedNumbering DEF InOrder
<1>2. /\ Numbering(b) /\ In(b) = In(a) \ {t}
      /\ \A u, v \in In(b) : b[u] < b[v] <=> a[u] < a[v]
  BY RemovedNumbering DEF InOrder
<1>3. In(b) = In(g)
  BY <1>1, <1>2 DEF InOrder
<1> HIDE DEF g, b
<1>4. InOrder(g, b, lf)
  BY <1>1, <1>2, <1>3 DEF InOrder
<1> QED
  BY <1>1, <1>4 DEF g, b

(* The loop of rt_timer_start finds the place behind those that are due no *)
(* later, the last to arrive behind the earlier ones.                      *)
LEMMA InsertedOrder ==
  ASSUME NEW f, NEW a, NEW lf \in [Timers -> Int], InOrder(f, a, lf),
         NEW t \in Timers, t \notin In(f), NEW to,
         \A v \in In(f) : Later(to, v, t) <=> lf[v] > lf[t]
  PROVE  /\ InOrder(Inserted(f, to, t), Appended(a, t), lf)
         /\ In(Inserted(f, to, t)) = In(f) \cup {t}
<1> DEFINE i == Slot(f, to, t)
           g == InsertedAt(f, i, t)
           b == Appended(a, t)
<1>1. /\ f \in [Timers -> Nat] /\ a \in [Timers -> Nat]
      /\ \A u, v \in In(f) : f[u] = f[v] => u = v
      /\ Cardinality(In(a)) \in Nat
      /\ \A u \in In(a) : a[u] \in 1..Cardinality(In(a))
      /\ In(a) = In(f) /\ Numbering(f) /\ Numbering(a)
      /\ \A u \in In(f) : u \in Timers
  BY NumberingFacts DEF InOrder, In
<1>2. /\ i \in 1..Cardinality(In(f)) + 1
      /\ \A u \in In(f) : f[u] < i <=>
           \A v \in In(f) : Later(to, v, t) => f[u] < f[v]
  BY <1>1, SlotFacts
<1> HIDE DEF i
<1>3. ASSUME NEW u \in In(f) PROVE f[u] < i <=> lf[u] <= lf[t]
  <2>1. CASE lf[u] <= lf[t]
    <3>1. ASSUME NEW v \in In(f), Later(to, v, t) PROVE f[u] < f[v]
      <4>1. lf[v] > lf[u]
        BY <1>1, <2>1, <3>1
      <4>2. ~(f[v] < f[u]) /\ u # v
        BY <1>1, <4>1 DEF InOrder
      <4> QED
        BY <1>1, <4>2
    <3> QED
      BY <1>2, <2>1, <3>1
  <2>2. CASE lf[u] > lf[t]
    <3>1. Later(to, u, t) /\ ~(f[u] < f[u])
      BY <1>1, <2>2
    <3> QED
      BY <1>1, <1>2, <2>2, <3>1
  <2> QED
    BY <1>1, <2>1, <2>2
<1>4. /\ Numbering(g) /\ In(g) = In(f) \cup {t}
      /\ \A u, v \in In(f) : g[u] < g[v] <=> f[u] < f[v]
      /\ \A u \in In(f) : /\ g[u] < g[t] <=> f[u] < i
                          /\ g[t] < g[u] <=> ~(f[u] < i)
  BY <1>1, <1>2, InsertedAtNumbering
<1>5. /\ Numbering(b) /\ In(b) = In(a) \cup {t}
      /\ \A u, v \in In(a) : b[u] < b[v] <=> a[u] < a[v]
      /\ \A u \in In(a) : b[u] < b[t] /\ ~(b[t] < b[u])
  <2> DEFINE j == Cardinality(In(a)) + 1
  <2>1. j \in 1..Cardinality(In(a)) + 1 /\ \A u \in In(a) : a[u] < j
    BY <1>1
  <2>2. b = InsertedAt(a, j, t)
    BY DEF Appended
  <2> HIDE DEF j, b
  <2> QED
    BY <1>1, <2>1, <2>2, InsertedAtNumbering
<1>6. ~(g[t] < g[t]) /\ ~(b[t] < b[t])
  BY <1>4, <1>5, NumberingFacts
<1> HIDE DEF g, b
<1>7. ASSUME NEW u \in In(f) \cup {t}, NEW v \in In(f) \cup {t}
      PROVE  /\ g[u] < g[v] => lf[u] <= lf[v]
             /\ lf[u] = lf[v] /\ b[u] < b[v] => g[u] < g[v]
  <2>1. CASE u \in In(f) /\ v \in In(f)
    BY <1>1, <1>4, <1>5, <2>1 DEF InOrder
  <2>2. CASE u \in In(f) /\ v = t
    BY <1>1, <1>3, <1>4, <1>5, <2>2
  <2>3. CASE u = t /\ v \in In(f)
    BY <1>1, <1>3, <1>4, <1>5, <2>3
  <2>4. CASE u = t /\ v = t
    BY <1>6, <2>4
  <2> QED
    BY <2>1, <2>2, <2>3, <2>4
<1>8. InOrder(g, b, lf)
  BY <1>1, <1>4, <1>5, <1>7 DEF InOrder
<1>9. g = Inserted(f, to, t)
  BY DEF g, i, Inserted
<1> QED
  BY <1>4, <1>8, <1>9 DEF b

-----------------------------------------------------------------------------
(* The tick and the deadlines                                              *)

Modulus == TickMax + 1

LEMMA HalfFacts ==
  /\ TickMax \in Nat /\ MaxLate \in Nat /\ Half \in Nat
  /\ 2 * Half <= TickMax /\ TickMax <= 2 * Half + 1
<1>1. TickMax \in Nat /\ MaxLate \in Nat
  BY TimerAssumption
<1> QED
  BY <1>1 DEF Half

LEMMA WrapFacts ==
  ASSUME NEW x \in Int
  PROVE  /\ Wrap(x) \in 0..TickMax
         /\ 0 <= x /\ x < Modulus => Wrap(x) = x
         /\ Modulus <= x /\ x < 2 * Modulus => Wrap(x) = x - Modulus
         /\ -Modulus <= x /\ x < 0 => Wrap(x) = x + Modulus
<1> DEFINE m == TickMax + 1
<1>1. m \in Nat \ {0}
  BY HalfFacts
<1>2. m = TickMax + 1 /\ TickMax \in Nat
  BY HalfFacts
<1> HIDE DEF m
<1>3. x % m \in 0..m - 1
  BY <1>1
<1>4. 0 <= x /\ x < m => x % m = x
  BY <1>1
<1>5. m <= x /\ x < 2 * m => x % m = x - m
  BY <1>1
<1>6. -m <= x /\ x < 0 => x % m = x + m
  BY <1>1
<1> QED
  BY <1>2, <1>3, <1>4, <1>5, <1>6 DEF Wrap, Modulus, m

(* The difference of two ticks, taken to be the nearest one.               *)
Nearest(d) ==
  IF d > Half THEN d - Modulus ELSE IF d + Modulus <= Half THEN d + Modulus ELSE d

LEMMA NearestFacts ==
  ASSUME NEW d \in (-TickMax)..TickMax
  PROVE  /\ Nearest(d) \in (Half - TickMax)..Half
         /\ Nearest(d) = LET w == Wrap(d)
                         IN IF w <= Half THEN w ELSE w - (TickMax + 1)
<1>1. d \in Int /\ -TickMax <= d /\ d <= TickMax
  BY HalfFacts
<1>2. Wrap(d) = IF d < 0 THEN d + Modulus ELSE d
  BY <1>1, HalfFacts, WrapFacts DEF Modulus
<1> QED
  BY <1>1, <1>2, HalfFacts DEF Nearest, Modulus

LEMMA NearestLater ==
  ASSUME NEW a \in 0..TickMax, NEW b \in 0..TickMax, NEW k \in 0..TickMax,
         Nearest(a - k) - Nearest(b - k) < Half,
         Nearest(b - k) - Nearest(a - k) < Half
  PROVE  Wrap(a - b) # 0 /\ Wrap(a - b) < Half <=> Nearest(a - k) > Nearest(b - k)
<1>1. Wrap(a - b) = IF a < b THEN a - b + Modulus ELSE a - b
  BY HalfFacts, WrapFacts DEF Modulus
<1> QED
  BY <1>1, HalfFacts DEF Nearest, Modulus

(* What expired lately has no time left.                                   *)
LEMMA NearestExpired ==
  ASSUME NEW a \in 0..TickMax, NEW k \in 0..TickMax, Nearest(a - k) > -Half
  PROVE  Wrap(k - a) < Half <=> Nearest(a - k) <= 0
<1>1. Wrap(k - a) = IF k < a THEN k - a + Modulus ELSE k - a
  BY HalfFacts, WrapFacts DEF Modulus
<1> QED
  BY <1>1, HalfFacts DEF Nearest, Modulus

(* A tick takes one from what is left, also where the tick wraps around.   *)
LEMMA NearestTick ==
  ASSUME NEW a \in 0..TickMax, NEW k \in 0..TickMax,
         Nearest(a - k) > Half - TickMax
  PROVE  /\ Wrap(k + 1) \in 0..TickMax
         /\ Nearest(a - Wrap(k + 1)) = Nearest(a - k) - 1
<1>1. Wrap(k + 1) = IF k = TickMax THEN 0 ELSE k + 1
  BY HalfFacts, WrapFacts DEF Modulus
<1> QED
  BY <1>1, HalfFacts DEF Nearest, Modulus

(* A timeout that is computed now is as far as the delay says.             *)
LEMMA NearestStamp ==
  ASSUME NEW d \in Nat, d <= Half, NEW k \in 0..TickMax
  PROVE  /\ Wrap(k + d) \in 0..TickMax
         /\ Nearest(Wrap(k + d) - k) = d
<1>1. Wrap(k + d) = IF k + d > TickMax THEN k + d - Modulus ELSE k + d
  BY HalfFacts, WrapFacts DEF Modulus
<1> QED
  BY <1>1, HalfFacts DEF Nearest, Modulus

-----------------------------------------------------------------------------
(* The inductive invariant of the list                                     *)

Lefts == [t \in Timers |-> Left(t)]

TickTypes ==
  /\ tick \in 0..TickMax
  /\ timeout_tick \in [Timers -> 0..TickMax]
  /\ init_tick \in [Timers -> Delays]

(* The time that is left is never more than a delay, and it is over by no  *)
(* more than a thread may be late, or one tick more while the tick has not *)
(* been looked at: so what is left of two timers compares as their timeout *)
(* ticks do, although these wrap around.                                   *)
InTime(x, late) == -late <= x /\ \E d \in Delays : x <= d

Deadlines ==
  /\ \A t \in Listed : /\ InTime(Left(t), MaxLate + 1)
                       /\ isr = "off" => InTime(Left(t), MaxLate)
  /\ \A th \in Threads :
       pc[th] = "stamped" => InTime(Left(on[th]), MaxLate)

ClockInv == TickTypes /\ InOrder(place, arrival, Lefts) /\ Deadlines

LEMMA InTimeFacts ==
  ASSUME NEW x \in Int, InTime(x, MaxLate + 1)
  PROVE  /\ -Half < x /\ x < Half /\ Half - TickMax < x
         /\ \A y \in Int : InTime(y, MaxLate + 1) => x - y < Half
<1>1. PICK d \in Delays : x <= d /\ -(MaxLate + 1) <= x
  BY DEF InTime
<1>2. d \in Nat /\ d + MaxLate + 1 < Half
  BY TimerAssumption
<1>3. \A y \in Int : InTime(y, MaxLate + 1) => -(MaxLate + 1) <= y
  BY DEF InTime
<1> QED
  BY <1>1, <1>2, <1>3, HalfFacts

LEMMA InTimeLess ==
  ASSUME NEW x \in Int, InTime(x, MaxLate)
  PROVE  InTime(x, MaxLate + 1)
  BY HalfFacts DEF InTime

LEMMA LeftFacts ==
  ASSUME NEW t \in Timers
  PROVE  /\ TickTypes => /\ Left(t) = Nearest(timeout_tick[t] - tick)
                         /\ Left(t) \in (Half - TickMax)..Half /\ Left(t) \in Int
         /\ TickTypes' => /\ Left(t)' = Nearest(timeout_tick'[t] - tick')
                          /\ Left(t)' \in (Half - TickMax)..Half /\ Left(t)' \in Int
<1>1. ASSUME TickTypes
      PROVE  /\ Left(t) = Nearest(timeout_tick[t] - tick)
             /\ Left(t) \in (Half - TickMax)..Half /\ Left(t) \in Int
  <2>1. timeout_tick[t] - tick \in (-TickMax)..TickMax
    BY <1>1, HalfFacts DEF TickTypes
  <2> QED
    BY <2>1, NearestFacts, HalfFacts DEF Left
<1>2. ASSUME TickTypes'
      PROVE  /\ Left(t)' = Nearest(timeout_tick'[t] - tick')
             /\ Left(t)' \in (Half - TickMax)..Half /\ Left(t)' \in Int
  <2>1. timeout_tick'[t] - tick' \in (-TickMax)..TickMax
    BY <1>2, HalfFacts DEF TickTypes
  <2> QED
    BY <2>1, NearestFacts, HalfFacts DEF Left
<1> QED
  BY <1>1, <1>2

(* What the steps do to the list                                           *)
Keeps == /\ Listed' = Listed
         /\ \A u \in Listed : Left(u)' = Left(u)

Others(t) == \A u \in Timers : u # t => Left(u)' = Left(u)

Drops(t) == Listed' = Listed \ {t} /\ Others(t)

Adds(t) == /\ Listed' = Listed \cup {t} /\ Others(t)
           /\ InTime(Left(t)', MaxLate)

LEMMA OthersFacts ==
  ASSUME NEW t \in Timers, tick' = tick,
         \A u \in Timers : u # t => timeout_tick'[u] = timeout_tick[u]
  PROVE  Others(t)
  BY DEF Others, Left

(* A timer is taken out of the list, or was not in it.                     *)
LEMMA TakeMove ==
  ASSUME InOrder(place, arrival, Lefts), NEW t \in Timers, Others(t),
         place' = Removed(place, t), arrival' = Removed(arrival, t)
  PROVE  InOrder(place', arrival', Lefts') /\ Drops(t)
<1>1. InOrder(place', arrival', Lefts) /\ In(place') = In(place) \ {t}
  BY RemovedOrder
<1>2. Listed' = Listed \ {t}
  BY <1>1 DEF Listed, In
<1>3. \A u \in In(place') : Lefts'[u] = Lefts[u]
  BY <1>1 DEF Lefts, Others, In
<1>4. InOrder(place', arrival', Lefts')
  BY <1>1, <1>3, OrderFrame
<1> QED
  BY <1>2, <1>4 DEF Drops

(* A timer is inserted into a list f that it is not in.                    *)
LEMMA PutMove ==
  ASSUME TickTypes, TickTypes', NEW f, NEW a, InOrder(f, a, Lefts),
         NEW t \in Timers, t \notin In(f), tick' = tick,
         \A u \in Timers : u # t => timeout_tick'[u] = timeout_tick[u],
         \A u \in In(f) : InTime(Left(u), MaxLate + 1),
         InTime(Left(t)', MaxLate + 1),
         place' = Inserted(f, timeout_tick', t), arrival' = Appended(a, t)
  PROVE  /\ InOrder(place', arrival', Lefts')
         /\ Listed' = In(f) \cup {t} /\ Others(t)
<1>1. Others(t)
  BY OthersFacts
<1>2. \A u \in In(f) : u \in Timers /\ u # t /\ Left(u)' = Left(u)
  BY <1>1 DEF Others, In
<1> DEFINE lf == Lefts'
<1>3. lf \in [Timers -> Int] /\ \A u \in Timers : lf[u] = Left(u)'
  BY LeftFacts DEF Lefts
<1>4. \A u \in In(f) : lf[u] = Lefts[u]
  BY <1>2, <1>3 DEF Lefts
<1> HIDE DEF lf
<1>5. InOrder(f, a, lf)
  BY <1>4, OrderFrame
<1>6. ASSUME NEW v \in In(f) PROVE Later(timeout_tick', v, t) <=> lf[v] > lf[t]
  <2>1. /\ timeout_tick'[v] \in 0..TickMax /\ timeout_tick'[t] \in 0..TickMax
        /\ tick' \in 0..TickMax
    BY <1>2 DEF TickTypes
  <2>2. /\ Left(v)' = Nearest(timeout_tick'[v] - tick')
        /\ Left(t)' = Nearest(timeout_tick'[t] - tick')
        /\ Left(v)' \in Int /\ Left(t)' \in Int
    BY <1>2, LeftFacts
  <2>3. InTime(Left(v)', MaxLate + 1)
    BY <1>2
  <2>4. Left(v)' - Left(t)' < Half /\ Left(t)' - Left(v)' < Half
    BY <2>2, <2>3, InTimeFacts
  <2> QED
    BY <1>2, <1>3, <2>1, <2>2, <2>4, NearestLater DEF Later
<1>7. InOrder(place', arrival', lf) /\ In(place') = In(f) \cup {t}
  BY <1>3, <1>5, <1>6, InsertedOrder
<1> QED
  BY <1>1, <1>7 DEF lf, Listed, In

(* rt_timer_start where nothing comes in between                           *)
LEMMA StartNowMove ==
  ASSUME TickTypes, TickTypes', InOrder(place, arrival, Lefts), Deadlines,
         NEW t \in Timers, tick' = tick, StartNow(t)
  PROVE  InOrder(place', arrival', Lefts') /\ Adds(t)
<1> DEFINE f == Removed(place, t)
           a == Removed(arrival, t)
<1>1. InOrder(f, a, Lefts) /\ In(f) = Listed \ {t}
  BY RemovedOrder DEF Listed
<1>2. /\ timeout_tick' = [timeout_tick EXCEPT ![t] = Wrap(tick + init_tick[t])]
      /\ place' = Inserted(f, timeout_tick', t) /\ arrival' = Appended(a, t)
  BY DEF StartNow, Deadline
<1> HIDE DEF f, a
<1>3. init_tick[t] \in Delays /\ init_tick[t] \in Nat /\ init_tick[t] <= Half
  <2>1. init_tick[t] \in Delays
    BY DEF TickTypes
  <2>2. init_tick[t] \in Nat /\ init_tick[t] + MaxLate + 1 < Half
    BY <2>1, TimerAssumption
  <2> QED
    BY <2>1, <2>2, HalfFacts
<1>4. Left(t)' = init_tick[t]
  <2>1. timeout_tick'[t] = Wrap(tick + init_tick[t]) /\ tick \in 0..TickMax
    BY <1>2 DEF TickTypes
  <2>2. Nearest(Wrap(tick + init_tick[t]) - tick) = init_tick[t]
    BY <1>3, <2>1, NearestStamp
  <2> QED
    BY <2>1, <2>2, LeftFacts
<1>5. InTime(Left(t)', MaxLate)
  BY <1>3, <1>4, HalfFacts DEF InTime
<1>6. InTime(Left(t)', MaxLate + 1)
  BY <1>3, <1>4, <1>5, InTimeLess
<1>7. /\ \A u \in Timers : u # t => timeout_tick'[u] = timeout_tick[u]
      /\ \A u \in In(f) : InTime(Left(u), MaxLate + 1)
      /\ t \notin In(f)
  BY <1>1, <1>2 DEF TickTypes, Deadlines
<1>8. /\ InOrder(place', arrival', Lefts')
      /\ Listed' = In(f) \cup {t} /\ Others(t)
  BY <1>1, <1>2, <1>6, <1>7, PutMove
<1>9. t \in Timers /\ (Listed \ {t}) \cup {t} = Listed \cup {t}
  OBVIOUS
<1> QED
  BY <1>1, <1>5, <1>8, <1>9 DEF Adds

LEMMA StopNowMove ==
  ASSUME TickTypes, InOrder(place, arrival, Lefts), NEW t \in Timers,
         tick' = tick, t \in active, StopNow(t)
  PROVE  InOrder(place', arrival', Lefts') /\ Drops(t)
<1>1. Others(t)
  BY OthersFacts DEF StopNow, Forgotten, TickTypes
<1> QED
  BY <1>1, TakeMove DEF StopNow

LEMMA KeepMove ==
  ASSUME InOrder(place, arrival, Lefts), UNCHANGED lists,
         \A u \in Listed : Left(u)' = Left(u)
  PROVE  InOrder(place', arrival', Lefts') /\ Keeps
<1>1. place' = place /\ arrival' = arrival /\ Listed' = Listed
  BY DEF lists, Listed, In
<1>2. \A u \in In(place) : Lefts'[u] = Lefts[u]
  BY DEF Lefts, Listed, In
<1> QED
  BY <1>1, <1>2, OrderFrame DEF Keeps

(* The deadlines after a step that concerns one timer                      *)
LEMMA DeadlinesAfter ==
  ASSUME Deadlines, TickTypes', NEW t \in Timers, Adds(t) \/ Drops(t),
         isr' = "off" => isr = "off",
         \A th \in Threads : pc'[th] = "stamped" =>
           /\ pc[th] = "stamped" /\ on'[th] = on[th]
           /\ on[th] \in Timers /\ on[th] # t
  PROVE  Deadlines'
<1>1. \A u \in Listed' : u # t =>
        u \in Listed /\ u \in Timers /\ Left(u)' = Left(u)
  BY DEF Adds, Drops, Others, Listed, In
<1>2. t \in Listed' => InTime(Left(t)', MaxLate) /\ InTime(Left(t)', MaxLate + 1)
  <2>1. Left(t)' \in Int
    BY LeftFacts
  <2> QED
    BY <2>1, InTimeLess DEF Adds, Drops
<1>3. ASSUME NEW th \in Threads, pc'[th] = "stamped"
      PROVE  InTime(Left(on[th]), MaxLate)'
  <2>1. PICK s \in Timers : s = on[th] /\ on'[th] = s /\ s # t
    BY <1>3
  <2>2. Left(on[th]) = Left(s) /\ Left(on[th])' = Left(s)'
    BY <2>1 DEF Left
  <2>3. InTime(Left(s), MaxLate)
    BY <1>3, <2>2 DEF Deadlines
  <2>4. Left(s)' = Left(s)
    BY <2>1 DEF Adds, Drops, Others
  <2> QED
    BY <2>2, <2>3, <2>4 DEF InTime
<1>4. \A u \in Listed' : /\ InTime(Left(u)', MaxLate + 1)
                         /\ isr' = "off" => InTime(Left(u)', MaxLate)
  BY <1>1, <1>2 DEF Deadlines
<1> QED
  BY <1>3, <1>4 DEF Deadlines, InTime

(* The deadlines after a step that leaves the list alone                   *)
LEMMA DeadlinesKept ==
  ASSUME Deadlines, Keeps, isr' = "off" => isr = "off", tick' = tick,
         \A th \in Threads : pc'[th] = "stamped" =>
           /\ pc[th] = "stamped" /\ on'[th] = on[th]
           /\ timeout_tick'[on[th]] = timeout_tick[on[th]]
  PROVE  Deadlines'
<1>1. ASSUME NEW th \in Threads, pc'[th] = "stamped"
      PROVE  InTime(Left(on[th]), MaxLate)'
  <2>1. Left(on[th])' = Left(on[th])
    BY <1>1 DEF Left
  <2> QED
    BY <1>1, <2>1 DEF Deadlines, InTime
<1>2. \A u \in Listed' : /\ InTime(Left(u)', MaxLate + 1)
                         /\ isr' = "off" => InTime(Left(u)', MaxLate)
  BY DEF Deadlines, Keeps
<1> QED
  BY <1>1, <1>2 DEF Deadlines, InTime

-----------------------------------------------------------------------------
(* Every step keeps the list in order                                      *)

ListStep == Keeps \/ \E t \in Timers : Adds(t) \/ Drops(t)

LEMMA CallFacts ==
  ASSUME OneCaller, TimerInv, NEW th \in Threads, pc[th] # "idle"
  PROVE  /\ on[th] \in Timers /\ on[th] \in Owns[th] /\ on[th] \notin IsrTimers
         /\ \A t \in Timers : on[th] \notin StartedBy[t]
         /\ \A o \in Threads : o # th => on[th] \notin Owns[o]
         /\ pc[th] = "stamped" =>
              on[th] \notin Listed /\ on[th] # firing /\ on[th] \notin active
  BY TimerAssumption DEF TimerInv, Calls, OneCaller

LEMMA ThreadLists ==
  ASSUME OneCaller, TimerInv, ClockInv, NEW th \in Threads,
         Continue(th) \/ \E t \in Timers : StartRemove(th, t) \/ StopTest(th, t)
  PROVE  ClockInv' /\ ListStep /\ isr = "off" /\ isr' = "off"
<1>0. /\ isr = "off" /\ isr' = "off" /\ tick' = tick /\ tick \in 0..TickMax
      /\ init_tick' = init_tick
  BY DEF Continue, StartStamp, StartInsert, StopRemove, StopClear, StartRemove,
         StopTest, clock, ClockInv, TickTypes
<1>1. /\ pc \in [Threads -> {"idle", "removed", "stamped", "stop", "unlisted"}]
      /\ on \in [Threads -> Timers \cup {NoTimer}]
  BY DEF TimerInv, Ranges
<1>2. ASSUME NEW t \in Timers, t \in Owns[th], TickTypes',
             NEW x, x # "stamped", pc' = [pc EXCEPT ![th] = x],
             NEW y, on' = [on EXCEPT ![th] = y],
             Adds(t) \/ Drops(t)
      PROVE  Deadlines'
  <2>1. \A o \in Threads : pc'[o] = "stamped" =>
          /\ pc[o] = "stamped" /\ on'[o] = on[o]
          /\ on[o] \in Timers /\ on[o] # t
    BY <1>1, <1>2, CallFacts
  <2> QED
    BY <1>0, <1>2, <2>1, DeadlinesAfter DEF ClockInv
<1>3. ASSUME NEW x, x # "stamped", pc' = [pc EXCEPT ![th] = x],
             NEW y, on' = [on EXCEPT ![th] = y],
             UNCHANGED lists, UNCHANGED timeout_tick
      PROVE  ClockInv' /\ ListStep
  <2>1. TickTypes'
    BY <1>0, <1>3 DEF ClockInv, TickTypes
  <2>2. InOrder(place', arrival', Lefts') /\ Keeps
    <3>1. \A u \in Listed : Left(u)' = Left(u)
      BY <1>0, <1>3 DEF Left
    <3> QED
      BY <1>3, <3>1, KeepMove DEF ClockInv
  <2>3. Deadlines'
    BY <1>0, <1>1, <1>3, <2>2, DeadlinesKept DEF ClockInv
  <2> QED
    BY <2>1, <2>2, <2>3 DEF ClockInv, ListStep
<1>4. CASE \E t \in Timers : StartRemove(th, t)
  <2>1. PICK t \in Timers : StartRemove(th, t)
    BY <1>4
  <2>2. TickTypes' /\ Others(t)
    BY <1>0, <2>1, HalfFacts, OthersFacts
    DEF StartRemove, Forgotten, ClockInv, TickTypes
  <2>3. InOrder(place', arrival', Lefts') /\ Drops(t)
    BY <2>1, <2>2, TakeMove DEF StartRemove, ClockInv
  <2>4. Deadlines'
    BY <1>2, <2>1, <2>2, <2>3 DEF StartRemove
  <2> QED
    BY <1>0, <2>2, <2>3, <2>4 DEF ClockInv, ListStep
<1>5. CASE \E t \in Timers : StopTest(th, t)
  BY <1>0, <1>3, <1>5 DEF StopTest
<1>6. CASE StartStamp(th)
  <2> DEFINE t == on[th]
             d == init_tick[t]
  <2>1. /\ t \in Timers /\ t \notin Listed /\ pc[th] = "removed"
        /\ \A o \in Threads : pc[o] # "idle" /\ o # th => on[o] # t
    BY <1>6, CallFacts DEF StartStamp, TimerInv, Calls
  <2>2. /\ timeout_tick' = [timeout_tick EXCEPT ![t] = Wrap(tick + d)]
        /\ UNCHANGED lists /\ pc' = [pc EXCEPT ![th] = "stamped"] /\ on' = on
    BY <1>6 DEF StartStamp, Deadline
  <2>3. d \in Delays /\ d \in Nat /\ d <= Half
    <3>1. d \in Delays
      BY <2>1 DEF ClockInv, TickTypes
    <3>2. d \in Nat /\ d + MaxLate + 1 < Half
      BY <3>1, TimerAssumption
    <3> QED
      BY <3>1, <3>2, HalfFacts
  <2>4. /\ Wrap(tick + d) \in 0..TickMax
        /\ Nearest(Wrap(tick + d) - tick) = d
    BY <1>0, <2>3, NearestStamp
  <2>5. t = on[th]
    OBVIOUS
  <2> HIDE DEF d, t
  <2>6. TickTypes'
    BY <1>0, <2>2, <2>4 DEF ClockInv, TickTypes
  <2>7. Others(t)
    BY <1>0, <2>1, <2>2, OthersFacts DEF ClockInv, TickTypes
  <2>8. timeout_tick'[t] = Wrap(tick + d)
    BY <2>1, <2>2 DEF ClockInv, TickTypes
  <2>9. InOrder(place', arrival', Lefts') /\ Keeps
    <3>1. \A u \in Listed : Left(u)' = Left(u)
      BY <2>1, <2>7 DEF Others, Listed, In
    <3> QED
      BY <2>2, <3>1, KeepMove DEF ClockInv
  <2>10. ASSUME NEW o \in Threads, pc'[o] = "stamped"
         PROVE  InTime(Left(on[o]), MaxLate)'
    <3>1. CASE o = th
      <4>1. PICK s \in Timers : s = t
        BY <2>1
      <4>2. Left(s)' = d
        BY <1>0, <2>4, <2>6, <2>8, <4>1, LeftFacts
      <4>3. Left(on[o])' = Left(s)'
        BY <2>2, <2>5, <3>1, <4>1 DEF Left
      <4> QED
        BY <2>3, <4>2, <4>3, HalfFacts DEF InTime
    <3>2. CASE o # th
      <4>1. pc[o] = "stamped" /\ on[o] # t /\ on[o] \in Timers
        BY <1>1, <2>1, <2>2, <2>10, <3>2, CallFacts
      <4>2. Left(on[o])' = Left(on[o])
        BY <1>0, <2>2, <4>1 DEF Left, ClockInv, TickTypes
      <4> QED
        BY <4>1, <4>2 DEF ClockInv, Deadlines, InTime
    <3> QED
      BY <3>1, <3>2
  <2>11. \A u \in Listed' : /\ InTime(Left(u)', MaxLate + 1)
                            /\ isr' = "off" => InTime(Left(u)', MaxLate)
    BY <1>0, <2>9 DEF ClockInv, Deadlines, Keeps
  <2>12. Deadlines'
    BY <2>10, <2>11 DEF Deadlines, InTime
  <2> QED
    BY <1>0, <2>6, <2>9, <2>12 DEF ClockInv, ListStep
<1>7. CASE StartInsert(th)
  <2>1. PICK t \in Timers : t = on[th] /\ t \in Owns[th] /\ t \notin Listed
    BY <1>7, CallFacts DEF StartInsert
  <2>2. /\ place' = Inserted(place, timeout_tick, t)
        /\ arrival' = Appended(arrival, t) /\ timeout_tick' = timeout_tick
        /\ pc[th] = "stamped"
        /\ pc' = [pc EXCEPT ![th] = "idle"] /\ on' = [on EXCEPT ![th] = NoTimer]
    BY <1>7, <2>1 DEF StartInsert
  <2>3. TickTypes'
    BY <1>0, <2>2 DEF ClockInv, TickTypes
  <2>4. InTime(Left(t)', MaxLate) /\ InTime(Left(t)', MaxLate + 1)
    <3>1. Left(t)' = Left(t) /\ Left(t) = Left(on[th])
      BY <1>0, <2>1, <2>2 DEF Left
    <3>2. InTime(Left(t), MaxLate)
      BY <2>2, <3>1 DEF ClockInv, Deadlines
    <3>3. Left(t) \in Int
      BY LeftFacts DEF ClockInv
    <3> QED
      BY <3>1, <3>2, <3>3, InTimeLess
  <2>5. /\ InOrder(place', arrival', Lefts')
        /\ Listed' = Listed \cup {t} /\ Others(t)
    <3>1. \A u \in In(place) : InTime(Left(u), MaxLate + 1)
      BY DEF ClockInv, Deadlines, Listed
    <3>2. place' = Inserted(place, timeout_tick', t) /\ t \notin In(place)
      BY <2>1, <2>2 DEF Listed
    <3> QED
      BY <1>0, <2>2, <2>3, <2>4, <3>1, <3>2, PutMove DEF ClockInv, Listed
  <2>6. Adds(t)
    BY <2>4, <2>5 DEF Adds
  <2>7. Deadlines'
    BY <1>2, <2>1, <2>2, <2>3, <2>6
  <2> QED
    BY <1>0, <2>3, <2>5, <2>6, <2>7 DEF ClockInv, ListStep
<1>8. CASE StopRemove(th)
  <2>1. PICK t \in Timers : t = on[th] /\ t \in Owns[th]
    BY <1>8, CallFacts DEF StopRemove
  <2>2. /\ place' = Removed(place, t) /\ arrival' = Removed(arrival, t)
        /\ timeout_tick' = [timeout_tick EXCEPT ![t] = 0]
        /\ pc' = [pc EXCEPT ![th] = "unlisted"] /\ on' = on
    BY <1>8, <2>1 DEF StopRemove, Forgotten
  <2>3. TickTypes' /\ Others(t)
    BY <1>0, <2>2, HalfFacts, OthersFacts DEF ClockInv, TickTypes
  <2>4. InOrder(place', arrival', Lefts') /\ Drops(t)
    BY <2>2, <2>3, TakeMove DEF ClockInv
  <2>5. on' = [on EXCEPT ![th] = on[th]]
    BY <1>1, <2>2
  <2>6. Deadlines'
    BY <1>2, <2>1, <2>2, <2>3, <2>4, <2>5
  <2> QED
    BY <1>0, <2>3, <2>4, <2>6 DEF ClockInv, ListStep
<1>9. CASE StopClear(th)
  BY <1>0, <1>3, <1>9 DEF StopClear
<1> QED
  BY <1>0, <1>4, <1>5, <1>6, <1>7, <1>8, <1>9 DEF Continue

(* A step in which nothing comes in between: starts, stops or neither.     *)
LEMMA WholeCall ==
  ASSUME ClockInv, NEW t \in Timers, tick' = tick, init_tick' = init_tick,
         UNCHANGED threads, isr' = "off" => isr = "off",
         \A th \in Threads : pc[th] = "stamped" => on[th] \in Timers /\ on[th] # t,
         StartNow(t) \/ StopNow(t) \/ UNCHANGED <<lists, active, timeout_tick>>
  PROVE  ClockInv' /\ (Keeps \/ Adds(t) \/ Drops(t)) /\ (StartNow(t) => Adds(t))
<1>0. /\ tick \in 0..TickMax /\ timeout_tick \in [Timers -> 0..TickMax]
      /\ init_tick \in [Timers -> Delays] /\ pc' = pc /\ on' = on
  BY DEF ClockInv, TickTypes, threads
<1>1. CASE StartNow(t)
  <2>1. Wrap(tick + init_tick[t]) \in 0..TickMax
    <3>1. init_tick[t] \in Delays
      BY <1>0
    <3>2. tick + init_tick[t] \in Int
      BY <1>0, <3>1, TimerAssumption
    <3> QED
      BY <3>2, WrapFacts
  <2>2. TickTypes'
    BY <1>0, <1>1, <2>1 DEF StartNow, Deadline, TickTypes
  <2>3. InOrder(place', arrival', Lefts') /\ Adds(t)
    BY <1>1, <2>2, StartNowMove DEF ClockInv
  <2>4. Deadlines'
    BY <1>0, <2>2, <2>3, DeadlinesAfter DEF ClockInv
  <2> QED
    BY <2>2, <2>3, <2>4 DEF ClockInv
<1>2. CASE t \in active /\ StopNow(t) /\ ~StartNow(t)
  <2>1. TickTypes'
    BY <1>0, <1>2, HalfFacts DEF StopNow, Forgotten, TickTypes
  <2>2. InOrder(place', arrival', Lefts') /\ Drops(t)
    BY <1>2, StopNowMove DEF ClockInv
  <2>3. Deadlines'
    BY <1>0, <2>1, <2>2, DeadlinesAfter DEF ClockInv
  <2> QED
    BY <1>2, <2>1, <2>2, <2>3 DEF ClockInv
<1>3. CASE UNCHANGED <<lists, active, timeout_tick>> /\ ~StartNow(t)
  <2>1. TickTypes'
    BY <1>0, <1>3 DEF TickTypes
  <2>2. InOrder(place', arrival', Lefts') /\ Keeps
    <3>1. \A u \in Listed : Left(u)' = Left(u)
      BY <1>3 DEF Left
    <3> QED
      BY <1>3, <3>1, KeepMove DEF ClockInv
  <2>3. Deadlines'
    BY <1>0, <1>3, <2>2, DeadlinesKept DEF ClockInv
  <2> QED
    BY <1>3, <2>1, <2>2, <2>3 DEF ClockInv
<1>4. StopNow(t) /\ t \notin active => UNCHANGED <<lists, active, timeout_tick>>
  BY DEF StopNow
<1> QED
  BY <1>1, <1>2, <1>3, <1>4

LEMMA IsrLists ==
  ASSUME OneCaller, TimerInv, ClockInv, NEW t \in Timers, IsrStart(t) \/ IsrStop(t)
  PROVE  ClockInv' /\ ListStep /\ isr \in {"off", "tick"} /\ isr' = isr
<1>1. /\ isr \in {"off", "tick"} /\ isr' = isr /\ tick' = tick
      /\ init_tick' = init_tick /\ UNCHANGED threads /\ t \in IsrTimers
      /\ StartNow(t) \/ StopNow(t)
  BY DEF IsrStart, IsrStop, clock
<1>2. \A th \in Threads : pc[th] = "stamped" => on[th] \in Timers /\ on[th] # t
  BY <1>1, CallFacts
<1>3. ClockInv' /\ (Keeps \/ Adds(t) \/ Drops(t))
  BY <1>1, <1>2, WholeCall
<1> QED
  BY <1>1, <1>3 DEF ListStep

LEMMA CallbackLists ==
  ASSUME OneCaller, TimerInv, ClockInv, Callback \/ CheckRestart
  PROVE  /\ ClockInv' /\ isr \in {"callback", "after"} /\ isr' \in {"after", "check"}
         /\ Keeps \/ \E t \in Timers : Adds(t)
<1>1. /\ isr \in {"callback", "after"} /\ isr' \in {"after", "check"}
      /\ tick' = tick /\ init_tick' = init_tick /\ UNCHANGED threads
  BY DEF Callback, CheckRestart
<1>2. firing \in Timers /\ firing \notin Listed
  BY <1>1 DEF TimerInv, Fires
<1>3. \A th \in Threads : pc[th] = "stamped" =>
        /\ on[th] \in Timers /\ on[th] # firing
        /\ \A t \in Timers : on[th] \notin StartedBy[t]
  BY CallFacts
<1>4. ASSUME NEW t \in Timers, StartNow(t),
             \A th \in Threads : pc[th] = "stamped" => on[th] # t
      PROVE  ClockInv' /\ Adds(t)
  BY <1>1, <1>3, <1>4, WholeCall
<1>5. CASE StopNow(firing)
  <2>1. CASE StartNow(firing)
    BY <1>1, <1>2, <1>3, <1>4, <2>1
  <2>2. CASE ~StartNow(firing)
    <3>1. ClockInv' /\ (Keeps \/ Adds(firing) \/ Drops(firing))
      BY <1>1, <1>2, <1>3, <1>5, WholeCall
    <3>2. Drops(firing) => Keeps
      BY <1>2 DEF Drops, Keeps, Others, Listed, In
    <3> QED
      BY <1>1, <1>2, <3>1, <3>2
  <2> QED
    BY <2>1, <2>2
<1>6. ASSUME UNCHANGED <<lists, timeout_tick>>
      PROVE  ClockInv' /\ Keeps
  <2>1. TickTypes'
    BY <1>1, <1>6 DEF ClockInv, TickTypes
  <2>2. InOrder(place', arrival', Lefts') /\ Keeps
    <3>1. \A u \in Listed : Left(u)' = Left(u)
      BY <1>1, <1>6 DEF Left
    <3> QED
      BY <1>6, <3>1, KeepMove DEF ClockInv
  <2>3. Deadlines'
    BY <1>1, <1>6, <2>2, DeadlinesKept DEF ClockInv, threads
  <2> QED
    BY <2>1, <2>2, <2>3 DEF ClockInv
<1>7. CASE Callback
  <2>1. CASE \E t \in StartedBy[firing] : StartNow(t)
    <3>1. PICK t \in StartedBy[firing] : StartNow(t)
      BY <2>1
    <3>2. t \in Timers /\ \A th \in Threads : pc[th] = "stamped" => on[th] # t
      BY <1>2, <1>3, TimerAssumption
    <3> QED
      BY <1>1, <1>4, <3>1, <3>2
  <2> QED
    BY <1>1, <1>5, <1>6, <1>7, <2>1 DEF Callback
<1>8. CASE CheckRestart
  BY <1>1, <1>2, <1>3, <1>4, <1>6, <1>8 DEF CheckRestart
<1> QED
  BY <1>7, <1>8

(* rt_timer_check finds out from the head of the list which timers have    *)
(* expired.                                                                *)
LEMMA HeadFacts ==
  ASSUME ClockInv
  PROVE  /\ \A t \in Listed : Left(t) \in Int /\ (Expired(t) <=> Left(t) <= 0)
         /\ \A t \in Listed : place[t] = 1 => \A u \in Listed : Left(t) <= Left(u)
         /\ Listed # {} => \E t \in Listed : place[t] = 1
<1>1. Numbering(place) /\ \A t \in Listed : t \in Timers
  BY DEF ClockInv, InOrder, Listed, In
<1>2. \A t \in Listed : Left(t) \in Int
  BY <1>1, LeftFacts DEF ClockInv
<1>3. ASSUME NEW t \in Listed PROVE Expired(t) <=> Left(t) <= 0
  <2>1. timeout_tick[t] \in 0..TickMax /\ tick \in 0..TickMax
    BY <1>1 DEF ClockInv, TickTypes
  <2>2. Left(t) = Nearest(timeout_tick[t] - tick) /\ Left(t) > -Half
    <3>1. InTime(Left(t), MaxLate + 1) /\ t \in Timers
      BY <1>1 DEF ClockInv, Deadlines
    <3>2. -Half < Left(t)
      BY <1>2, <3>1, InTimeFacts
    <3> QED
      BY <1>2, <3>1, <3>2, HalfFacts, LeftFacts DEF ClockInv
  <2> QED
    BY <2>1, <2>2, NearestExpired DEF Expired
<1>4. ASSUME NEW t \in Listed, place[t] = 1, NEW u \in Listed
      PROVE  Left(t) <= Left(u)
  <2>1. /\ place[u] \in Nat \ {0}
        /\ place[u] = place[t] => u = t
    BY <1>1, NumberingFacts DEF Listed, In
  <2>2. place[t] < place[u] => Left(t) <= Left(u)
    BY <1>1 DEF ClockInv, InOrder, Lefts, Listed
  <2> QED
    BY <1>2, <1>4, <2>1, <2>2
<1>5. ASSUME NEW u \in Listed PROVE \E t \in Listed : place[t] = 1
  <2> DEFINE n == Cardinality(In(place))
  <2>1. /\ n \in Nat /\ place[u] \in 1..n
        /\ \A k \in 1..n : \E t \in In(place) : place[t] = k
    BY <1>1, NumberingFacts DEF Listed
  <2> HIDE DEF n
  <2>2. 1 \in 1..n
    BY <2>1
  <2> QED
    BY <2>1, <2>2 DEF Listed
<1> QED
  BY <1>2, <1>3, <1>4, <1>5

LEMMA RemoveLists ==
  ASSUME OneCaller, TimerInv, ClockInv, NEW t \in Timers, CheckRemove(t)
  PROVE  /\ ClockInv' /\ Drops(t) /\ t \in Listed
         /\ Left(t) <= 0 /\ \A u \in Listed : Left(t) <= Left(u)
<1>1. t \in Listed /\ place[t] = 1 /\ Expired(t)
  BY DEF CheckRemove, Listed, In
<1>2. Left(t) <= 0 /\ \A u \in Listed : Left(t) <= Left(u)
  BY <1>1, HeadFacts
<1>3. TickTypes' /\ Others(t)
  BY HalfFacts, OthersFacts DEF CheckRemove, Forgotten, ClockInv, TickTypes
<1>4. InOrder(place', arrival', Lefts') /\ Drops(t)
  BY <1>3, TakeMove DEF CheckRemove, ClockInv
<1>5. Deadlines'
  <2>1. \A th \in Threads : pc'[th] = "stamped" =>
          /\ pc[th] = "stamped" /\ on'[th] = on[th]
          /\ on[th] \in Timers /\ on[th] # t
    BY <1>1, CallFacts DEF CheckRemove, threads
  <2> QED
    BY <1>3, <1>4, <2>1, DeadlinesAfter DEF CheckRemove, ClockInv
<1> QED
  BY <1>1, <1>2, <1>3, <1>4, <1>5 DEF ClockInv

(* The check ends when no timer in the list has expired, not only the      *)
(* first.                                                                  *)
LEMMA DoneLists ==
  ASSUME ClockInv, CheckDone
  PROVE  ClockInv' /\ Keeps /\ \A t \in Listed : Left(t) > 0
<1>1. \A t \in Listed : Left(t) \in Int /\ Left(t) > 0
  <2>1. \A t \in Listed : Left(t) \in Int
    BY HeadFacts
  <2>2. ASSUME NEW u \in Listed PROVE Left(u) > 0
    <3>1. PICK t \in Listed : place[t] = 1
      BY HeadFacts
    <3>2. ~Expired(t) /\ Left(t) <= Left(u)
      BY <3>1, HeadFacts DEF CheckDone, Listed, In
    <3> QED
      BY <2>1, <3>2, HeadFacts
  <2> QED
    BY <2>1, <2>2
<1>2. /\ tick' = tick /\ UNCHANGED lists /\ timeout_tick' = timeout_tick
      /\ init_tick' = init_tick /\ pc' = pc /\ on' = on
  BY DEF CheckDone, threads
<1>3. TickTypes'
  BY <1>2 DEF ClockInv, TickTypes
<1>4. InOrder(place', arrival', Lefts') /\ Keeps
  <2>1. \A u \in Listed : Left(u)' = Left(u)
    BY <1>2 DEF Left
  <2> QED
    BY <1>2, <2>1, KeepMove DEF ClockInv
<1>5. Deadlines'
  <2>1. ASSUME NEW th \in Threads, pc'[th] = "stamped"
        PROVE  InTime(Left(on[th]), MaxLate)'
    <3>1. Left(on[th])' = Left(on[th])
      BY <1>2 DEF Left
    <3> QED
      BY <1>2, <2>1, <3>1 DEF ClockInv, Deadlines, InTime
  <2>2. ASSUME NEW u \in Listed'
        PROVE  InTime(Left(u)', MaxLate + 1) /\ InTime(Left(u)', MaxLate)
    <3>1. u \in Listed /\ Left(u)' = Left(u)
      BY <1>4 DEF Keeps
    <3>2. InTime(Left(u), MaxLate + 1) /\ Left(u) > 0 /\ Left(u) \in Int
      BY <1>1, <3>1 DEF ClockInv, Deadlines
    <3> QED
      BY <3>1, <3>2, HalfFacts DEF InTime
  <2> QED
    BY <2>1, <2>2 DEF Deadlines, InTime
<1> QED
  BY <1>1, <1>3, <1>4, <1>5 DEF ClockInv

(* A tick brings every timer one nearer.                                   *)
LEMMA TickLists ==
  ASSUME OneCaller, TimerInv, ClockInv, TickIncrease
  PROVE  /\ ClockInv' /\ Listed' = Listed
         /\ \A t \in Listed : Left(t)' = Left(t) - 1
<1>1. /\ isr = "off" /\ isr' = "tick" /\ tick' = Wrap(tick + 1)
      /\ UNCHANGED lists /\ timeout_tick' = timeout_tick
      /\ init_tick' = init_tick /\ pc' = pc /\ on' = on
      /\ tick \in 0..TickMax /\ timeout_tick \in [Timers -> 0..TickMax]
  BY DEF TickIncrease, threads, ClockInv, TickTypes
<1>2. tick' \in 0..TickMax
  BY <1>1, WrapFacts
<1>3. TickTypes'
  BY <1>1, <1>2 DEF ClockInv, TickTypes
<1>4. ASSUME NEW t \in Timers, InTime(Left(t), MaxLate)
      PROVE  /\ Left(t)' = Left(t) - 1
             /\ InTime(Left(t)', MaxLate + 1)
             /\ Left(t) > -MaxLate => InTime(Left(t)', MaxLate)
  <2>1. /\ Left(t) = Nearest(timeout_tick[t] - tick) /\ Left(t) \in Int
        /\ Left(t)' = Nearest(timeout_tick'[t] - tick')
    BY <1>3, LeftFacts DEF ClockInv
  <2>2. Half - TickMax < Left(t)
    BY <1>4, <2>1, InTimeLess, InTimeFacts
  <2>3. timeout_tick[t] \in 0..TickMax /\ Half - TickMax \in Int
    BY <1>1, HalfFacts
  <2>4. Left(t)' = Left(t) - 1
    BY <1>1, <2>1, <2>2, <2>3, NearestTick
  <2>5. PICK d \in Delays : Left(t) <= d /\ -MaxLate <= Left(t)
    BY <1>4 DEF InTime
  <2>6. d \in Int
    BY TimerAssumption
  <2> QED
    BY <2>1, <2>4, <2>5, <2>6, HalfFacts DEF InTime
<1>5. \A t \in Listed : t \in Timers /\ InTime(Left(t), MaxLate)
  BY <1>1 DEF ClockInv, Deadlines, Listed, In
<1>6. Listed' = Listed
  BY <1>1 DEF lists, Listed, In
<1>7. InOrder(place', arrival', Lefts')
  <2>1. place' = place /\ arrival' = arrival
    BY <1>1 DEF lists
  <2> DEFINE lf == Lefts
             lg == Lefts'
  <2>2. \A u \in In(place) : lg[u] = lf[u] - 1 /\ lf[u] \in Int
    BY <1>4, <1>5, LeftFacts DEF Lefts, ClockInv, Listed
  <2>3. InOrder(place, arrival, lf)
    BY DEF ClockInv
  <2> HIDE DEF lf, lg
  <2>4. InOrder(place, arrival, lg)
    BY <2>2, <2>3 DEF InOrder
  <2> QED
    BY <2>1, <2>4 DEF lg
<1>8. Deadlines'
  <2>1. ASSUME NEW th \in Threads, pc'[th] = "stamped"
        PROVE  InTime(Left(on[th]), MaxLate)'
    <3>1. PICK s \in Timers : s = on[th] /\ pc[th] = "stamped"
      BY <1>1, <2>1, CallFacts
    <3>2. Left(s) = Left(on[th]) /\ Left(on[th])' = Left(s)'
      BY <1>1, <3>1 DEF Left
    <3>3. Left(s) > -MaxLate
      BY <3>1, <3>2 DEF TickIncrease
    <3>4. InTime(Left(s), MaxLate)
      BY <3>1, <3>2 DEF ClockInv, Deadlines
    <3> QED
      BY <1>4, <3>2, <3>3, <3>4 DEF InTime
  <2>2. \A u \in Listed' : InTime(Left(u)', MaxLate + 1)
    BY <1>4, <1>5, <1>6
  <2> QED
    BY <1>1, <2>1, <2>2 DEF Deadlines, InTime
<1> QED
  BY <1>3, <1>4, <1>5, <1>6, <1>7, <1>8 DEF ClockInv

LEMMA IdleLists ==
  ASSUME ClockInv,
         \/ \E t \in Timers, d \in Delays : SetTime(t, d)
         \/ UNCHANGED vars
  PROVE  ClockInv' /\ Keeps /\ isr' = isr
<1>1. /\ tick' = tick /\ UNCHANGED lists /\ timeout_tick' = timeout_tick
      /\ pc' = pc /\ on' = on /\ isr' = isr
  BY DEF SetTime, clock, threads, lists, vars
<1>2. TickTypes'
  BY <1>1 DEF ClockInv, TickTypes, SetTime, vars
<1>3. InOrder(place', arrival', Lefts') /\ Keeps
  <2>1. \A u \in Listed : Left(u)' = Left(u)
    BY <1>1 DEF Left
  <2> QED
    BY <1>1, <2>1, KeepMove DEF ClockInv
<1>4. Deadlines'
  BY <1>1, <1>3, DeadlinesKept DEF ClockInv
<1> QED
  BY <1>1, <1>2, <1>3, <1>4 DEF ClockInv

LEMMA InitClockInv == Init => ClockInv
<1> SUFFICES ASSUME Init PROVE ClockInv
  OBVIOUS
<1>1. TickTypes
  BY HalfFacts DEF Init, TickTypes
<1>2. /\ place \in [Timers -> Nat] /\ arrival \in [Timers -> Nat]
      /\ In(place) = {} /\ In(arrival) = {}
  BY DEF Init, In
<1>3. Cardinality(In(place)) = 0
  BY <1>2, FS_EmptySet
<1>4. Numbering(place) /\ Numbering(arrival)
  <2>1. /\ \A t \in In(place) : place[t] <= 0
        /\ \A k \in 1..0 : \E t \in In(place) : place[t] = k
        /\ \A t \in In(arrival) : arrival[t] <= 0
        /\ \A k \in 1..0 : \E t \in In(arrival) : arrival[t] = k
    BY <1>2
  <2> QED
    BY <1>2, <1>3, <2>1, NumberingFrom
<1>5. InOrder(place, arrival, Lefts)
  BY <1>2, <1>4 DEF InOrder
<1>6. Deadlines
  BY <1>2 DEF Init, Deadlines, Listed
<1> QED
  BY <1>1, <1>5, <1>6 DEF ClockInv

LEMMA ClockInvPreserved ==
  ASSUME OneCaller
  PROVE  TimerInv /\ ClockInv /\ [Next]_vars => ClockInv'
<1> SUFFICES ASSUME TimerInv, ClockInv, [Next]_vars PROVE ClockInv'
  OBVIOUS
<1>1. ASSUME NEW th \in Threads,
             Continue(th) \/ \E t \in Timers : StartRemove(th, t) \/ StopTest(th, t)
      PROVE  ClockInv'
  BY <1>1, ThreadLists
<1>2. ASSUME NEW t \in Timers, IsrStart(t) \/ IsrStop(t) PROVE ClockInv'
  BY <1>2, IsrLists
<1>3. CASE Check
  BY <1>3, CallbackLists, RemoveLists, DoneLists DEF Check
<1>4. CASE TickIncrease
  BY <1>4, TickLists
<1>5. CASE (\E t \in Timers, d \in Delays : SetTime(t, d)) \/ UNCHANGED vars
  BY <1>5, IdleLists
<1> QED
  BY <1>1, <1>2, <1>3, <1>4, <1>5 DEF Next

(* Where every timer has one caller, both invariants always hold, for any  *)
(* timers, threads, delays and width of the tick.                          *)
THEOREM ListConsistent ==
  ASSUME OneCaller
  PROVE  Spec => [](TimerInv /\ ClockInv)
<1>1. Init => TimerInv /\ ClockInv
  BY InitTimerInv, InitClockInv
<1>2. TimerInv /\ ClockInv /\ [Next]_vars => (TimerInv /\ ClockInv)'
  BY TimerInvPreserved, ClockInvPreserved
<1> QED
  BY <1>1, <1>2, PTL DEF Spec

(* The list numbers the timers that are in it without a gap, whatever is   *)
(* inserted and removed, and every variable keeps its type.                *)
THEOREM TimerTypeCorrect ==
  ASSUME OneCaller
  PROVE  Spec => []TypeOK
<1>1. TimerInv /\ ClockInv => TypeOK
  BY DEF TimerInv, Ranges, Fires, ClockInv, TickTypes, InOrder, TypeOK
<1> QED
  BY <1>1, ListConsistent, PTL

(* rt_timer_start and rt_timer_check keep the list in the order of expiry, *)
(* across the wrap-around of the tick, also when a thread that is held up  *)
(* inserts a timer that has expired; equal ones are in order of arrival.   *)
THEOREM ListAlwaysSorted ==
  ASSUME OneCaller
  PROVE  Spec => []Sorted
<1>1. ClockInv => Sorted
  <2> SUFFICES ASSUME ClockInv PROVE Sorted
    OBVIOUS
  <2>1. \A t \in Listed : t \in Timers /\ Lefts[t] = Left(t)
    BY DEF Lefts, Listed, In
  <2> QED
    BY <2>1 DEF ClockInv, InOrder, Sorted, Listed
<1> QED
  BY <1>1, ListConsistent, PTL

-----------------------------------------------------------------------------
(* RtTimer implements TimerService                                         *)

Due == [t \in Listed |-> Left(t)]

LEMMA ServiceFacts ==
  /\ Service!Init <=> Due = [t \in {} |-> 0] /\ StageOf = "run"
  /\ Service!vars = <<Due, StageOf>>
BY DEF Service!Init, Service!vars, Due

LEMMA KeepMaps ==
  ASSUME Keeps, StageOf' = StageOf
  PROVE  UNCHANGED Service!vars
<1>1. Due' = Due
  BY DEF Keeps, Due
<1> QED
  BY <1>1 DEF Service!vars, Due

LEMMA AddMaps ==
  ASSUME TickTypes', NEW t \in Timers, Adds(t), StageOf' = StageOf
  PROVE  Service!Next
<1> DEFINE e == Left(t)'
<1>1. e \in Int /\ -MaxLate <= e
  BY LeftFacts DEF Adds, InTime
<1>2. PICK d \in Delays : e <= d
  BY DEF Adds, InTime
<1>3. e \in (-MaxLate)..d
  BY <1>1, <1>2, TimerAssumption
<1>4. \A u \in Listed : u \in Timers
  BY DEF Listed, In
<1>5. Due' = [u \in DOMAIN Due \cup {t} |-> IF u = t THEN e ELSE Due[u]]
  BY <1>4 DEF Adds, Others, Due
<1>6. Service!Arm(t)
  BY <1>3, <1>5 DEF Service!Arm, Service!Armed, Due
<1> QED
  BY <1>6 DEF Service!Next

LEMMA WithoutFacts ==
  ASSUME NEW t \in Timers, Drops(t)
  PROVE  Due' = [u \in DOMAIN Due \ {t} |-> Due[u]]
<1>1. \A u \in Listed : u \in Timers
  BY DEF Listed, In
<1> QED
  BY <1>1 DEF Drops, Others, Due

LEMMA DropMaps ==
  ASSUME NEW t \in Timers, Drops(t), StageOf' = StageOf, StageOf # "firing"
  PROVE  Service!Next
<1>1. Service!Disarm(t)
  BY WithoutFacts DEF Service!Disarm, Service!Without, Service!Armed, Due
<1> QED
  BY <1>1 DEF Service!Next

LEMMA ListStepMaps ==
  ASSUME ClockInv', ListStep, isr \in {"off", "tick"}, isr' = isr
  PROVE  Service!Next \/ UNCHANGED Service!vars
<1>1. StageOf' = StageOf /\ StageOf # "firing"
  BY DEF StageOf
<1> QED
  BY <1>1, KeepMaps, AddMaps, DropMaps DEF ListStep, ClockInv

LEMMA FireMaps ==
  ASSUME OneCaller, TimerInv, ClockInv, NEW t \in Timers, CheckRemove(t)
  PROVE  Service!Next
<1>1. /\ Drops(t) /\ t \in Listed /\ Left(t) <= 0
      /\ \A u \in Listed : Left(t) <= Left(u)
  BY RemoveLists
<1>2. StageOf # "run" /\ StageOf' = "firing"
  BY DEF CheckRemove, StageOf
<1>3. /\ DOMAIN Due = Listed /\ \A u \in Listed : Due[u] = Left(u)
  BY DEF Due
<1>4. Service!Fire(t)
  BY <1>1, <1>2, <1>3, WithoutFacts
  DEF Service!Fire, Service!Without, Service!Armed, Due
<1> QED
  BY <1>4 DEF Service!Next

LEMMA DoneMaps ==
  ASSUME ClockInv, CheckDone
  PROVE  Service!Next
<1>1. Keeps /\ \A t \in Listed : Left(t) > 0
  BY DoneLists
<1>2. StageOf # "run" /\ StageOf' = "run"
  BY DEF CheckDone, StageOf
<1>3. Due' = Due
  BY <1>1 DEF Keeps, Due
<1>4. Service!Done
  BY <1>1, <1>2, <1>3 DEF Service!Done, Service!Armed, Due
<1> QED
  BY <1>4 DEF Service!Next

LEMMA TickMaps ==
  ASSUME OneCaller, TimerInv, ClockInv, TickIncrease
  PROVE  Service!Next
<1>1. Listed' = Listed /\ \A t \in Listed : Left(t)' = Left(t) - 1
  BY TickLists
<1>2. StageOf = "run" /\ StageOf' = "ticked"
  BY DEF TickIncrease, StageOf
<1>3. Due' = [t \in DOMAIN Due |-> Due[t] - 1]
  BY <1>1 DEF Due
<1>4. Service!Tick
  BY <1>2, <1>3 DEF Service!Tick, Service!Armed, Due
<1> QED
  BY <1>4 DEF Service!Next

LEMMA StepMaps ==
  ASSUME OneCaller, TimerInv, ClockInv, [Next]_vars
  PROVE  Service!Next \/ UNCHANGED Service!vars
<1>1. ASSUME NEW th \in Threads,
             Continue(th) \/ \E t \in Timers : StartRemove(th, t) \/ StopTest(th, t)
      PROVE  Service!Next \/ UNCHANGED Service!vars
  <2>1. ClockInv' /\ ListStep /\ isr = "off" /\ isr' = "off"
    BY <1>1, ThreadLists
  <2> QED
    BY <2>1, ListStepMaps
<1>2. ASSUME NEW t \in Timers, IsrStart(t) \/ IsrStop(t)
      PROVE  Service!Next \/ UNCHANGED Service!vars
  BY <1>2, IsrLists, ListStepMaps
<1>3. CASE Callback \/ CheckRestart
  <2>1. /\ ClockInv' /\ isr \in {"callback", "after"} /\ isr' \in {"after", "check"}
        /\ Keeps \/ \E t \in Timers : Adds(t)
    BY <1>3, CallbackLists
  <2>2. StageOf' = StageOf
    BY <2>1 DEF StageOf
  <2> QED
    BY <2>1, <2>2, KeepMaps, AddMaps DEF ClockInv
<1>4. CASE (\E t \in Timers : CheckRemove(t)) \/ CheckDone
  BY <1>4, FireMaps, DoneMaps
<1>5. CASE TickIncrease
  BY <1>5, TickMaps
<1>6. CASE (\E t \in Timers, d \in Delays : SetTime(t, d)) \/ UNCHANGED vars
  <2>1. Keeps /\ isr' = isr
    BY <1>6, IdleLists
  <2>2. StageOf' = StageOf
    BY <2>1 DEF StageOf
  <2> QED
    BY <2>1, <2>2, KeepMaps
<1> QED
  BY <1>1, <1>2, <1>3, <1>4, <1>5, <1>6 DEF Next, Check

(* Where every timer has one caller, a timer fires at the first tick at    *)
(* which its time is over, never before, and in the order of the deadlines,*)
(* for any timers, threads, delays and width of the tick.                  *)
THEOREM ServiceImplemented ==
  ASSUME OneCaller
  PROVE  Spec => ImplementsService
<1>1. Init => Service!Init
  <2> SUFFICES ASSUME Init PROVE Service!Init
    OBVIOUS
  <2>1. Listed = {}
    BY DEF Init, Listed, In
  <2>2. Due = [t \in {} |-> 0] /\ StageOf = "run"
    BY <2>1 DEF Init, Due, StageOf
  <2> QED
    BY <2>2, ServiceFacts
<1>2. TimerInv /\ ClockInv /\ [Next]_vars => [Service!Next]_(Service!vars)
  BY StepMaps
<1> QED
  BY <1>1, <1>2, ListConsistent, PTL DEF Spec, ImplementsService, Service!Spec
=============================================================================
