------------------------------ MODULE RtTimer -------------------------------
(***************************************************************************)
(* The kernel's hard timers (timer.c): one list in the order of expiry,    *)
(* checked at every tick.  A thread starts a timer in two critical         *)
(* sections and stops it in one that leaves the flag out; interrupts come  *)
(* in between.  An interrupt, a thread with interrupts off and a callback  *)
(* start and stop a timer in one step.  The skip list has one level        *)
(* (RT_TIMER_SKIP_LIST_LEVEL), the application has no soft timers.         *)
(***************************************************************************)
EXTENDS Integers, FiniteSets

CONSTANTS
  Timers, Threads, NoTimer,
  Periodic,     \* timers with RT_TIMER_FLAG_PERIODIC, the others are one-shot
  Owns,         \* the timers each thread starts
  Stoppable,    \* those it also stops
  IsrTimers,    \* those started and stopped with interrupts off
  StartedBy,    \* the timers the callback of a timer starts
  StopsSelf,    \* timers whose callback stops them
  Delays,       \* values of init_tick
  TickMax,      \* RT_TICK_MAX
  MaxLate       \* BOUND: ticks a thread is held up after the deadline of the
                \* timer it is starting

Half   == TickMax \div 2
Wrap(x) == x % (TickMax + 1)

ASSUME TimerAssumption ==
  /\ IsFiniteSet(Timers) /\ NoTimer \notin Timers
  /\ Periodic \subseteq Timers /\ IsrTimers \subseteq Timers
  /\ StopsSelf \subseteq Timers /\ Stoppable \subseteq Timers
  /\ Owns \in [Threads -> SUBSET Timers]
  /\ StartedBy \in [Timers -> SUBSET Timers]
  /\ TickMax \in Nat /\ MaxLate \in Nat
  (* RT_ASSERT(init_tick < RT_TICK_MAX / 2), less the delay of a thread     *)
  /\ \A d \in Delays : d \in Nat \ {0} /\ d + MaxLate + 1 < Half

(* Who starts or stops a timer, with interrupts on, has it to himself; the *)
(* callback of a timer leaves starting it again to rt_timer_check.         *)
OneCaller ==
  /\ \A th \in Threads : Owns[th] \cap IsrTimers = {}
  /\ \A th1, th2 \in Threads : th1 # th2 => Owns[th1] \cap Owns[th2] = {}
  /\ \A t \in Timers : /\ t \notin StartedBy[t]
                       /\ \A th \in Threads : Owns[th] \cap StartedBy[t] = {}

VARIABLES
  tick,      \* rt_tick
  isr,       \* the tick interrupt: "off", "tick", "check", "callback", "after"
  firing,    \* the timer whose callback runs
  place,     \* the list: the position of each timer, 0 if it is not in it
  active,    \* timers with RT_TIMER_FLAG_ACTIVATED
  timeout_tick,  \* 0 for a timer that is neither in the list nor about to be:
                 \* nothing reads it before it is set again
  init_tick,
  pc, on,    \* where a thread is in rt_timer_start or rt_timer_stop
  arrival    \* history: the order in which the timers in the list came

vars == <<tick, isr, firing, place, active, timeout_tick, init_tick, pc, on,
          arrival>>

clock   == <<tick, isr, firing>>
threads == <<pc, on>>
lists   == <<place, arrival>>

-----------------------------------------------------------------------------
(* A numbering of some of the timers from 1: the list, and the arrivals.   *)
In(f) == {t \in Timers : f[t] # 0}

Removed(f, t) ==
  [u \in Timers |-> IF u = t THEN 0
                    ELSE IF f[t] # 0 /\ f[u] > f[t] THEN f[u] - 1 ELSE f[u]]

InsertedAt(f, i, t) ==
  [u \in Timers |-> IF u = t THEN i
                    ELSE IF f[u] >= i THEN f[u] + 1 ELSE f[u]]

Appended(f, t) == InsertedAt(f, Cardinality(In(f)) + 1, t)

LaterPlain(to, u, t) ==             \* mutated: the tick wraps around
  to[u] > to[t]

Later(to, u, t) ==
  LET diff == Wrap(to[u] - to[t]) IN diff # 0 /\ diff < Half

(* The loop over row_head passes every timer before the first later one.   *)
Slot(f, to, t) ==
  1 + Cardinality({u \in In(f) : \A v \in In(f) : Later(to, v, t) => f[u] < f[v]})

Inserted(f, to, t) == InsertedAt(f, Slot(f, to, t), t)

Listed == In(place)

DeadlineUnwrapped(t) ==             \* mutated: wider than rt_tick_t
  tick + init_tick[t]

DeadlineNow(t) == tick              \* mutated: the delay is forgotten

Deadline(t) == Wrap(tick + init_tick[t])

Forgotten(t) == [timeout_tick EXCEPT ![t] = 0]

(* rt_timer_start and rt_timer_stop where nothing comes in between.        *)
StartNow(t) ==
  /\ timeout_tick' = [timeout_tick EXCEPT ![t] = Deadline(t)]
  /\ place' = Inserted(Removed(place, t), timeout_tick', t)
  /\ arrival' = Appended(Removed(arrival, t), t)
  /\ active' = active \cup {t}

StopNowKeepsFlag(t) ==              \* mutated: ACTIVATED is not cleared
  \/ /\ t \notin active
     /\ UNCHANGED <<lists, active, timeout_tick>>
  \/ /\ t \in active
     /\ place' = Removed(place, t)
     /\ arrival' = Removed(arrival, t)
     /\ timeout_tick' = Forgotten(t)
     /\ UNCHANGED active

StopNow(t) ==
  \/ /\ t \notin active
     /\ UNCHANGED <<lists, active, timeout_tick>>
  \/ /\ t \in active
     /\ place' = Removed(place, t)
     /\ arrival' = Removed(arrival, t)
     /\ active' = active \ {t}
     /\ timeout_tick' = Forgotten(t)

-----------------------------------------------------------------------------
(* rt_timer_start by a thread: "stop timer firstly", compute the timeout,  *)
(* insert.                                                                 *)
StartKeepsListed(th, t) ==          \* mutated: not stopped first
  /\ isr = "off" /\ pc[th] = "idle"
  /\ t \in Owns[th]
  /\ pc' = [pc EXCEPT ![th] = "removed"]
  /\ on' = [on EXCEPT ![th] = t]
  /\ UNCHANGED <<clock, lists, active, timeout_tick, init_tick>>

StartRemove(th, t) ==
  /\ isr = "off" /\ pc[th] = "idle"
  /\ t \in Owns[th]
  /\ place' = Removed(place, t)
  /\ arrival' = Removed(arrival, t)
  /\ active' = active \ {t}
  /\ timeout_tick' = Forgotten(t)
  /\ pc' = [pc EXCEPT ![th] = "removed"]
  /\ on' = [on EXCEPT ![th] = t]
  /\ UNCHANGED <<clock, init_tick>>

StartStamp(th) ==
  /\ isr = "off" /\ pc[th] = "removed"
  /\ timeout_tick' = [timeout_tick EXCEPT ![on[th]] = Deadline(on[th])]
  /\ pc' = [pc EXCEPT ![th] = "stamped"]
  /\ UNCHANGED <<clock, lists, active, init_tick, on>>

StartInsert(th) ==
  /\ isr = "off" /\ pc[th] = "stamped"
  /\ place' = Inserted(place, timeout_tick, on[th])
  /\ arrival' = Appended(arrival, on[th])
  /\ active' = active \cup {on[th]}
  /\ pc' = [pc EXCEPT ![th] = "idle"]
  /\ on' = [on EXCEPT ![th] = NoTimer]
  /\ UNCHANGED <<clock, timeout_tick, init_tick>>

(* rt_timer_stop by a thread: the flag is read before the critical section *)
(* and cleared after it.                                                   *)
StopTest(th, t) ==
  /\ isr = "off" /\ pc[th] = "idle"
  /\ t \in Owns[th] \cap Stoppable
  /\ t \in active
  /\ pc' = [pc EXCEPT ![th] = "stop"]
  /\ on' = [on EXCEPT ![th] = t]
  /\ UNCHANGED <<clock, lists, active, timeout_tick, init_tick>>

StopRemove(th) ==
  /\ isr = "off" /\ pc[th] = "stop"
  /\ place' = Removed(place, on[th])
  /\ arrival' = Removed(arrival, on[th])
  /\ timeout_tick' = Forgotten(on[th])
  /\ pc' = [pc EXCEPT ![th] = "unlisted"]
  /\ UNCHANGED <<clock, active, init_tick, on>>

StopClear(th) ==
  /\ isr = "off" /\ pc[th] = "unlisted"
  /\ active' = active \ {on[th]}
  /\ pc' = [pc EXCEPT ![th] = "idle"]
  /\ on' = [on EXCEPT ![th] = NoTimer]
  /\ UNCHANGED <<clock, lists, timeout_tick, init_tick>>

(* RT_TIMER_CTRL_SET_TIME, at any time: it counts from the next start on.  *)
SetTime(t, d) ==
  /\ isr = "off"
  /\ init_tick[t] # d
  /\ init_tick' = [init_tick EXCEPT ![t] = d]
  /\ UNCHANGED <<clock, threads, lists, active, timeout_tick>>

IsrStart(t) ==
  /\ isr \in {"off", "tick"}
  /\ t \in IsrTimers
  /\ StartNow(t)
  /\ UNCHANGED <<clock, threads, init_tick>>

IsrStop(t) ==
  /\ isr \in {"off", "tick"}
  /\ t \in IsrTimers
  /\ StopNow(t)
  /\ UNCHANGED <<clock, threads, init_tick>>

-----------------------------------------------------------------------------
(* The tick interrupt: rt_tick_increase and rt_timer_check.                *)
Left(t) ==
  LET d == Wrap(timeout_tick[t] - tick)
  IN IF d <= Half THEN d ELSE d - (TickMax + 1)

TickIncreaseToMax ==                \* mutated: the tick does not wrap around
  /\ isr = "off"
  /\ \A th \in Threads : pc[th] = "stamped" => Left(on[th]) > -MaxLate
  /\ tick' = IF tick = TickMax THEN tick ELSE tick + 1
  /\ isr' = "tick"
  /\ UNCHANGED <<firing, threads, lists, active, timeout_tick, init_tick>>

TickIncrease ==
  /\ isr = "off"
  /\ \A th \in Threads : pc[th] = "stamped" => Left(on[th]) > -MaxLate
  /\ tick' = Wrap(tick + 1)
  /\ isr' = "tick"
  /\ UNCHANGED <<firing, threads, lists, active, timeout_tick, init_tick>>

ExpiredLate(t) ==                              \* mutated: one tick late
  tick # timeout_tick[t] /\ Wrap(tick - timeout_tick[t]) < Half

Expired(t) == Wrap(tick - timeout_tick[t]) < Half

CheckRemove(t) ==
  /\ isr \in {"tick", "check"}
  /\ place[t] = 1
  /\ Expired(t)
  /\ place' = Removed(place, t)
  /\ arrival' = Removed(arrival, t)
  /\ timeout_tick' = Forgotten(t)
  /\ firing' = t
  /\ isr' = "callback"
  /\ UNCHANGED <<tick, threads, active, init_tick>>

CheckDone ==
  /\ isr \in {"tick", "check"}
  /\ \A t \in Timers : place[t] = 1 => ~Expired(t)
  /\ isr' = "off"
  /\ UNCHANGED <<tick, firing, threads, lists, active, timeout_tick, init_tick>>

Callback ==
  /\ isr = "callback"
  /\ isr' = "after"
  /\ \/ \E t \in StartedBy[firing] : StartNow(t)
     \/ /\ StartedBy[firing] = {} /\ firing \in StopsSelf
        /\ StopNow(firing)
     \/ /\ StartedBy[firing] = {} /\ firing \notin StopsSelf
        /\ UNCHANGED <<lists, active, timeout_tick>>
  /\ UNCHANGED <<tick, firing, threads, init_tick>>

CheckRestart ==
  /\ isr = "after"
  /\ \/ /\ firing \in Periodic \cap active
        /\ StartNow(firing)
     \/ /\ firing \notin Periodic \cap active
        /\ active' = active \ {firing}
        /\ UNCHANGED <<lists, timeout_tick>>
  /\ firing' = NoTimer
  /\ isr' = "check"
  /\ UNCHANGED <<tick, threads, init_tick>>

-----------------------------------------------------------------------------
Init ==
  /\ tick = 0 /\ isr = "off" /\ firing = NoTimer
  /\ place = [t \in Timers |-> 0]
  /\ arrival = place
  /\ active = {}
  /\ timeout_tick = [t \in Timers |-> 0]
  /\ init_tick \in [Timers -> Delays]
  /\ pc = [th \in Threads |-> "idle"]
  /\ on = [th \in Threads |-> NoTimer]

Continue(th) == StartStamp(th) \/ StartInsert(th) \/ StopRemove(th) \/ StopClear(th)

Check == CheckDone \/ Callback \/ CheckRestart \/ \E t \in Timers : CheckRemove(t)

Next ==
  \/ TickIncrease \/ Check
  \/ \E th \in Threads : \/ Continue(th)
                         \/ \E t \in Timers : StartRemove(th, t) \/ StopTest(th, t)
  \/ \E t \in Timers : \/ IsrStart(t) \/ IsrStop(t)
                       \/ \E d \in Delays : SetTime(t, d)

Spec == Init /\ [][Next]_vars

(* The tick goes on, its interrupt ends, and a thread in a kernel call     *)
(* goes on.                                                                *)
FairSpec ==
  /\ Spec
  /\ WF_vars(TickIncrease) /\ WF_vars(Check)
  /\ \A th \in Threads : WF_vars(Continue(th))

-----------------------------------------------------------------------------
Numbering(f) == /\ f \in [Timers -> 0..Cardinality(Timers)]
                /\ {f[t] : t \in In(f)} = 1..Cardinality(In(f))

TypeOK ==
  /\ tick \in 0..TickMax
  /\ isr \in {"off", "tick", "check", "callback", "after"}
  /\ firing \in Timers \cup {NoTimer}
  /\ Numbering(place) /\ Numbering(arrival)
  /\ active \subseteq Timers
  /\ timeout_tick \in [Timers -> 0..TickMax]
  /\ init_tick \in [Timers -> Delays]
  /\ pc \in [Threads -> {"idle", "removed", "stamped", "stop", "unlisted"}]
  /\ on \in [Threads -> Timers \cup {NoTimer}]

(* "remove timer from timer list firstly", "stop timer firstly" (timer.c): *)
(* a timer that is inserted is not in the list, which rt_list_insert_after *)
(* would corrupt.                                                          *)
InsertedOnce ==
  \A th \in Threads : pc[th] = "stamped" => on[th] \notin Listed

(* The head of the list is the timer that expires first, although the tick *)
(* wraps around and a thread may insert a timer that has expired already:  *)
(* rt_timer_check looks no further than the first that has not.  And "if   *)
(* we have two timers that timeout at the same time, it's preferred that   *)
(* the timer inserted early get called early" (timer.c).                   *)
Sorted ==
  \A t, u \in Listed :
    /\ place[t] < place[u] => Left(t) <= Left(u)
    /\ Left(t) = Left(u) /\ arrival[t] < arrival[u] => place[t] < place[u]

(* The flag says whether the timer is in the list, except while somebody   *)
(* is stopping it or it fires: rt_timer_stop refuses a timer without the   *)
(* flag, so one that is in the list without it could not be stopped.       *)
FlagsMatch ==
  /\ Listed \subseteq active
  /\ \A t \in active \ Listed :
       t = firing \/ \E th \in Threads : on[th] = t /\ pc[th] = "unlisted"

(* The loop of rt_timer_check, with interrupts off, comes to an end.       *)
CheckEnds == (isr # "off") ~> (isr = "off")

(* A timer that nothing but its thread restarts leaves the list: it fires, *)
(* or the thread stops or restarts it.                                     *)
AllFire ==
  \A t \in Timers \ (IsrTimers \cup UNION {StartedBy[u] : u \in Timers}) :
    (t \in Listed) ~> (t \notin Listed)

StageOf == CASE isr = "off"  -> "run"
             [] isr = "tick" -> "ticked"
             [] OTHER        -> "firing"

Service == INSTANCE TimerService
             WITH due <- [t \in Listed |-> Left(t)], stage <- StageOf

(* Firing in order, never early, never passed over: whatever comes between *)
(* the two halves of a start, and across the wrap-around of the tick.      *)
ImplementsService == Service!Spec
=============================================================================
