--------------------------- MODULE TimerService -----------------------------
(***************************************************************************)
(* What the kernel's timers promise: a timer that is armed fires at the    *)
(* first tick at which its delay is over, never before; timers that are    *)
(* due together fire in the order of their deadlines.  A thread that arms  *)
(* a timer may be held up before the timer counts, so the delay that is    *)
(* left then may be shorter, and over by at most MaxLate ticks.            *)
(***************************************************************************)
EXTENDS Integers

CONSTANTS Timers, Delays, MaxLate

VARIABLES
  due,    \* of every armed timer: the ticks left
  stage   \* "run"; "ticked": a tick has come; "firing": timers are firing

vars == <<due, stage>>
Armed == DOMAIN due

Init == /\ due = [t \in {} |-> 0]
        /\ stage = "run"

Arm(t) == /\ \E d \in Delays : \E e \in (-MaxLate)..d :
               due' = [u \in Armed \cup {t} |-> IF u = t THEN e ELSE due[u]]
          /\ UNCHANGED stage

Without(t) == [u \in Armed \ {t} |-> due[u]]

(* Nobody disarms a timer while the timers that are due are firing, except *)
(* the callback of the one that fires: and that one is not armed.          *)
Disarm(t) == /\ stage # "firing"
             /\ due' = Without(t)
             /\ UNCHANGED stage

Tick == /\ stage = "run"
        /\ due' = [t \in Armed |-> due[t] - 1]
        /\ stage' = "ticked"

Fire(t) == /\ stage # "run" /\ t \in Armed
           /\ due[t] <= 0
           /\ \A u \in Armed : due[t] <= due[u]
           /\ due' = Without(t)
           /\ stage' = "firing"

Done == /\ stage # "run"
        /\ \A t \in Armed : due[t] > 0
        /\ stage' = "run"
        /\ UNCHANGED due

Next == Tick \/ Done \/ \E t \in Timers : Arm(t) \/ Disarm(t) \/ Fire(t)

Spec == Init /\ [][Next]_vars
=============================================================================
