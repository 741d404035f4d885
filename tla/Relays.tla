------------------------------- MODULE Relays -------------------------------
(***************************************************************************)
(* The alarm relays and the cleaning pump.  The thread "key" compares the  *)
(* turbidity with the limits every 10 ms (zhuodu_alarm); modbus-m writes   *)
(* the turbidity in two halves and can be preempted by it in between; two  *)
(* timers switch the pump (timeout1, timeout2 of main_app.c); the menu     *)
(* edits the limits and the times and tests the relays.  A timer is the    *)
(* number of ticks it has left, as module RtTimer shows it may be.  A relay*)
(* is what its pin was last set to.                                        *)
(***************************************************************************)
EXTENDS Integers

CONSTANTS
  RelayNos,      \* the alarm relays
  Values, Half,  \* turbidities; a value is two halves, high * Half + low
  Limits, Delays,                  \* BOUND: alarm values and hystereses
  Intervals, Times,                \* BOUND: seconds the menu accepts
  TicksPerSecond

ASSUME RelayAssumption ==
  /\ Half \in Nat \ {0}
  /\ Values \subseteq 0..Half * Half - 1 /\ 0 \in Values
  /\ Limits \subseteq Int /\ Delays \subseteq Nat
  /\ Intervals \subseteq Nat \ {0} /\ Times \subseteq Nat \ {0}
  /\ TicksPerSecond \in Nat \ {0}

Low == 0     \* relay_1_alarm_type: the alarm is for a low or a high turbidity
High == 1
Nothing == -1

VARIABLES
  turbidimeter,
  arriving,            \* the value of which the first half is written
  limit, delay, type,  \* global.relay_1_alarm_val and so on, per relay
  relay,               \* pins 33 and 34
  pump,                \* pin 36
  is_relay_test,
  clean_interval, clean_time,      \* seconds, in struct global
  init_tick, left      \* of the timers cln_i and cln_t; left is 0 if stopped

measured == <<turbidimeter, arriving>>
settings == <<limit, delay, type>>
timing   == <<clean_interval, clean_time, init_tick, left>>
outputs  == <<measured, settings, relay, pump, is_relay_test, timing>>

-----------------------------------------------------------------------------
(* modbus-m: eMBMasterRegHoldingCB stores the low half first.              *)

StoreLow ==
  /\ arriving = Nothing
  /\ \E v \in Values :
       /\ arriving' = v
       /\ turbidimeter' = (turbidimeter \div Half) * Half + (v % Half)
  /\ UNCHANGED <<settings, relay, pump, is_relay_test, timing>>

StoreHigh ==
  /\ arriving # Nothing
  /\ turbidimeter' = (arriving \div Half) * Half + (turbidimeter % Half)
  /\ arriving' = Nothing
  /\ UNCHANGED <<settings, relay, pump, is_relay_test, timing>>

-----------------------------------------------------------------------------
(* key: zhuodu_alarm                                                       *)

Under(r) == turbidimeter < limit[r] - delay[r]
Over(r) == turbidimeter > limit[r] + delay[r]

Alarm(r)  == IF type[r] = Low THEN Under(r) ELSE Over(r)
Cancel(r) == IF type[r] = Low THEN Over(r) ELSE Under(r)

SwitchedUnlessTest ==                 \* mutated: minds the relay test
  [r \in RelayNos |->
     IF is_relay_test THEN relay[r] ELSE Alarm(r) \/ (relay[r] /\ ~Cancel(r))]

Switched == [r \in RelayNos |-> Alarm(r) \/ (relay[r] /\ ~Cancel(r))]

zhuodu_alarm ==
  /\ relay' = Switched
  /\ UNCHANGED <<measured, settings, pump, is_relay_test, timing>>

-----------------------------------------------------------------------------
(* The tick interrupt.  cln_i is periodic, its callback starts cln_t; when *)
(* both expire at once, cln_t comes first, for it was inserted first.      *)

Fires(t) == left[t] = 1

CountdownStopped ==                   \* mutated: a stopped timer counts on
  [cln_i |-> IF Fires("cln_i") THEN init_tick.cln_i ELSE left.cln_i - 1,
   cln_t |-> IF Fires("cln_i") THEN init_tick.cln_t ELSE left.cln_t - 1]

Countdown ==
  [cln_i |-> IF Fires("cln_i") THEN init_tick.cln_i ELSE left.cln_i - 1,
   cln_t |-> IF Fires("cln_i") THEN init_tick.cln_t
             ELSE IF left.cln_t > 0 THEN left.cln_t - 1 ELSE 0]

PumpAfterUnlessTest ==   \* mutated: minds the test, as clean_thread_entry does
  Fires("cln_i") \/ (pump /\ (is_relay_test \/ ~Fires("cln_t")))
PumpAfter == Fires("cln_i") \/ (pump /\ ~Fires("cln_t"))

Tick ==
  /\ left' = Countdown
  /\ pump' = PumpAfter
  /\ UNCHANGED <<measured, settings, relay, is_relay_test, clean_interval,
                 clean_time, init_tick>>

-----------------------------------------------------------------------------
(* main: what the functions of the menu do.                                *)

menu_clean_interval ==
  /\ \E s \in Intervals :
       /\ clean_interval' = s
       /\ init_tick' = [init_tick EXCEPT !.cln_i = s]
  /\ UNCHANGED <<measured, settings, relay, pump, is_relay_test, clean_time,
                 left>>

menu_clean_time ==
  /\ \E s \in Times :
       /\ clean_time' = s
       /\ init_tick' = [init_tick EXCEPT !.cln_t = s]
  /\ UNCHANGED <<measured, settings, relay, pump, is_relay_test,
                 clean_interval, left>>

menu_relay_test ==
  /\ \E on \in BOOLEAN :
       /\ is_relay_test' = on /\ pump' = on
       /\ relay' = [r \in RelayNos |-> on]
  /\ UNCHANGED <<measured, settings, timing>>

menu_relay_alarm ==
  /\ \E r \in RelayNos :
       \/ /\ \E t \in {Low, High} : type' = [type EXCEPT ![r] = t]
          /\ UNCHANGED <<limit, delay>>
       \/ /\ \E v \in Limits : limit' = [limit EXCEPT ![r] = v]
          /\ UNCHANGED <<delay, type>>
       \/ /\ \E d \in Delays : delay' = [delay EXCEPT ![r] = d]
          /\ UNCHANGED <<limit, type>>
  /\ UNCHANGED <<measured, relay, pump, is_relay_test, timing>>

\* main_thread_entry: the timers get ticks, with the settings of the FRAM.
StartTicks(interval, time) ==
  [cln_i |-> interval * TicksPerSecond, cln_t |-> time * TicksPerSecond]
StartLeft(interval) == [cln_i |-> interval * TicksPerSecond, cln_t |-> 0]

RelayInit ==
  /\ turbidimeter = 0 /\ arriving = Nothing
  /\ limit \in [RelayNos -> Limits] /\ delay \in [RelayNos -> Delays]
  /\ type \in [RelayNos -> {Low, High}]
  /\ relay = [r \in RelayNos |-> FALSE] /\ pump = FALSE
  /\ is_relay_test = FALSE
  /\ clean_interval \in Intervals /\ clean_time \in Times
  /\ init_tick = StartTicks(clean_interval, clean_time)
  /\ left = StartLeft(clean_interval)

RelayRestart ==
  /\ turbidimeter' = 0 /\ arriving' = Nothing
  /\ relay' = [r \in RelayNos |-> FALSE] /\ pump' = FALSE
  /\ is_relay_test' = FALSE
  /\ init_tick' = StartTicks(clean_interval, clean_time)
  /\ left' = StartLeft(clean_interval)
  /\ UNCHANGED <<settings, clean_interval, clean_time>>

-----------------------------------------------------------------------------
(* Properties                                                              *)

RelayTypeOK ==
  /\ turbidimeter \in 0..Half * Half - 1 /\ arriving \in Values \cup {Nothing}
  /\ limit \in [RelayNos -> Limits] /\ delay \in [RelayNos -> Delays]
  /\ type \in [RelayNos -> {Low, High}]
  /\ relay \in [RelayNos -> BOOLEAN] /\ pump \in BOOLEAN
  /\ is_relay_test \in BOOLEAN
  /\ clean_interval \in Intervals /\ clean_time \in Times
  /\ init_tick \in [{"cln_i", "cln_t"} -> Nat \ {0}]
  /\ left \in [{"cln_i", "cln_t"} -> Nat] /\ left.cln_i > 0

(* A turbidity that stays beyond the limit switches the relay, whatever    *)
(* was set before: the relay test, which leaves is_relay_test as it was    *)
(* answered, a half-written value and an edit cost at most the time until  *)
(* the next comparison.                                                    *)
Stands(condition) == (arriving = Nothing) /\ condition
AlarmComes ==
  \A r \in RelayNos :
    /\ Stands(Alarm(r)) ~> (~Stands(Alarm(r)) \/ relay[r])
    /\ Stands(Cancel(r)) ~> (~Stands(Cancel(r)) \/ ~relay[r])

(* Every cleaning ends, and so does what the relay test left on, as long   *)
(* as the timers are set to clean for a shorter time than they wait.       *)
Short == init_tick.cln_t < init_tick.cln_i
PumpStops == (pump /\ Short) ~> (~pump \/ ~Short)
=============================================================================
