---------------------------- MODULE Panel_proofs ----------------------------
(***************************************************************************)
(* What the menu alone guarantees holds on the panel as well, where its    *)
(* functions change the settings while the other threads go on; and every  *)
(* variable keeps its range there, whatever a preempted store leaves.      *)
(***************************************************************************)
EXTENDS Panel, MenuFrame_proofs

-----------------------------------------------------------------------------
(* The menu                                                                *)

\* A step of the panel is a step of the menu, or leaves it alone.
LEMMA PanelStep == [Next]_vars => [MenuNext]_menu
  <1>1. Next => [MenuNext]_menu
    BY DEF Next, Main, Others, Restart, MenuNext, CleanInterval, CleanTime,
           RelayTest, RelayAlarm, OtherExit, Runs
  <1>2. UNCHANGED vars => UNCHANGED menu
    BY DEF vars
  <1> QED BY <1>1, <1>2

\* So the panel is an implementation of the menu.
LEMMA PanelIsMenu == Spec => MenuSpec
  <1>1. Init => MenuInit
    BY DEF Init
  <1> QED BY <1>1, PanelStep, PTL DEF Spec, MenuSpec

-----------------------------------------------------------------------------
(* The halves of the turbidity                                             *)

\* Two halves make a value, whichever values they come from.
LEMMA Halves ==
  ASSUME NEW a \in 0..Half * Half - 1, NEW b \in 0..Half * Half - 1
  PROVE  (a \div Half) * Half + (b % Half) \in 0..Half * Half - 1
  <1>1. Half \in Nat \ {0}
    BY RelayAssumption
  <1> DEFINE q == a \div Half
             r == b % Half
  <1>2. q \in Nat /\ q * Half <= a
    BY <1>1
  <1>3. r \in 0..Half - 1
    BY <1>1
  <1> HIDE DEF q, r
  <1>4. q <= Half - 1
    <2>1. q >= Half => q * Half >= Half * Half
      BY <1>1, <1>2
    <2> QED BY <1>1, <1>2, <2>1
  <1>5. q * Half <= (Half - 1) * Half
    BY <1>1, <1>2, <1>4
  <1>6. (Half - 1) * Half = Half * Half - Half
    BY <1>1
  <1>7. q * Half + r \in 0..Half * Half - 1
    BY <1>1, <1>2, <1>3, <1>5, <1>6
  <1> QED BY <1>7 DEF q, r

-----------------------------------------------------------------------------
(* The relays                                                              *)

\* The constants.
LEMMA Constants ==
  /\ Half \in Nat \ {0} /\ Values \subseteq 0..Half * Half - 1
  /\ 0 \in 0..Half * Half - 1
  /\ Intervals \subseteq Nat \ {0} /\ Times \subseteq Nat \ {0}
  /\ TicksPerSecond \in Nat \ {0}
  BY RelayAssumption

\* The ticks of the two timers.
LEMMA Ticks ==
  ASSUME NEW i \in Nat \ {0}, NEW t \in Nat \ {0}
  PROVE  /\ StartTicks(i, t) \in [{"cln_i", "cln_t"} -> Nat \ {0}]
         /\ StartLeft(i) \in [{"cln_i", "cln_t"} -> Nat]
         /\ StartLeft(i).cln_i > 0
  <1>1. \A m, n \in Nat \ {0} : m * n \in Nat \ {0}
    OBVIOUS
  <1>2. i * TicksPerSecond \in Nat \ {0} /\ t * TicksPerSecond \in Nat \ {0}
    BY <1>1, Constants
  <1> HIDE <1>1
  <1> QED BY <1>2 DEF StartTicks, StartLeft
\* The relays start within their ranges, and do so again.
LEMMA RelaysStart == RelayInit => RelayTypeOK
  <1> SUFFICES ASSUME RelayInit PROVE RelayTypeOK
    OBVIOUS
  <1>1. clean_interval \in Nat \ {0} /\ clean_time \in Nat \ {0}
    BY Constants DEF RelayInit
  <1>2. /\ init_tick \in [{"cln_i", "cln_t"} -> Nat \ {0}]
        /\ left \in [{"cln_i", "cln_t"} -> Nat] /\ left.cln_i > 0
    BY <1>1, Ticks DEF RelayInit
  <1>3. turbidimeter \in 0..Half * Half - 1
    BY Constants DEF RelayInit
  <1> QED BY <1>2, <1>3 DEF RelayInit, RelayTypeOK

\* The times are kept, and counted in seconds again.
LEMMA RelaysRestart ==
  ASSUME RelayTypeOK, RelayRestart
  PROVE  RelayTypeOK'
  <1>1. clean_interval \in Nat \ {0} /\ clean_time \in Nat \ {0}
    BY Constants DEF RelayTypeOK
  <1>2. /\ init_tick' \in [{"cln_i", "cln_t"} -> Nat \ {0}]
        /\ left' \in [{"cln_i", "cln_t"} -> Nat] /\ left'.cln_i > 0
    BY <1>1, Ticks DEF RelayRestart
  <1>3. turbidimeter' \in 0..Half * Half - 1
    BY Constants DEF RelayRestart
  <1> QED BY <1>2, <1>3 DEF RelayRestart, RelayTypeOK, settings

\* A store of the turbidity, completed or not, and a comparison.
LEMMA MeasureStep ==
  ASSUME RelayTypeOK, StoreLow \/ StoreHigh \/ zhuodu_alarm
  PROVE  RelayTypeOK'
  <1>1. CASE StoreLow
    <2>1. PICK v \in Values :
            /\ arriving' = v
            /\ turbidimeter' = (turbidimeter \div Half) * Half + (v % Half)
      BY <1>1 DEF StoreLow
    <2>2. v \in 0..Half * Half - 1 /\ turbidimeter \in 0..Half * Half - 1
      BY Constants DEF RelayTypeOK
    <2>3. turbidimeter' \in 0..Half * Half - 1
      BY <2>1, <2>2, Halves
    <2> QED BY <1>1, <2>1, <2>3 DEF StoreLow, RelayTypeOK, settings, timing
  <1>2. CASE StoreHigh
    <2>1. arriving \in 0..Half * Half - 1 /\ turbidimeter \in 0..Half * Half - 1
      BY <1>2, Constants DEF StoreHigh, RelayTypeOK
    <2>2. turbidimeter' \in 0..Half * Half - 1
      BY <1>2, <2>1, Halves DEF StoreHigh
    <2> QED BY <1>2, <2>2 DEF StoreHigh, RelayTypeOK, settings, timing
  <1>3. CASE zhuodu_alarm
    <2>1. Switched \in [RelayNos -> BOOLEAN]
      BY DEF Switched, Alarm, Cancel, Under, Over, RelayTypeOK
    <2> QED BY <1>3, <2>1
          DEF zhuodu_alarm, RelayTypeOK, measured, settings, timing
  <1> QED BY <1>1, <1>2, <1>3

\* The tick: neither timer counts below 0, and cln_i never stops.
LEMMA TickStep ==
  ASSUME RelayTypeOK, Tick
  PROVE  RelayTypeOK'
  <1>1. /\ left \in [{"cln_i", "cln_t"} -> Nat] /\ left.cln_i > 0
        /\ init_tick \in [{"cln_i", "cln_t"} -> Nat \ {0}]
        /\ pump \in BOOLEAN
    BY DEF RelayTypeOK
  <1>2. /\ left.cln_i \in Nat /\ left.cln_t \in Nat
        /\ init_tick.cln_i \in Nat \ {0} /\ init_tick.cln_t \in Nat \ {0}
    BY <1>1
  <1>3. Countdown \in [{"cln_i", "cln_t"} -> Nat] /\ Countdown.cln_i > 0
    <2> DEFINE a == IF Fires("cln_i") THEN init_tick.cln_i ELSE left.cln_i - 1
               b == IF Fires("cln_i") THEN init_tick.cln_t
                    ELSE IF left.cln_t > 0 THEN left.cln_t - 1 ELSE 0
    <2>1. Fires("cln_i") <=> left.cln_i = 1
      BY DEF Fires
    <2>2. a \in Nat \ {0} /\ b \in Nat
      BY <1>1, <1>2, <2>1
    <2>3. Countdown = [cln_i |-> a, cln_t |-> b]
      BY DEF Countdown
    <2> HIDE DEF a, b
    <2> QED BY <2>2, <2>3
  <1>4. PumpAfter \in BOOLEAN
    BY <1>1 DEF PumpAfter, Fires
  <1> QED BY <1>3, <1>4 DEF Tick, RelayTypeOK, measured, settings

\* What the functions of the menu set.
LEMMA EditStep ==
  ASSUME RelayTypeOK, \/ menu_clean_interval \/ menu_clean_time
                      \/ menu_relay_test \/ menu_relay_alarm
  PROVE  RelayTypeOK'
  <1>1. CASE menu_clean_interval
    <2>1. PICK x \in Intervals : /\ clean_interval' = x
                                 /\ init_tick' = [init_tick EXCEPT !.cln_i = x]
      BY <1>1 DEF menu_clean_interval
    <2>2. x \in Nat \ {0}
      BY Constants
    <2>3. init_tick' \in [{"cln_i", "cln_t"} -> Nat \ {0}]
      BY <2>1, <2>2 DEF RelayTypeOK
    <2> QED BY <1>1, <2>1, <2>3
          DEF menu_clean_interval, RelayTypeOK, measured, settings
  <1>2. CASE menu_clean_time
    <2>1. PICK x \in Times : /\ clean_time' = x
                             /\ init_tick' = [init_tick EXCEPT !.cln_t = x]
      BY <1>2 DEF menu_clean_time
    <2>2. x \in Nat \ {0}
      BY Constants
    <2>3. init_tick' \in [{"cln_i", "cln_t"} -> Nat \ {0}]
      BY <2>1, <2>2 DEF RelayTypeOK
    <2> QED BY <1>2, <2>1, <2>3
          DEF menu_clean_time, RelayTypeOK, measured, settings
  <1>3. CASE menu_relay_test
    BY <1>3 DEF menu_relay_test, RelayTypeOK, measured, settings, timing
  <1>4. CASE menu_relay_alarm
    BY <1>4 DEF menu_relay_alarm, RelayTypeOK, measured, timing, Low, High
  <1> QED BY <1>1, <1>2, <1>3, <1>4

\* Every step of the panel keeps the ranges.
LEMMA RelaysStep ==
  ASSUME RelayTypeOK, [Next]_vars
  PROVE  RelayTypeOK'
  <1>1. CASE UNCHANGED outputs
    BY <1>1 DEF outputs, measured, settings, timing, RelayTypeOK
  <1>2. CASE Restart
    BY <1>2, RelaysRestart DEF Restart
  <1>3. CASE Others
    BY <1>3, MeasureStep, TickStep DEF Others
  <1>4. CASE CleanInterval \/ CleanTime \/ RelayTest \/ RelayAlarm
    BY <1>4, EditStep DEF CleanInterval, CleanTime, RelayTest, RelayAlarm
  <1> QED BY <1>1, <1>2, <1>3, <1>4 DEF Next, Main, OtherExit, vars

-----------------------------------------------------------------------------
(* The theorems                                                            *)

(* On the panel every variable of the menu, the relays and the timers      *)
(* keeps its range: a turbidity of two halves of different values is still *)
(* a turbidity, no timer runs out of ticks, the interval timer never stops.*)
THEOREM PanelTypeCorrect ==
  ASSUME LINE_MAX = 4
  PROVE  Spec => []TypeOK
  <1>1. Init => RelayTypeOK
    BY RelaysStart DEF Init
  <1>2. RelayTypeOK /\ [Next]_vars => RelayTypeOK'
    BY RelaysStep
  <1>3. Spec => []RelayTypeOK
    BY <1>1, <1>2, PTL DEF Spec
  <1> QED BY <1>3, PanelIsMenu, MenuTypeCorrect, PTL DEF TypeOK

(* The display shows the list one moves in, and each key does what the     *)
(* tree of the index strings says, on the panel as well: its functions and *)
(* the other threads write nothing the frame relies on.                    *)
THEOREM PanelImplementsTree ==
  ASSUME LINE_MAX = 4
  PROVE  Spec => []Shown /\ ImplementsTree
  BY PanelIsMenu, AlwaysShown, MenuImplementsTree, PTL
=============================================================================
