------------------------------- MODULE Panel --------------------------------
(***************************************************************************)
(* The operating panel: the thread "main" runs the menu, whose functions   *)
(* edit the settings and test the relays; the thread "key" and modbus-m go *)
(* on underneath, the tick interrupt above.  An action of main is one call *)
(* of menu_main; its single writes to what the others read are atomic, as  *)
(* each of them is a word.                                                 *)
(***************************************************************************)
EXTENDS MenuFrame, Relays

Func == s_Menu[psMenuCurr].pFunc

\* A function ends, with or without having done what it is for.
Runs(f) == LeafExit /\ Func = f

CleanInterval == Runs("menu_clean_interval") /\ menu_clean_interval
CleanTime     == Runs("menu_clean_time") /\ menu_clean_time
RelayTest     == Runs("menu_relay_test") /\ menu_relay_test
RelayAlarm    == Runs("menu_relay_alarm") /\ menu_relay_alarm
OtherExit     == LeafExit /\ Func # "menu_relay_test" /\ UNCHANGED outputs

(* Power fails, or the factory settings are restored.                      *)
Restart == menu_var_init /\ RelayRestart

Init == MenuInit /\ RelayInit

Main == \/ CleanInterval \/ CleanTime \/ RelayTest \/ RelayAlarm \/ OtherExit
        \/ Walk /\ UNCHANGED outputs
Others == (zhuodu_alarm \/ StoreLow \/ StoreHigh \/ Tick) /\ UNCHANGED menu

Next == Main \/ Others \/ Restart

vars == <<menu, outputs>>
Spec == Init /\ [][Next]_vars

(* The threads "key" and modbus-m are not starved, and time passes.        *)
FairSpec ==
  /\ Spec
  /\ WF_vars(zhuodu_alarm /\ UNCHANGED menu)
  /\ WF_vars(StoreHigh /\ UNCHANGED menu)
  /\ WF_vars(Tick /\ UNCHANGED menu)

TypeOK == MenuTypeOK /\ RelayTypeOK
=============================================================================
