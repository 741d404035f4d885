------------------------------- MODULE MCMenu -------------------------------
(* The table of menu_proc.c, for TLC and for the assumption of MenuFrame.  *)
(* A function is named if Panel knows what it does.                        *)
EXTENDS MenuFrame

List(p, funcs) ==
  [k \in 1..Len(funcs) |-> [pIndex |-> Append(p, k - 1), pFunc |-> funcs[k]]]

Root == List(<<>>, <<"menu_main_disp">>)

AppMenu ==
  Root
  \o List(<<0>>, <<"NULL", "NULL", "NULL", "NULL", "NULL", "NULL", "NULL",
                   "menu_reset_factory">>)
  \o List(<<0, 0>>, <<"f", "f", "f", "f", "f", "NULL", "NULL">>)
  \o List(<<0, 0, 5>>, <<"f", "f", "f">>)
  \o List(<<0, 0, 6>>, <<"f", "f">>)
  \o List(<<0, 1>>, <<"menu_relay_alarm", "menu_relay_alarm",
                      "menu_relay_alarm", "menu_relay_alarm",
                      "menu_relay_alarm", "menu_relay_alarm">>)
  \o List(<<0, 2>>, <<"menu_clean_interval", "menu_clean_time">>)
  \o List(<<0, 3>>, <<"f", "f">>)
  \o List(<<0, 4>>, <<"NULL", "f", "f", "f">>)
  \o List(<<0, 5>>, <<"f", "f", "f", "f">>)
  \o List(<<0, 6>>, <<"menu_relay_test", "f">>)
  \o List(<<1>>, <<"NULL", "NULL", "NULL", "NULL", "f">>)
  \o List(<<1, 0>>, <<"f", "f", "f">>)
  \o List(<<1, 1>>, <<"f", "f">>)
  \o List(<<1, 2>>, <<"f", "f">>)
  \o List(<<1, 3>>, <<"f", "f", "f">>)

Byte == 0..255
=============================================================================
