------------------------------ MODULE MCPanel -------------------------------
(* A small table for the panel: every function that touches the relays, and *)
(* one behind the password that does not.                                  *)
EXTENDS Panel

Item(path, func) == [pIndex |-> path, pFunc |-> func]

PartOfMenu ==
  <<Item(<<0>>, "menu_main_disp"),
    Item(<<0, 0>>, "menu_relay_test"),
    Item(<<0, 1>>, "menu_relay_alarm"),
    Item(<<0, 2>>, "menu_clean_interval"),
    Item(<<0, 3>>, "menu_clean_time"),
    Item(<<1, 0>>, "f")>>
=============================================================================
