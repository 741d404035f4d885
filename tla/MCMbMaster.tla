----------------------------- MODULE MCMbMaster -----------------------------
(***************************************************************************)
(* Instances of MbMaster for TLC: modbus-a and msg_t, two of the three     *)
(* threads of the application that issue requests (main is the third).     *)
(***************************************************************************)
EXTENDS MbMaster, TLC

CONSTANTS modbus_a, msg_t, modbus_m, trans_t

(* main_app.c and portserial_m.c: rt_thread_create, rt_thread_init.        *)
AppPrio == (modbus_a :> 10) @@ (msg_t :> 15) @@ (modbus_m :> 13)
             @@ (trans_t :> 10)
=============================================================================
