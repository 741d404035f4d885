----------------------------- MODULE MCRtTimer ------------------------------
(***************************************************************************)
(* The instance of RtTimer for TLC.  "cln_i" is the periodic timer that    *)
(* the main thread starts, and its callback starts "cln_t", whose callback *)
(* stops itself; "cln_t" also stands for the timers of threads, which are  *)
(* started and stopped with interrupts off.  "master" is started and       *)
(* stopped by master trans.                                                *)
(***************************************************************************)
EXTENDS RtTimer

AppThreads == {"main", "trans"}
AppOwns  == [th \in AppThreads |-> IF th = "main" THEN {"cln_i"} ELSE {"master"}]
AppStarts == [t \in Timers |-> IF t = "cln_i" THEN {"cln_t"} ELSE {}]
=============================================================================
