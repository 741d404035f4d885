---------------------------- MODULE MCRtMsgQueue ----------------------------
(***************************************************************************)
(* The queue with two threads that send, msg_t, and a second receiver of a *)
(* higher priority.                                                        *)
(***************************************************************************)
EXTENDS RtMsgQueue

ByPriority == [t \in Receivers |-> IF t = Server THEN 15 ELSE 10]
=============================================================================
