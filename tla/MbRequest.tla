----------------------------- MODULE MbRequest ------------------------------
(***************************************************************************)
(* What the Modbus master promises the threads that call eMBMasterReq*:    *)
(* one request is in service at a time, every request in service ends, and *)
(* the code a call returns is the outcome of that very request.  MbMaster  *)
(* implements this specification on a benign bus.                          *)
(***************************************************************************)
CONSTANTS Requesters, Timed, None

VARIABLES
  phase,    \* "idle", "queued" for the resource, "busy" in service, "done"
  outcome,  \* what became of the request on the bus, "open" until decided
  result,   \* what the call returns
  owner     \* who holds the running resource

vars == <<phase, outcome, result, owner>>

Outcomes == {"NO_ERR", "TIMEDOUT", "REV_DATA", "EXE_FUN"}

Init == /\ phase   = [t \in Requesters |-> "idle"]
        /\ outcome = [t \in Requesters |-> None]
        /\ result  = [t \in Requesters |-> None]
        /\ owner   = None

(* The call fails without using the bus.                                   *)
Fail(t, code) == /\ phase'   = [phase   EXCEPT ![t] = "done"]
                 /\ outcome' = [outcome EXCEPT ![t] = code]
                 /\ result'  = [result  EXCEPT ![t] = code]
                 /\ UNCHANGED owner

Refuse(t) == phase[t] = "idle" /\ Fail(t, "ILL_ARG")

GiveUp(t) == t \in Timed /\ phase[t] = "queued" /\ Fail(t, "MASTER_BUSY")

(* The resource is free: the request is in service at once.                *)
Begin(t) == /\ phase[t] = "idle" /\ owner = None
            /\ phase'   = [phase   EXCEPT ![t] = "busy"]
            /\ outcome' = [outcome EXCEPT ![t] = "open"]
            /\ owner' = t
            /\ UNCHANGED result

Queue(t) == /\ phase[t] = "idle" /\ owner # None
            /\ phase'   = [phase   EXCEPT ![t] = "queued"]
            /\ outcome' = [outcome EXCEPT ![t] = "open"]
            /\ UNCHANGED <<result, owner>>

(* The bus decides the fate of the request in service.                     *)
Decide(t) == /\ phase[t] = "busy" /\ outcome[t] = "open"
             /\ \E v \in Outcomes : outcome' = [outcome EXCEPT ![t] = v]
             /\ UNCHANGED <<phase, result, owner>>

(* The caller is given the outcome.                                        *)
Finish(t) == /\ phase[t] = "busy"
             /\ phase' = [phase EXCEPT ![t] = "done"]
             /\ \E v \in Outcomes :
                  /\ outcome[t] \in {"open", v}
                  /\ outcome' = [outcome EXCEPT ![t] = v]
                  /\ result'  = [result  EXCEPT ![t] = v]
             /\ UNCHANGED owner

(* After that, and not before, the resource is freed or handed on.         *)
Free == /\ owner # None
        /\ \A t \in Requesters : phase[t] # "busy"
        /\ \/ /\ \A t \in Requesters : phase[t] # "queued"
              /\ owner' = None
              /\ UNCHANGED phase
           \/ \E t \in Requesters :
                /\ phase[t] = "queued"
                /\ phase' = [phase EXCEPT ![t] = "busy"]
                /\ owner' = t
        /\ UNCHANGED <<outcome, result>>

Return(t) == /\ phase[t] = "done"
             /\ phase'   = [phase   EXCEPT ![t] = "idle"]
             /\ outcome' = [outcome EXCEPT ![t] = None]
             /\ result'  = [result  EXCEPT ![t] = None]
             /\ UNCHANGED owner

Step(t) == \/ Refuse(t) \/ GiveUp(t) \/ Begin(t) \/ Queue(t)
           \/ Decide(t) \/ Finish(t) \/ Return(t)

Next == Free \/ \E t \in Requesters : Step(t)

Fairness == /\ WF_vars(Free)
            /\ \A t \in Requesters : /\ WF_vars(Finish(t))
                                     /\ WF_vars(GiveUp(t))
                                     /\ WF_vars(Return(t))

Safety == Init /\ [][Next]_vars

Spec == Safety /\ Fairness
=============================================================================
