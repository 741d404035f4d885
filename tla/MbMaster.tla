------------------------------ MODULE MbMaster ------------------------------
(***************************************************************************)
(* The Modbus RTU master of the turbidity controller: the threads that     *)
(* issue requests, the polling thread "modbus-m", the thread "master       *)
(* trans" that plays the transmit interrupt, the receive interrupt, the    *)
(* one software timer, and the bus with its slaves.                        *)
(*                                                                         *)
(* They share one semaphore (xMasterRunRes, the right to use the master),  *)
(* one event set (xMasterOsEvent), one send buffer, one receive buffer and *)
(* one timer.  Modbus PDU contents are abstracted to the number of the     *)
(* request a frame carries or answers; bytes are abstracted to the head    *)
(* and the tail of a frame.                                                *)
(***************************************************************************)
EXTENDS Integers, FiniteSets

CONSTANTS
  Requesters,  \* threads that call eMBMasterReq*: modbus-a, msg_t, main
  Timed,       \* the requesters whose lTimeOut is finite
  Prio,        \* RT-Thread priority of every thread, 0 is the highest
  Poll, Trans, \* the threads "modbus-m" and "master trans"
  Addrs,       \* slave addresses the requesters use; 0 is the broadcast
  NumIds,      \* BOUND: requests are numbered 1..NumIds, cyclically
  FrameLen,    \* BOUND: number of bytes the transmitter sends for a frame
  SemMod,      \* BOUND: struct rt_semaphore has a 16-bit value (65536)
  Faults,      \* what the bus and the scheduler may do beyond the ordinary
  MaxFaults    \* BOUND: how often they do it, Benign faults not counted

MaxSlave == 8          \* MB_MASTER_TOTAL_SLAVE_NUM
None     == "none"

(***************************************************************************)
(* "loss":    a slave may stay silent                                      *)
(* "corrupt": an answer may fail the CRC or carry another address          *)
(* "outrun":  modbus-m may be kept from the events it has for as long as a *)
(*            frame or t3.5 takes, by threads of other parts               *)
(* "late":    an answer may start after the respond timeout                *)
(* "stall":   a pause of t3.5 may occur inside a frame                     *)
(* "noise":   bytes may appear on an idle line                             *)
(* "early":   a byte may arrive while the transmitter is being turned off  *)
(* "max":     a frame may have MB_SER_PDU_SIZE_MAX bytes                   *)
(* "starved": threads of other parts may keep a requester from reaching    *)
(*            its wait until its request has been settled                  *)
(* "boot":    a request may be issued before the stack is ready            *)
(***************************************************************************)
Benign    == {"loss", "corrupt", "outrun"}
AllFaults == Benign \cup {"late", "stall", "noise", "early", "max",
                         "starved", "boot"}

Threads == Requesters \cup {Poll, Trans}

ASSUME MbAssumption ==
  /\ Requesters # {}
  /\ Poll # Trans
  /\ {Poll, Trans} \cap Requesters = {}
  /\ None \notin Requesters
  /\ Timed \subseteq Requesters
  /\ Prio \in [Threads -> Nat]
  /\ Addrs \subseteq Nat
  /\ NumIds \in Nat \ {0}
  /\ FrameLen \in Nat \ {0}
  /\ SemMod \in Nat \ {0, 1}
  /\ Faults \subseteq AllFaults
  /\ MaxFaults \in Nat

-----------------------------------------------------------------------------
VARIABLES
  rq,         \* where each requester is in eMBMasterReq*
  res,        \* what the last request of each requester returned
  fact,       \* history: what really became of that request
  xMasterRunRes,
  xMasterOsEvent,
  poll,       \* where modbus-m is in eMBMasterPoll
  pollEv,     \* the events rt_event_recv gave it
  ucMBFrame,  \* the buffer the static pointer ucMBFrame points to
  sndBuf,     \* request in the send PDU buffer, and who wrote it
  ucMBMasterDestAddress,
  eMBMasterCurErrorType,
  eRcvState, rcvBuf,
  eSndState,
  tx,         \* the frame eMBMasterRTUSend completed, sndCount bytes unsent
  sndCount,
  xFrameIsBroadcast,
  trans,      \* where "master trans" is in xMBMasterRTUTransmitFSM
  transStart, \* EVENT_SERIAL_TRANS_START in event_serial
  rxIrq,      \* the receive interrupt is enabled
  timerOn,    \* the timer is active
  eMasterCurTimerMode,
  slave,      \* the request a slave has heard and not answered
  wire,       \* the frame whose head, not its tail, has been on the line
  reqId,      \* number of the last request
  halted,     \* assert_failed loops forever
  faultsLeft  \* bound on the environment

reqVars   == <<rq, res, fact>>
bufVars   == <<sndBuf, ucMBMasterDestAddress, reqId>>
pollVars  == <<poll, pollEv, ucMBFrame>>
rcvVars   == <<eRcvState, rcvBuf>>
sndVars   == <<eSndState, tx, sndCount, xFrameIsBroadcast>>
transVars == <<trans, transStart, rxIrq>>
timerVars == <<timerOn, eMasterCurTimerMode>>
busVars   == <<slave, wire>>
lineVars  == <<rcvVars, sndVars, transVars, timerVars, busVars, halted,
               faultsLeft>>

vars == <<reqVars, xMasterRunRes, xMasterOsEvent, pollVars, bufVars,
          eMBMasterCurErrorType, lineVars>>

-----------------------------------------------------------------------------
(* The events of mbport.h: those modbus-m waits for, and those a requester *)
(* waits for in eMBMasterWaitRequestFinish.                                *)
Internal == {"READY", "FRAME_RECEIVED", "EXECUTE", "FRAME_SENT",
             "ERROR_PROCESS"}
Verdicts == {"PROCESS_SUCESS", "ERROR_RESPOND_TIMEOUT", "ERROR_RECEIVE_DATA",
             "ERROR_EXECUTE_FUNCTION"}
ErrorTypes == {"RESPOND_TIMEOUT", "RECEIVE_DATA", "EXECUTE_FUNCTION"}

Results == {"NO_ERR", "TIMEDOUT", "REV_DATA", "EXE_FUN", "MASTER_BUSY",
            "ILL_ARG"}

FrameKinds == {"good", "exc", "bad", "long", "max"}
OnAir     == [id : 0..NumIds, addr : 0..MaxSlave]
Frames    == [id : 0..NumIds, addr : 0..MaxSlave,
              kind : FrameKinds \cup {None}]
NoRequest == [id |-> 0, addr |-> 0]
NoFrame   == [id |-> 0, addr |-> 0, kind |-> None]
RqStates == {"idle", "take", "fill", "post", "posted", "waiting", "done"}

(* eMBMasterWaitRequestFinish: one event gives its code; several at once   *)
(* have no case in the switch and leave MB_MRE_NO_ERR.                     *)
ResultOf(evs) ==
  CASE evs = {"ERROR_RESPOND_TIMEOUT"}  -> "TIMEDOUT"
    [] evs = {"ERROR_RECEIVE_DATA"}     -> "REV_DATA"
    [] evs = {"ERROR_EXECUTE_FUNCTION"} -> "EXE_FUN"
    [] OTHER                            -> "NO_ERR"

VerdictOf(errorType) ==
  CASE errorType = "RESPOND_TIMEOUT" -> "ERROR_RESPOND_TIMEOUT"
    [] errorType = "RECEIVE_DATA"    -> "ERROR_RECEIVE_DATA"
    [] OTHER                         -> "ERROR_EXECUTE_FUNCTION"

(* Scheduling: fixed priorities, one processor.  A thread takes a step     *)
(* when no thread above it can; threads of other parts and interrupts may  *)
(* delay any of them, so a step is never forced at a given moment.         *)
Runnable(t) ==
  IF t = Poll THEN poll # "blocked"
  ELSE IF t = Trans THEN transStart \/ trans = "turned"
  ELSE rq[t] \in {"fill", "post", "posted", "done"}

CanRun(t) ==
  /\ ~halted
  /\ \A u \in Threads : Prio[u] < Prio[t] => ~Runnable(u)

(* An environment step that needs the faults in fs: none is the ordinary   *)
(* case, any other is one of the MaxFaults.                                *)
Needs(fs) ==
  \/ fs = {} /\ UNCHANGED faultsLeft
  \/ /\ fs # {} /\ fs \subseteq Faults
     /\ faultsLeft > 0
     /\ faultsLeft' = faultsLeft - 1

If(cond, f) == IF cond THEN {f} ELSE {}

Highest(S) == {t \in S : \A u \in S : Prio[t] <= Prio[u]}

(***************************************************************************)
(* xMasterOsEvent.  rt_event_send hands the bits to a suspended receiver   *)
(* at once (and clears them); otherwise they accumulate in the set.        *)
(***************************************************************************)

(* xMBMasterPortEventPost(first), then the posts of rest.                  *)
PostInternal(first, rest) ==
  IF poll = "blocked"
    THEN /\ poll' = "handle"
         /\ pollEv' = {first} \cup (xMasterOsEvent \cap Internal)
         /\ xMasterOsEvent' = (xMasterOsEvent \ Internal) \cup rest
    ELSE /\ xMasterOsEvent' = xMasterOsEvent \cup {first} \cup rest
         /\ UNCHANGED <<poll, pollEv>>

(* vMBMasterErrorCB* and vMBMasterCBRequestScuuess: the verdict goes to    *)
(* the requester that waits, or stays in the set.                          *)
PostVerdict(v) ==
  LET waiters == {t \in Requesters : rq[t] = "waiting"} IN
  \/ /\ waiters = {}
     /\ xMasterOsEvent' = xMasterOsEvent \cup {v}
     /\ UNCHANGED <<rq, res>>
  \/ \E t \in Highest(waiters) :
       /\ rq'  = [rq EXCEPT ![t] = "done"]
       /\ res' = [res EXCEPT ![t] =
                    ResultOf({v} \cup (xMasterOsEvent \cap Verdicts))]
       /\ xMasterOsEvent' = xMasterOsEvent \ Verdicts

(* History: record what became of the request in the send buffer, when the *)
(* frame that decides it carries or answers that request.                  *)
Record(id, outcome) ==
  fact' = [t \in Requesters |->
             IF /\ t = sndBuf.owner
                /\ id = sndBuf.id
                /\ fact[t] = "open"
             THEN outcome ELSE fact[t]]

-----------------------------------------------------------------------------
(* The requesters: eMBMasterReqWriteHoldingRegister and its siblings.      *)

Ready == /\ eRcvState # "INIT"
         /\ "READY" \notin xMasterOsEvent \cup pollEv

(* xMBMasterRunResTake: rt_sem_take takes the value, or suspends.          *)
RunResTakeUnchecked(t) ==           \* mutated: the value is not looked at
  /\ xMasterRunRes' = xMasterRunRes - 1
  /\ rq' = [rq EXCEPT ![t] = "fill"]

RunResTake(t) ==
  \/ /\ xMasterRunRes > 0
     /\ xMasterRunRes' = xMasterRunRes - 1
     /\ rq' = [rq EXCEPT ![t] = "fill"]
  \/ /\ xMasterRunRes = 0
     /\ rq' = [rq EXCEPT ![t] = "take"]
     /\ UNCHANGED xMasterRunRes

(* Entry of eMBMasterReq*: the address check, then xMBMasterRunResTake.    *)
Request(t) ==
  /\ rq[t] = "idle"
  /\ CanRun(t)
  /\ Needs(If(~Ready, "boot"))
  /\ \/ /\ \E a \in Addrs : a > MaxSlave
        /\ rq'   = [rq EXCEPT ![t] = "done"]
        /\ res'  = [res EXCEPT ![t] = "ILL_ARG"]
        /\ fact' = [fact EXCEPT ![t] = "ILL_ARG"]
        /\ UNCHANGED xMasterRunRes
     \/ /\ RunResTake(t)
        /\ fact' = [fact EXCEPT ![t] = "open"]
        /\ UNCHANGED res
  /\ UNCHANGED <<xMasterOsEvent, pollVars, bufVars, eMBMasterCurErrorType,
                 rcvVars, sndVars, transVars, timerVars, busVars, halted>>

(* The semaphore is not released within lTimeOut.                          *)
TakeTimeoutIgnored(t) ==            \* mutated: xMBMasterRunResTake succeeds
  /\ ~halted
  /\ t \in Timed
  /\ rq[t] = "take"
  /\ rq' = [rq EXCEPT ![t] = "fill"]
  /\ UNCHANGED <<res, fact, xMasterRunRes, xMasterOsEvent, pollVars, bufVars,
                 eMBMasterCurErrorType, lineVars>>

TakeTimeout(t) ==
  /\ ~halted
  /\ t \in Timed
  /\ rq[t] = "take"
  /\ rq'   = [rq EXCEPT ![t] = "done"]
  /\ res'  = [res EXCEPT ![t] = "MASTER_BUSY"]
  /\ fact' = [fact EXCEPT ![t] = "MASTER_BUSY"]
  /\ UNCHANGED <<xMasterRunRes, xMasterOsEvent, pollVars, bufVars,
                 eMBMasterCurErrorType, lineVars>>

(* Build the request PDU in the shared send buffer.                        *)
Fill(t) ==
  /\ rq[t] = "fill"
  /\ CanRun(t)
  /\ rq' = [rq EXCEPT ![t] = "post"]
  /\ reqId' = (reqId % NumIds) + 1
  /\ sndBuf' = [id |-> reqId', owner |-> t]
  /\ \E a \in Addrs : a <= MaxSlave /\ ucMBMasterDestAddress' = a
  /\ UNCHANGED <<res, fact, xMasterRunRes, xMasterOsEvent, pollVars,
                 eMBMasterCurErrorType, lineVars>>

PostFrameSent(t) ==
  /\ rq[t] = "post"
  /\ CanRun(t)
  /\ rq' = [rq EXCEPT ![t] = "posted"]
  /\ PostInternal("FRAME_SENT", {})
  /\ UNCHANGED <<res, fact, xMasterRunRes, ucMBFrame, bufVars,
                 eMBMasterCurErrorType, lineVars>>

(* eMBMasterWaitRequestFinish: take the verdicts present, or suspend.      *)
WaitRequestFinish(t) ==
  /\ rq[t] = "posted"
  /\ CanRun(t)
  /\ \/ /\ xMasterOsEvent \cap Verdicts = {}
        /\ rq' = [rq EXCEPT ![t] = "waiting"]
        /\ UNCHANGED <<res, xMasterOsEvent>>
     \/ /\ xMasterOsEvent \cap Verdicts # {}
        /\ rq'  = [rq EXCEPT ![t] = "done"]
        /\ res' = [res EXCEPT ![t] = ResultOf(xMasterOsEvent \cap Verdicts)]
        /\ xMasterOsEvent' = xMasterOsEvent \ Verdicts
  /\ UNCHANGED <<fact, xMasterRunRes, pollVars, bufVars,
                 eMBMasterCurErrorType, lineVars>>

(* The caller gets the result; it sleeps, or retries with a new request.   *)
Return(t) ==
  /\ rq[t] = "done"
  /\ CanRun(t)
  /\ rq'   = [rq EXCEPT ![t] = "idle"]
  /\ res'  = [res EXCEPT ![t] = None]
  /\ fact' = [fact EXCEPT ![t] = None]
  /\ UNCHANGED <<xMasterRunRes, xMasterOsEvent, pollVars, bufVars,
                 eMBMasterCurErrorType, lineVars>>

-----------------------------------------------------------------------------
(* The thread modbus-m: eMBMasterPoll in a loop.                           *)

(* xMBMasterPortEventGet.                                                  *)
EventGet ==
  /\ poll = "get"
  /\ CanRun(Poll)
  /\ \/ /\ xMasterOsEvent \cap Internal = {}
        /\ poll' = "blocked"
        /\ UNCHANGED <<pollEv, xMasterOsEvent>>
     \/ /\ xMasterOsEvent \cap Internal # {}
        /\ poll' = "handle"
        /\ pollEv' = xMasterOsEvent \cap Internal
        /\ xMasterOsEvent' = xMasterOsEvent \ Internal
  /\ UNCHANGED <<reqVars, xMasterRunRes, ucMBFrame, bufVars,
                 eMBMasterCurErrorType, lineVars>>

Handles(e) == /\ poll = "handle"
              /\ pollEv = {e}
              /\ CanRun(Poll)

(* Several bits at once match no case of the switch in EventGet: the local *)
(* eEvent of eMBMasterPoll keeps whatever its stack slot holds.            *)
PollUndefined ==
  /\ poll = "handle"
  /\ Cardinality(pollEv) > 1
  /\ CanRun(Poll)
  /\ \/ \E e \in Internal : pollEv' = {e} /\ UNCHANGED poll
     \/ pollEv' = {} /\ poll' = "get"
  /\ UNCHANGED <<reqVars, xMasterRunRes, xMasterOsEvent, ucMBFrame, bufVars,
                 eMBMasterCurErrorType, lineVars>>

PollReady ==
  /\ Handles("READY")
  /\ poll' = "get"
  /\ pollEv' = {}
  /\ UNCHANGED <<reqVars, xMasterRunRes, xMasterOsEvent, ucMBFrame, bufVars,
                 eMBMasterCurErrorType, lineVars>>

(* eMBMasterRTUReceive: MB_SER_PDU_SIZE_MIN and CRC.                       *)
CrcOk == rcvBuf.kind \in {"good", "exc"}

PollFrameReceived ==
  /\ Handles("FRAME_RECEIVED")
  /\ poll' = "get"
  /\ pollEv' = {}
  /\ IF rcvBuf.kind = "max"       \* assert_param( pos < 256 )
       THEN /\ halted' = TRUE
            /\ UNCHANGED <<ucMBFrame, xMasterOsEvent, fact,
                           eMBMasterCurErrorType>>
       ELSE /\ ucMBFrame' = IF CrcOk THEN "rcv" ELSE ucMBFrame
            /\ IF CrcOk /\ rcvBuf.addr = ucMBMasterDestAddress
                 THEN /\ xMasterOsEvent' = xMasterOsEvent \cup {"EXECUTE"}
                      /\ UNCHANGED <<fact, eMBMasterCurErrorType>>
                 ELSE /\ eMBMasterCurErrorType' = "RECEIVE_DATA"
                      /\ xMasterOsEvent' =
                           xMasterOsEvent \cup {"ERROR_PROCESS"}
                      /\ Record(rcvBuf.id, "REV_DATA")
            /\ UNCHANGED halted
  /\ UNCHANGED <<rq, res, xMasterRunRes, bufVars, rcvVars, sndVars,
                 transVars, timerVars, busVars, faultsLeft>>

(* Which request the PDU under ucMBFrame carries or answers.               *)
ExecutedId == CASE ucMBFrame = "rcv" -> rcvBuf.id
                [] ucMBFrame = "snd" -> tx.id
                [] OTHER             -> 0

IsException == ucMBFrame = "rcv" /\ rcvBuf.kind = "exc"

(* The exception branch, or the handler of the function code: it checks    *)
(* the answer against the send buffer and hands it to the register         *)
(* callback, which may refuse it.                                          *)
PollExecute ==
  /\ Handles("EXECUTE")
  /\ pollEv' = {}
  /\ ucMBMasterDestAddress' = IF ~IsException /\ xFrameIsBroadcast
                                THEN MaxSlave ELSE ucMBMasterDestAddress
  /\ \/ /\ ~IsException
        /\ poll' = "release"
        /\ PostVerdict("PROCESS_SUCESS")
        /\ Record(ExecutedId, "NO_ERR")
        /\ UNCHANGED eMBMasterCurErrorType
     \/ /\ poll' = "get"
        /\ eMBMasterCurErrorType' = "EXECUTE_FUNCTION"
        /\ xMasterOsEvent' = xMasterOsEvent \cup {"ERROR_PROCESS"}
        /\ Record(ExecutedId, "EXE_FUN")
        /\ UNCHANGED <<rq, res>>
  /\ UNCHANGED <<xMasterRunRes, ucMBFrame, sndBuf, reqId, lineVars>>

(* eMBMasterRTUSend, its status ignored.                                   *)
PollFrameSentBlindly ==             \* mutated: the receiver may be busy
  /\ Handles("FRAME_SENT")
  /\ poll' = "get"
  /\ pollEv' = {}
  /\ ucMBFrame' = "snd"
  /\ tx' = [id |-> sndBuf.id, addr |-> ucMBMasterDestAddress]
  /\ sndCount' = FrameLen
  /\ eSndState' = "XMIT"
  /\ rxIrq' = FALSE
  /\ transStart' = TRUE
  /\ UNCHANGED <<reqVars, xMasterRunRes, xMasterOsEvent, bufVars,
                 eMBMasterCurErrorType, rcvVars, xFrameIsBroadcast, trans,
                 timerVars, busVars, halted, faultsLeft>>

PollFrameSent ==
  /\ Handles("FRAME_SENT")
  /\ poll' = "get"
  /\ pollEv' = {}
  /\ ucMBFrame' = "snd"
  /\ IF eRcvState = "IDLE"
       THEN /\ tx' = [id |-> sndBuf.id, addr |-> ucMBMasterDestAddress]
            /\ sndCount' = FrameLen
            /\ eSndState' = "XMIT"
            /\ rxIrq' = FALSE
            /\ transStart' = TRUE
       ELSE UNCHANGED <<tx, sndCount, eSndState, rxIrq, transStart>>
  /\ UNCHANGED <<reqVars, xMasterRunRes, xMasterOsEvent, bufVars,
                 eMBMasterCurErrorType, rcvVars, xFrameIsBroadcast, trans,
                 timerVars, busVars, halted, faultsLeft>>

PollErrorKeeps ==                   \* mutated: the resource is not released
  /\ Handles("ERROR_PROCESS")
  /\ poll' = "get"
  /\ pollEv' = {}
  /\ ucMBFrame' = "snd"
  /\ PostVerdict(VerdictOf(eMBMasterCurErrorType))
  /\ UNCHANGED <<fact, xMasterRunRes, bufVars, eMBMasterCurErrorType,
                 lineVars>>

PollErrorProcess ==
  /\ Handles("ERROR_PROCESS")
  /\ poll' = "release"
  /\ pollEv' = {}
  /\ ucMBFrame' = "snd"
  /\ PostVerdict(VerdictOf(eMBMasterCurErrorType))
  /\ UNCHANGED <<fact, xMasterRunRes, bufVars, eMBMasterCurErrorType,
                 lineVars>>

(* vMBMasterRunResRelease: the semaphore goes to the waiter of the highest *)
(* priority, or its 16-bit value is incremented.                           *)
RunResReleaseTwice ==               \* mutated: value raised and waiter woken
  /\ poll = "release"
  /\ CanRun(Poll)
  /\ poll' = "get"
  /\ LET waiters == {t \in Requesters : rq[t] = "take"} IN
       rq' = [t \in Requesters |->
                IF t \in Highest(waiters) THEN "fill" ELSE rq[t]]
  /\ xMasterRunRes' = (xMasterRunRes + 1) % SemMod
  /\ UNCHANGED <<res, fact, xMasterOsEvent, pollEv, ucMBFrame, bufVars,
                 eMBMasterCurErrorType, lineVars>>

RunResRelease ==
  /\ poll = "release"
  /\ CanRun(Poll)
  /\ poll' = "get"
  /\ LET waiters == {t \in Requesters : rq[t] = "take"} IN
     \/ /\ waiters = {}
        /\ xMasterRunRes' = (xMasterRunRes + 1) % SemMod
        /\ UNCHANGED rq
     \/ /\ \E t \in Highest(waiters) : rq' = [rq EXCEPT ![t] = "fill"]
        /\ UNCHANGED xMasterRunRes
  /\ UNCHANGED <<res, fact, xMasterOsEvent, pollEv, ucMBFrame, bufVars,
                 eMBMasterCurErrorType, lineVars>>

-----------------------------------------------------------------------------
(* The thread "master trans": xMBMasterRTUTransmitFSM while the start      *)
(* event is set (it is not cleared by the receive).  TransmitEntry below   *)
(* says that its assertion on eRcvState holds and that its branch for      *)
(* STATE_M_TX_IDLE is never entered, so neither is an action here.         *)

TransByteAtZero ==     \* mutated: usMasterSndBufferCount >= 0
  /\ trans = "loop" /\ transStart
  /\ eSndState = "XMIT" /\ sndCount >= 0
  /\ CanRun(Trans)
  /\ sndCount' = sndCount - 1
  /\ UNCHANGED <<reqVars, xMasterRunRes, xMasterOsEvent, pollVars, bufVars,
                 eMBMasterCurErrorType, rcvVars, eSndState, tx,
                 xFrameIsBroadcast, transVars, timerVars, busVars, halted,
                 faultsLeft>>

TransByte ==           \* STATE_M_TX_XMIT, bytes left
  /\ trans = "loop" /\ transStart
  /\ eSndState = "XMIT" /\ sndCount > 0
  /\ CanRun(Trans)
  /\ sndCount' = sndCount - 1
  /\ UNCHANGED <<reqVars, xMasterRunRes, xMasterOsEvent, pollVars, bufVars,
                 eMBMasterCurErrorType, rcvVars, eSndState, tx,
                 xFrameIsBroadcast, transVars, timerVars, busVars, halted,
                 faultsLeft>>

(* STATE_M_TX_XMIT, no byte left: the line is turned round first; the      *)
(* slave has heard the frame, unless its buffer was rewritten meanwhile.   *)
TransTurnTimed ==      \* mutated: the timer is started before the state
  /\ trans = "loop" /\ transStart
  /\ eSndState = "XMIT" /\ sndCount = 0
  /\ CanRun(Trans)
  /\ xFrameIsBroadcast' = (tx.addr = 0)
  /\ rxIrq' = TRUE
  /\ transStart' = FALSE
  /\ trans' = "turned"
  /\ slave' = IF tx.addr # 0 /\ tx.id = sndBuf.id THEN tx ELSE slave
  /\ timerOn' = TRUE
  /\ eMasterCurTimerMode' = "RESPOND_TIMEOUT"
  /\ UNCHANGED <<reqVars, xMasterRunRes, xMasterOsEvent, pollVars, bufVars,
                 eMBMasterCurErrorType, rcvVars, eSndState, tx, sndCount,
                 wire, halted, faultsLeft>>

TransTurn ==
  /\ trans = "loop" /\ transStart
  /\ eSndState = "XMIT" /\ sndCount = 0
  /\ CanRun(Trans)
  /\ xFrameIsBroadcast' = (tx.addr = 0)
  /\ rxIrq' = TRUE
  /\ transStart' = FALSE
  /\ trans' = "turned"
  /\ slave' = IF tx.addr # 0 /\ tx.id = sndBuf.id THEN tx ELSE slave
  /\ UNCHANGED <<reqVars, xMasterRunRes, xMasterOsEvent, pollVars, bufVars,
                 eMBMasterCurErrorType, rcvVars, eSndState, tx, sndCount,
                 timerVars, wire, halted, faultsLeft>>

(* ... and only then STATE_M_TX_XFWR is entered and the timer started.     *)
AnswerTimerUnicast ==  \* mutated: a broadcast waits without a timer
  /\ timerOn' = IF xFrameIsBroadcast THEN timerOn ELSE TRUE
  /\ eMasterCurTimerMode' = "RESPOND_TIMEOUT"

AnswerTimer ==
  /\ timerOn' = TRUE
  /\ eMasterCurTimerMode' = IF xFrameIsBroadcast THEN "CONVERT_DELAY"
                                                 ELSE "RESPOND_TIMEOUT"

TransDone ==
  /\ trans = "turned"
  /\ CanRun(Trans)
  /\ trans' = "loop"
  /\ eSndState' = "XFWR"
  /\ AnswerTimer
  /\ UNCHANGED <<reqVars, xMasterRunRes, xMasterOsEvent, pollVars, bufVars,
                 eMBMasterCurErrorType, rcvVars, tx, sndCount,
                 xFrameIsBroadcast, transStart, rxIrq, busVars, halted,
                 faultsLeft>>

-----------------------------------------------------------------------------
(* The receive interrupt: xMBMasterRTUReceiveFSM.  A received part is the  *)
(* head of a frame or its tail (the bytes that complete it).               *)

(* vMBMasterPortTimersT35Enable.                                           *)
T35EnableKeepsStopped ==  \* mutated: the timer is not started
  UNCHANGED timerOn /\ eMasterCurTimerMode' = "T35"

T35Enable == timerOn' = TRUE /\ eMasterCurTimerMode' = "T35"

(* The buffer after the part of frame f has been appended to it.           *)
Appended(f, part) ==
  [rcvBuf EXCEPT !.kind =
     IF part = "tail" /\ @ = "part" /\ rcvBuf.id = f.id THEN f.kind
                                                        ELSE "bad"]

(* STATE_M_RX_IDLE: the first byte begins a frame and ends the wait for    *)
(* the answer.                                                             *)
FirstByteKeepsWaiting(f, part) ==   \* mutated: eSndState stays as it was
  /\ UNCHANGED eSndState
  /\ eRcvState' = "RCV"
  /\ rcvBuf' = [id |-> f.id, addr |-> f.addr,
                kind |-> IF part = "head" THEN "part" ELSE "bad"]

FirstByte(f, part) ==
  /\ eSndState' = "IDLE"
  /\ eRcvState' = "RCV"
  /\ rcvBuf' = [id |-> f.id, addr |-> f.addr,
                kind |-> IF part = "head" THEN "part" ELSE "bad"]

ReceiveFSM(f, part) ==
  IF ~rxIrq
    THEN UNCHANGED <<eRcvState, rcvBuf, eSndState, timerVars, halted>>
  ELSE IF eSndState = "XMIT"      \* assert_param( TX_IDLE or TX_XFWR )
    THEN /\ halted' = TRUE
         /\ UNCHANGED <<eRcvState, rcvBuf, eSndState, timerVars>>
  ELSE /\ T35Enable
       /\ UNCHANGED halted
       /\ \/ /\ eRcvState \in {"INIT", "ERROR"}
             /\ UNCHANGED <<eRcvState, rcvBuf, eSndState>>
          \/ eRcvState = "IDLE" /\ FirstByte(f, part)
          \/ /\ eRcvState = "RCV"
             /\ rcvBuf' = Appended(f, part)
             /\ eRcvState' = IF part = "tail" /\ f.kind = "long"
                               THEN "ERROR" ELSE "RCV"
             /\ UNCHANGED eSndState

RxUnchanged ==
  UNCHANGED <<reqVars, xMasterRunRes, xMasterOsEvent, pollVars, bufVars,
              eMBMasterCurErrorType, tx, sndCount, xFrameIsBroadcast,
              transVars>>

-----------------------------------------------------------------------------
(* The bus.  Timing assumptions are the guards that name a fault.          *)

(* A request is settled before its thread has reached its wait.            *)
Starved == \E t \in Requesters : rq[t] = "posted"

(* modbus-m has handled every event it was given.                          *)
Abreast == poll # "handle" /\ poll # "release" /\ xMasterOsEvent = {}

BusMoves == ~halted /\ (Abreast \/ "outrun" \in Faults)

AnswerKinds == {"good", "exc"}
                 \cup If("corrupt" \in Faults, "bad")
                 \cup If("corrupt" \in Faults, "long")
                 \cup (Faults \cap {"max"})

(* A byte that arrives while the receive interrupt is off is lost.         *)
Damaged(f) == IF rxIrq THEN f ELSE [f EXCEPT !.kind = "bad"]

AnswerHead ==
  /\ BusMoves
  /\ slave # NoRequest /\ wire.kind = None
  /\ \E k \in AnswerKinds :
       LET f == [id |-> slave.id, addr |-> slave.addr, kind |-> k] IN
       /\ Needs(If(trans = "turned", "early") \cup If(Starved, "starved")
                  \cup If(k = "max", "max"))
       /\ wire' = Damaged(f)
       /\ ReceiveFSM(f, "head")
  /\ slave' = NoRequest
  /\ RxUnchanged

NoiseHead ==
  /\ BusMoves
  /\ Needs({"noise"} \cup If(trans = "turned", "early"))
  /\ wire.kind = None
  /\ LET f == [id |-> 0, addr |-> 0, kind |-> "bad"] IN
     /\ wire' = f
     /\ ReceiveFSM(f, "head")
  /\ UNCHANGED slave
  /\ RxUnchanged

FrameTail ==
  /\ ~halted
  /\ Needs(If(trans = "turned", "early"))
  /\ wire.kind # None
  /\ ReceiveFSM(wire, "tail")
  /\ wire' = NoFrame
  /\ UNCHANGED slave
  /\ RxUnchanged

SlaveSilent ==
  /\ ~halted
  /\ "loss" \in Faults
  /\ slave # NoRequest
  /\ slave' = NoRequest
  /\ UNCHANGED <<reqVars, xMasterRunRes, xMasterOsEvent, pollVars, bufVars,
                 eMBMasterCurErrorType, rcvVars, sndVars, transVars,
                 timerVars, wire, halted, faultsLeft>>

-----------------------------------------------------------------------------
(* The timer interrupt: xMBMasterRTUTimerExpired.                          *)

ExpiryFaults ==
  IF eMasterCurTimerMode = "T35" THEN If(wire.kind # None, "stall")
  ELSE If(Starved, "starved")
         \cup If(eMasterCurTimerMode = "RESPOND_TIMEOUT"
                   /\ slave # NoRequest, "late")

RcvEvent == CASE eRcvState = "INIT"  -> "READY"
              [] eRcvState = "RCV"   -> "FRAME_RECEIVED"
              [] eRcvState = "ERROR" -> "ERROR_PROCESS"
              [] OTHER               -> None

AnswerTimedOut == eSndState = "XFWR" /\ ~xFrameIsBroadcast

(* The error type the handler leaves for the poll thread.                  *)
ExpiryErrorTypeStale ==             \* mutated: not set on a respond timeout
  IF eRcvState = "ERROR" THEN "RECEIVE_DATA" ELSE eMBMasterCurErrorType

ExpiryErrorType ==
  IF AnswerTimedOut THEN "RESPOND_TIMEOUT"
  ELSE IF eRcvState = "ERROR" THEN "RECEIVE_DATA"
  ELSE eMBMasterCurErrorType

(* The three posts of the handler, in order; None where it posts nothing.  *)
PostThree(a, b, c) ==
  IF a # None THEN PostInternal(a, {b, c} \ {None})
  ELSE IF b # None THEN PostInternal(b, {c} \ {None})
  ELSE IF c # None THEN PostInternal(c, {})
  ELSE UNCHANGED <<poll, pollEv, xMasterOsEvent>>

(* eRcvState = STATE_M_RX_IDLE after the switch.                           *)
ReceiverRestsUnlessRcv ==           \* mutated: only in the other cases
  eRcvState' = IF eRcvState = "RCV" THEN "RCV" ELSE "IDLE"

ReceiverRests == eRcvState' = "IDLE"

(* The assert_param of the second switch, when eSndState is still XMIT,    *)
(* comes after the first switch has posted its event.                      *)
TimerExpired ==
  /\ BusMoves
  /\ timerOn
  /\ Needs(ExpiryFaults)
  /\ PostThree(RcvEvent,
               IF AnswerTimedOut THEN "ERROR_PROCESS" ELSE None,
               IF eMasterCurTimerMode = "CONVERT_DELAY" /\ eSndState # "XMIT"
                 THEN "EXECUTE" ELSE None)
  /\ eMBMasterCurErrorType' = ExpiryErrorType
  /\ IF AnswerTimedOut THEN Record(tx.id, "TIMEDOUT")
     ELSE IF eRcvState = "ERROR" THEN Record(rcvBuf.id, "REV_DATA")
     ELSE UNCHANGED fact
  /\ ReceiverRests
  /\ IF eSndState = "XMIT"
       THEN halted' = TRUE /\ UNCHANGED <<eSndState, timerOn>>
       ELSE eSndState' = "IDLE" /\ timerOn' = FALSE /\ UNCHANGED halted
  /\ UNCHANGED <<rq, res, xMasterRunRes, ucMBFrame, bufVars, rcvBuf, tx,
                 sndCount, xFrameIsBroadcast, transVars,
                 eMasterCurTimerMode, busVars>>

-----------------------------------------------------------------------------
(* After eMBMasterInit and eMBMasterEnable: the receiver is in its initial *)
(* state, t3.5 is running, the receive interrupt is on.                    *)
Init ==
  /\ rq   = [t \in Requesters |-> "idle"]
  /\ res  = [t \in Requesters |-> None]
  /\ fact = [t \in Requesters |-> None]
  /\ xMasterRunRes = 1
  /\ xMasterOsEvent = {}
  /\ poll = "get" /\ pollEv = {} /\ ucMBFrame = None
  /\ sndBuf = [id |-> 0, owner |-> None]
  /\ ucMBMasterDestAddress = 0
  /\ eMBMasterCurErrorType = "RESPOND_TIMEOUT"   \* the enumerator 0
  /\ eRcvState = "INIT"
  /\ rcvBuf = [id |-> 0, addr |-> 0, kind |-> "bad"]
  /\ eSndState = "IDLE"
  /\ tx = NoRequest
  /\ sndCount = 0
  /\ xFrameIsBroadcast = FALSE
  /\ trans = "loop" /\ transStart = FALSE /\ rxIrq = TRUE
  /\ timerOn = TRUE /\ eMasterCurTimerMode = "T35"
  /\ slave = NoRequest /\ wire = NoFrame
  /\ reqId = 0
  /\ halted = FALSE
  /\ faultsLeft = MaxFaults

RequesterStep(t) == \/ Request(t)
                    \/ TakeTimeout(t)
                    \/ Fill(t)
                    \/ PostFrameSent(t)
                    \/ WaitRequestFinish(t)
                    \/ Return(t)

PollStep == \/ EventGet
            \/ PollUndefined
            \/ PollReady
            \/ PollFrameReceived
            \/ PollExecute
            \/ PollFrameSent
            \/ PollErrorProcess
            \/ RunResRelease

TransStep == TransByte \/ TransTurn \/ TransDone

BusStep == AnswerHead \/ NoiseHead \/ FrameTail \/ SlaveSilent

Next == \/ \E t \in Requesters : RequesterStep(t)
        \/ PollStep
        \/ TransStep
        \/ BusStep
        \/ TimerExpired

Spec == Init /\ [][Next]_vars

(* Strong fairness of the threads: a thread above one that is ready keeps  *)
(* it waiting, but sleeps again and again (modbus-a a second after every   *)
(* request, modbus-m in its wait while the bus is busy), and then the      *)
(* scheduler runs the other.  A suspended take with a finite timeout ends; *)
(* a heard request is answered or not, a frame that began ends, and the    *)
(* timer interrupt comes.                                                  *)
Fairness ==
  /\ \A t \in Requesters :
       /\ SF_vars(Fill(t) \/ PostFrameSent(t) \/ WaitRequestFinish(t)
                    \/ Return(t))
       /\ WF_vars(TakeTimeout(t))
  /\ SF_vars(PollStep)
  /\ SF_vars(EventGet /\ poll' = "blocked")
  /\ SF_vars(TransStep)
  /\ WF_vars(AnswerHead \/ SlaveSilent)
  /\ WF_vars(FrameTail)
  /\ WF_vars(TimerExpired)

FairSpec == Spec /\ Fairness

-----------------------------------------------------------------------------
TypeOK ==
  /\ rq   \in [Requesters -> RqStates]
  /\ res  \in [Requesters -> Results \cup {None}]
  /\ fact \in [Requesters -> Results \cup {None, "open"}]
  /\ xMasterRunRes \in 0..(SemMod - 1)
  /\ xMasterOsEvent \subseteq Internal \cup Verdicts
  /\ poll \in {"get", "blocked", "handle", "release"}
  /\ pollEv \subseteq Internal
  /\ ucMBFrame \in {None, "rcv", "snd"}
  /\ sndBuf \in [id : 0..NumIds, owner : Requesters \cup {None}]
  /\ ucMBMasterDestAddress \in 0..MaxSlave
  /\ eMBMasterCurErrorType \in ErrorTypes
  /\ eRcvState \in {"INIT", "IDLE", "RCV", "ERROR"}
  /\ rcvBuf \in [id : 0..NumIds, addr : 0..MaxSlave,
                 kind : FrameKinds \cup {"part"}]
  /\ eSndState \in {"IDLE", "XMIT", "XFWR"}
  /\ tx \in OnAir
  /\ sndCount \in 0..FrameLen
  /\ xFrameIsBroadcast \in BOOLEAN
  /\ trans \in {"loop", "turned"}
  /\ transStart \in BOOLEAN
  /\ rxIrq \in BOOLEAN
  /\ timerOn \in BOOLEAN
  /\ eMasterCurTimerMode \in {"T35", "RESPOND_TIMEOUT", "CONVERT_DELAY"}
  /\ slave \in OnAir
  /\ wire \in Frames
  /\ reqId \in 0..NumIds
  /\ halted \in BOOLEAN
  /\ faultsLeft \in 0..MaxFaults

-----------------------------------------------------------------------------
(* The requesters that hold the right to use the master.                   *)
InService == {t \in Requesters :
                rq[t] \in {"fill", "post", "posted", "waiting"}}

Releasing == IF poll = "release" THEN 1 ELSE 0

(* xMasterRunRes is a mutual exclusion: free, or owned by one requester,   *)
(* or about to be given back by modbus-m -- never two of them, never none. *)
(* eMBMasterReq* takes it and eMBMasterPoll, another thread, releases it   *)
(* on whatever event ends a request.                                       *)
RunResBalance ==
  xMasterRunRes + Cardinality(InService) + Releasing = 1

(* The code a request returns is what became of that very request, not of  *)
(* an earlier one or of another thread's: the verdict travels through one  *)
(* event set that every requester waits on.                                *)
OwnVerdict == \A t \in Requesters : rq[t] = "done" => res[t] = fact[t]

(* A call returns success only for a request that was carried out.         *)
SuccessIsReal ==
  \A t \in Requesters :
    rq[t] = "done" /\ res[t] = "NO_ERR" => fact[t] = "NO_ERR"

(* modbus-m never finds two events pending: the switch in                  *)
(* xMBMasterPortEventGet has a case for single bits only.                  *)
SingleEvent == poll = "handle" => Cardinality(pollEv) = 1

(* When modbus-m is about to send a request the receiver is idle, so       *)
(* eMBMasterRTUSend does not refuse it (its caller ignores the refusal).   *)
SendAccepted ==
  poll = "handle" /\ pollEv = {"FRAME_SENT"} => eRcvState = "IDLE"

(* No assert_param of mbrtu_m.c fails: startup.c then loops forever.       *)
AssertsHold == ~halted

(* The one timer, shared by t3.5, the respond timeout and the broadcast    *)
(* delay, runs whenever the protocol waits for it to go on.                *)
Watched == eRcvState # "IDLE" \/ eSndState = "XFWR" => timerOn

(* The shared send buffer is rewritten only when no frame is in it that    *)
(* the poll thread, the transmitter or a pending event still needs.        *)
BufferAtRest == /\ eSndState = "IDLE"
                /\ ~transStart
                /\ xMasterOsEvent \cup pollEv = {}
                /\ poll # "release"
FillAtRest == [][sndBuf' # sndBuf => BufferAtRest]_vars

(* While the start event keeps the transmit handler running, there is a    *)
(* frame to send, the receiver is idle and its interrupt is off: the       *)
(* assertion of xMBMasterRTUTransmitFSM, and "we should not get a          *)
(* transmitter event if the transmitter is in idle state".                 *)
TransmitEntry ==
  transStart => /\ trans = "loop"
                /\ eSndState = "XMIT"
                /\ eRcvState = "IDLE"
                /\ ~rxIrq

-----------------------------------------------------------------------------
(* The stages of a request on a benign bus.  In each of them one actor has *)
(* the request in hand, and everybody else is at rest.                     *)
LineRests == /\ eRcvState = "IDLE" /\ eSndState = "IDLE"
             /\ trans = "loop" /\ ~transStart
             /\ ~timerOn
             /\ slave = NoRequest /\ wire.kind = None

PollRests == /\ poll \in {"get", "blocked"}
             /\ pollEv = {} /\ xMasterOsEvent = {}

(* Event e, and no other, is on its way to modbus-m or has reached it.     *)
Pending(e) ==
  \/ poll = "get"    /\ pollEv = {}  /\ xMasterOsEvent = {e}
  \/ poll = "handle" /\ pollEv = {e} /\ xMasterOsEvent = {}

Outside == {"idle", "take", "done"}

NobodyServed == \A t \in Requesters : rq[t] \in Outside

(* One requester holds the resource, at one of the places in S.            *)
Served(S) ==
  /\ xMasterRunRes = 0
  /\ \E t \in Requesters :
       /\ rq[t] \in S
       /\ \A u \in Requesters \ {t} : rq[u] \in Outside

Starting == /\ xMasterRunRes = 1 /\ NobodyServed /\ PollRests
            /\ eRcvState = "INIT" /\ eSndState = "IDLE"
            /\ trans = "loop" /\ ~transStart
            /\ timerOn /\ eMasterCurTimerMode = "T35"
            /\ slave = NoRequest /\ wire.kind = None

Free == /\ xMasterRunRes = 1 /\ NobodyServed
        /\ PollRests \/ Pending("READY")
        /\ LineRests

Preparing == Served({"fill", "post"}) /\ PollRests /\ LineRests

Queued == Served({"posted", "waiting"}) /\ Pending("FRAME_SENT") /\ LineRests

Sending == /\ Served({"posted", "waiting"}) /\ PollRests
           /\ eRcvState = "IDLE" /\ eSndState = "XMIT"
           /\ trans = "loop" /\ transStart /\ ~rxIrq
           /\ ~timerOn
           /\ slave = NoRequest /\ wire.kind = None

Turning == /\ Served({"posted", "waiting"}) /\ PollRests
           /\ eRcvState = "IDLE" /\ eSndState = "XMIT"
           /\ trans = "turned" /\ ~transStart /\ rxIrq
           /\ ~timerOn
           /\ xFrameIsBroadcast => slave = NoRequest
           /\ wire.kind = None

Awaiting == /\ Served({"posted", "waiting"}) /\ PollRests
            /\ eRcvState = "IDLE" /\ eSndState = "XFWR"
            /\ trans = "loop" /\ ~transStart /\ rxIrq
            /\ timerOn
            /\ eMasterCurTimerMode = IF xFrameIsBroadcast
                                       THEN "CONVERT_DELAY"
                                       ELSE "RESPOND_TIMEOUT"
            /\ xFrameIsBroadcast => slave = NoRequest
            /\ wire.kind = None

Receiving == /\ Served({"waiting"}) /\ PollRests
             /\ eRcvState \in {"RCV", "ERROR"} /\ eSndState = "IDLE"
             /\ trans = "loop" /\ ~transStart /\ rxIrq
             /\ timerOn /\ eMasterCurTimerMode = "T35"
             /\ slave = NoRequest

Deciding == /\ Served({"waiting"}) /\ LineRests
            /\ \E e \in {"FRAME_RECEIVED", "EXECUTE", "ERROR_PROCESS"} :
                 Pending(e)

Settled == /\ xMasterRunRes = 0 /\ NobodyServed /\ LineRests
           /\ poll = "release" /\ pollEv = {} /\ xMasterOsEvent = {}

(* The request is always in exactly one hand: a requester's, the poll      *)
(* thread's, the transmitter's, the slave's or the timer's, which the      *)
(* seven objects they share (semaphore, event set, two buffers, timer and  *)
(* both state machines) would have to deny together to go wrong.           *)
OneHand ==
  /\ ~halted
  /\ rcvBuf.kind # "max" /\ wire.kind # "max"
  /\ \/ Starting \/ Free \/ Preparing \/ Queued \/ Sending \/ Turning
     \/ Awaiting \/ Receiving \/ Deciding \/ Settled

(* Every request that is issued returns, even if the slave never answers.  *)
RequestReturns ==
  \A t \in Requesters : rq[t] \notin {"idle", "done"} ~> rq[t] = "done"

-----------------------------------------------------------------------------
(* MbMaster implements MbRequest.                                          *)
PhaseOf(t) == CASE rq[t] = "idle" -> "idle"
                [] rq[t] = "take" -> "queued"
                [] rq[t] = "done" -> "done"
                [] OTHER          -> "busy"

(* The resource belongs to the requester in service, and to the one just   *)
(* settled until modbus-m releases it.                                     *)
Owner == IF InService # {} THEN CHOOSE t \in Requesters : t \in InService
         ELSE IF poll = "release" THEN sndBuf.owner ELSE None

R == INSTANCE MbRequest WITH phase <- [t \in Requesters |-> PhaseOf(t)],
                             outcome <- fact, result <- res, owner <- Owner

(* Every behaviour of the master on a benign bus, seen by its callers, is  *)
(* one of MbRequest: the five threads of control, two interrupts and three *)
(* kinds of timeouts together behave as one atomic request at a time.      *)
ImplementsRequest == R!Spec
=============================================================================
