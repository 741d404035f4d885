--------------------------- MODULE MbMaster_proofs ---------------------------
(***************************************************************************)
(* Theorems about MbMaster, for every set of requesters, every assignment  *)
(* of priorities, every bound and every set of faults.                     *)
(***************************************************************************)
EXTENDS MbMaster, TLAPS

(* What the kernel's modulo returns.                                       *)
LEMMA ModuloRange ==
  ASSUME NEW n \in Nat, NEW m \in Nat \ {0}
  PROVE  n % m \in 0..(m - 1)
  OBVIOUS

(* The sets the constants define.                                          *)
LEMMA EventSets ==
  /\ Internal \cap Verdicts = {}
  /\ \A e \in ErrorTypes : VerdictOf(e) \in Verdicts
  /\ \A evs : ResultOf(evs) \in Results
  BY DEF Internal, Verdicts, ErrorTypes, VerdictOf, ResultOf, Results

(* An event posted to modbus-m leaves the event set and the poll thread    *)
(* well typed.                                                             *)
LEMMA PostInternalType ==
  ASSUME TypeOK, NEW first \in Internal, NEW rest \in SUBSET Internal,
         PostInternal(first, rest)
  PROVE  /\ xMasterOsEvent' \subseteq Internal \cup Verdicts
         /\ poll' \in {"get", "blocked", "handle", "release"}
         /\ pollEv' \subseteq Internal
  BY DEF TypeOK, PostInternal

(* A verdict leaves the event set and the requesters well typed.           *)
LEMMA PostVerdictType ==
  ASSUME TypeOK, NEW v \in Verdicts, PostVerdict(v)
  PROVE  /\ xMasterOsEvent' \subseteq Internal \cup Verdicts
         /\ rq'  \in [Requesters -> RqStates]
         /\ res' \in [Requesters -> Results \cup {None}]
  BY EventSets DEF TypeOK, PostVerdict, Highest, RqStates

LEMMA RecordType ==
  ASSUME TypeOK, NEW id, NEW outcome \in Results, Record(id, outcome)
  PROVE  fact' \in [Requesters -> Results \cup {None, "open"}]
  BY DEF TypeOK, Record

(* The receive interrupt leaves the receiver, the timer and the transmit   *)
(* state well typed, for any frame and either part of it.                  *)
LEMMA ReceiveFSMType ==
  ASSUME TypeOK, NEW f \in Frames, f.kind \in FrameKinds,
         NEW part \in {"head", "tail"}, ReceiveFSM(f, part)
  PROVE  /\ eRcvState' \in {"INIT", "IDLE", "RCV", "ERROR"}
         /\ rcvBuf' \in [id : 0..NumIds, addr : 0..MaxSlave,
                         kind : FrameKinds \cup {"part"}]
         /\ eSndState' \in {"IDLE", "XMIT", "XFWR"}
         /\ timerOn' \in BOOLEAN
         /\ eMasterCurTimerMode' \in {"T35", "RESPOND_TIMEOUT",
                                      "CONVERT_DELAY"}
         /\ halted' \in BOOLEAN
<1>1. rcvBuf' \in [id : 0..NumIds, addr : 0..MaxSlave,
                  kind : FrameKinds \cup {"part"}]
  <2>1. CASE rcvBuf' = rcvBuf
    BY <2>1 DEF TypeOK
  <2>2. CASE FirstByte(f, part)
    BY <2>2 DEF FirstByte, Frames, FrameKinds
  <2>3. CASE rcvBuf' = Appended(f, part)
    BY <2>3 DEF TypeOK, Appended, FrameKinds
  <2> QED BY <2>1, <2>2, <2>3 DEF ReceiveFSM
<1> QED BY <1>1 DEF TypeOK, ReceiveFSM, T35Enable, FirstByte, timerVars

(* Every fault is charged to the budget.                                   *)
LEMMA NeedsType ==
  ASSUME TypeOK, NEW fs, Needs(fs)
  PROVE  faultsLeft' \in 0..MaxFaults
  BY MbAssumption DEF TypeOK, Needs

-----------------------------------------------------------------------------
LEMMA InitType == Init => TypeOK
<1> SUFFICES ASSUME Init PROVE TypeOK
  OBVIOUS
<1>1. NoRequest \in OnAir /\ NoFrame \in Frames
  BY MbAssumption DEF NoRequest, NoFrame, OnAir, Frames, MaxSlave
<1>2. /\ rcvBuf \in [id : 0..NumIds, addr : 0..MaxSlave,
                     kind : FrameKinds \cup {"part"}]
      /\ sndBuf \in [id : 0..NumIds, owner : Requesters \cup {None}]
  BY MbAssumption DEF Init, FrameKinds, MaxSlave
<1>3. /\ rq   \in [Requesters -> RqStates]
      /\ res  \in [Requesters -> Results \cup {None}]
      /\ fact \in [Requesters -> Results \cup {None, "open"}]
  BY DEF Init, RqStates
<1>4. /\ xMasterRunRes \in 0..(SemMod - 1)
      /\ sndCount \in 0..FrameLen
      /\ reqId \in 0..NumIds
      /\ faultsLeft \in 0..MaxFaults
      /\ ucMBMasterDestAddress \in 0..MaxSlave
  BY MbAssumption DEF Init, MaxSlave
<1>5. eMBMasterCurErrorType \in ErrorTypes
  BY DEF Init, ErrorTypes
<1> QED BY <1>1, <1>2, <1>3, <1>4, <1>5 DEF Init, TypeOK

LEMMA StutterType == TypeOK /\ UNCHANGED vars => TypeOK'
  BY DEF TypeOK, vars, reqVars, bufVars, pollVars, lineVars, rcvVars, sndVars,
         transVars, timerVars, busVars

LEMMA RequesterType ==
  ASSUME TypeOK, NEW t \in Requesters, RequesterStep(t)
  PROVE  TypeOK'
<1> USE DEF bufVars, pollVars, lineVars, rcvVars, sndVars, transVars,
            timerVars, busVars, reqVars
<1>1. CASE Request(t)
  <2>1. faultsLeft' \in 0..MaxFaults
    BY <1>1, NeedsType DEF Request
  <2> QED BY <1>1, <2>1, MbAssumption
          DEF TypeOK, Request, RunResTake, RqStates, Results
<1>2. CASE TakeTimeout(t)
  BY <1>2 DEF TypeOK, TakeTimeout, RqStates, Results
<1>3. CASE Fill(t)
  <2>1. reqId' \in 0..NumIds
    BY <1>3, MbAssumption, ModuloRange DEF TypeOK, Fill
  <2>2. ucMBMasterDestAddress' \in 0..MaxSlave
    BY <1>3, MbAssumption DEF Fill, MaxSlave
  <2> QED BY <1>3, <2>1, <2>2 DEF TypeOK, Fill, RqStates
<1>4. CASE PostFrameSent(t)
  <2>1. "FRAME_SENT" \in Internal /\ {} \in SUBSET Internal
    BY DEF Internal
  <2>2. PostInternal("FRAME_SENT", {})
    BY <1>4 DEF PostFrameSent
  <2>3. /\ xMasterOsEvent' \subseteq Internal \cup Verdicts
        /\ poll' \in {"get", "blocked", "handle", "release"}
        /\ pollEv' \subseteq Internal
    BY <2>1, <2>2, PostInternalType
  <2> QED BY <1>4, <2>3 DEF TypeOK, PostFrameSent, RqStates
<1>5. CASE WaitRequestFinish(t)
  BY <1>5, EventSets DEF TypeOK, WaitRequestFinish, RqStates
<1>6. CASE Return(t)
  BY <1>6 DEF TypeOK, Return, RqStates
<1> QED BY <1>1, <1>2, <1>3, <1>4, <1>5, <1>6 DEF RequesterStep

LEMMA PollType ==
  ASSUME TypeOK, PollStep
  PROVE  TypeOK'
<1> USE DEF bufVars, pollVars, lineVars, rcvVars, sndVars, transVars,
            timerVars, busVars, reqVars
<1>1. CASE EventGet
  BY <1>1 DEF TypeOK, EventGet
<1>2. CASE PollUndefined
  BY <1>2 DEF TypeOK, PollUndefined
<1>3. CASE PollReady
  BY <1>3 DEF TypeOK, PollReady
<1>4. CASE PollFrameReceived
  <2>1. fact' \in [Requesters -> Results \cup {None, "open"}]
    BY <1>4, RecordType DEF PollFrameReceived, TypeOK, Results
  <2>2. /\ xMasterOsEvent' \subseteq Internal \cup Verdicts
        /\ eMBMasterCurErrorType' \in ErrorTypes
        /\ ucMBFrame' \in {None, "rcv", "snd"}
        /\ halted' \in BOOLEAN
    BY <1>4 DEF TypeOK, PollFrameReceived, Internal, ErrorTypes
  <2> QED BY <1>4, <2>1, <2>2 DEF TypeOK, PollFrameReceived
<1>5. CASE PollExecute
  <2>1. fact' \in [Requesters -> Results \cup {None, "open"}]
    BY <1>5, RecordType DEF PollExecute, TypeOK, Results
  <2>2. /\ rq'  \in [Requesters -> RqStates]
        /\ res' \in [Requesters -> Results \cup {None}]
        /\ xMasterOsEvent' \subseteq Internal \cup Verdicts
    <3>1. CASE PostVerdict("PROCESS_SUCESS")
      BY <3>1, PostVerdictType DEF Verdicts
    <3>2. CASE /\ xMasterOsEvent' = xMasterOsEvent \cup {"ERROR_PROCESS"}
               /\ UNCHANGED <<rq, res>>
      BY <3>2 DEF TypeOK, Internal
    <3> QED BY <1>5, <3>1, <3>2 DEF PollExecute
  <2> QED BY <1>5, <2>1, <2>2 DEF TypeOK, PollExecute, ErrorTypes, MaxSlave
<1>6. CASE PollFrameSent
  <2>1. /\ tx' \in OnAir
        /\ sndCount' \in 0..FrameLen
        /\ eSndState' \in {"IDLE", "XMIT", "XFWR"}
        /\ rxIrq' \in BOOLEAN /\ transStart' \in BOOLEAN
    <3>1. [id |-> sndBuf.id, addr |-> ucMBMasterDestAddress] \in OnAir
      BY DEF TypeOK, OnAir
    <3>2. /\ tx' \in OnAir
          /\ eSndState' \in {"IDLE", "XMIT", "XFWR"}
          /\ rxIrq' \in BOOLEAN /\ transStart' \in BOOLEAN
      BY <1>6, <3>1 DEF TypeOK, PollFrameSent
    <3>3. sndCount' \in 0..FrameLen
      BY <1>6, MbAssumption DEF TypeOK, PollFrameSent
    <3> QED BY <3>2, <3>3
  <2> QED BY <1>6, <2>1 DEF TypeOK, PollFrameSent
<1>7. CASE PollErrorProcess
  <2>1. VerdictOf(eMBMasterCurErrorType) \in Verdicts
    BY EventSets DEF TypeOK
  <2>2. PostVerdict(VerdictOf(eMBMasterCurErrorType))
    BY <1>7 DEF PollErrorProcess
  <2>3. /\ rq'  \in [Requesters -> RqStates]
        /\ res' \in [Requesters -> Results \cup {None}]
        /\ xMasterOsEvent' \subseteq Internal \cup Verdicts
    BY <2>1, <2>2, PostVerdictType
  <2> QED BY <1>7, <2>3 DEF TypeOK, PollErrorProcess
<1>8. CASE RunResRelease
  <2>1. (xMasterRunRes + 1) % SemMod \in 0..(SemMod - 1)
    BY MbAssumption, ModuloRange DEF TypeOK
  <2> QED BY <1>8, <2>1 DEF TypeOK, RunResRelease, Highest, RqStates
<1> QED BY <1>1, <1>2, <1>3, <1>4, <1>5, <1>6, <1>7, <1>8 DEF PollStep

LEMMA TransType ==
  ASSUME TypeOK, TransStep
  PROVE  TypeOK'
<1> USE DEF bufVars, pollVars, rcvVars, transVars, timerVars, busVars,
            reqVars
<1>1. CASE TransByte
  <2>1. sndCount' \in 0..FrameLen
    BY <1>1, MbAssumption DEF TypeOK, TransByte
  <2> QED BY <1>1, <2>1 DEF TypeOK, TransByte
<1>2. CASE TransTurn
  <2>1. xFrameIsBroadcast' \in BOOLEAN
    BY <1>2 DEF TransTurn
  <2>2. slave' \in OnAir
    BY <1>2 DEF TransTurn, TypeOK
  <2>3. /\ trans' \in {"loop", "turned"}
        /\ transStart' \in BOOLEAN
        /\ rxIrq' \in BOOLEAN
    BY <1>2 DEF TransTurn
  <2>4. UNCHANGED <<rq, res, fact, xMasterRunRes, xMasterOsEvent, poll, pollEv,
                    ucMBFrame, sndBuf, ucMBMasterDestAddress,
                    eMBMasterCurErrorType, eRcvState, rcvBuf, eSndState, tx,
                    sndCount, timerOn, eMasterCurTimerMode, wire, reqId,
                    halted, faultsLeft>>
    BY <1>2 DEF TransTurn
  <2> QED BY <2>1, <2>2, <2>3, <2>4 DEF TypeOK
<1>3. CASE TransDone
  <2>1. /\ trans' \in {"loop", "turned"}
        /\ eSndState' \in {"IDLE", "XMIT", "XFWR"}
        /\ timerOn' \in BOOLEAN
        /\ eMasterCurTimerMode' \in {"T35", "RESPOND_TIMEOUT", "CONVERT_DELAY"}
    BY <1>3 DEF TransDone, AnswerTimer
  <2>2. UNCHANGED <<rq, res, fact, xMasterRunRes, xMasterOsEvent, poll, pollEv,
                    ucMBFrame, sndBuf, ucMBMasterDestAddress,
                    eMBMasterCurErrorType, eRcvState, rcvBuf, tx, sndCount,
                    xFrameIsBroadcast, transStart, rxIrq, slave, wire, reqId,
                    halted, faultsLeft>>
    BY <1>3 DEF TransDone
  <2> QED BY <2>1, <2>2 DEF TypeOK
<1> QED BY <1>1, <1>2, <1>3 DEF TransStep

LEMMA BusType ==
  ASSUME TypeOK, BusStep
  PROVE  TypeOK'
<1> USE DEF bufVars, pollVars, lineVars, rcvVars, sndVars, transVars,
            timerVars, busVars, reqVars, RxUnchanged
<1>1. CASE AnswerHead
  <2>1. PICK k \in AnswerKinds :
          LET f == [id |-> slave.id, addr |-> slave.addr, kind |-> k] IN
          /\ Needs(If(trans = "turned", "early") \cup If(Starved, "starved")
                     \cup If(k = "max", "max"))
          /\ wire' = Damaged(f)
          /\ ReceiveFSM(f, "head")
    BY <1>1 DEF AnswerHead
  <2> DEFINE f == [id |-> slave.id, addr |-> slave.addr, kind |-> k]
  <2>2. k \in FrameKinds
    BY <2>1 DEF AnswerKinds, If, FrameKinds
  <2>3. f \in Frames /\ f.kind \in FrameKinds
    BY <2>2 DEF TypeOK, OnAir, Frames
  <2>4. wire' \in Frames
    BY <2>1, <2>3 DEF Damaged, Frames, FrameKinds
  <2>5. faultsLeft' \in 0..MaxFaults
    BY <2>1, NeedsType
  <2>6. ReceiveFSM(f, "head")
    BY <2>1
  <2>7. slave' \in OnAir
    BY <1>1, MbAssumption DEF AnswerHead, NoRequest, OnAir, MaxSlave
  <2> HIDE DEF f
  <2> QED BY <1>1, <2>3, <2>4, <2>5, <2>6, <2>7, ReceiveFSMType
          DEF AnswerHead, TypeOK
<1>2. CASE NoiseHead
  <2> DEFINE f == [id |-> 0, addr |-> 0, kind |-> "bad"]
  <2>1. f \in Frames /\ f.kind \in FrameKinds
    BY MbAssumption DEF Frames, FrameKinds, MaxSlave
  <2>2. wire' = f /\ ReceiveFSM(f, "head")
    BY <1>2 DEF NoiseHead
  <2>3. faultsLeft' \in 0..MaxFaults
    BY <1>2, NeedsType DEF NoiseHead
  <2> HIDE DEF f
  <2> QED BY <1>2, <2>1, <2>2, <2>3, ReceiveFSMType DEF NoiseHead, TypeOK
<1>3. CASE FrameTail
  <2>1. wire.kind \in FrameKinds
    BY <1>3 DEF FrameTail, TypeOK, Frames
  <2>2. faultsLeft' \in 0..MaxFaults
    BY <1>3, NeedsType DEF FrameTail
  <2>3. wire' \in Frames
    BY <1>3, MbAssumption DEF FrameTail, NoFrame, Frames, MaxSlave
  <2> QED BY <1>3, <2>1, <2>2, <2>3, ReceiveFSMType DEF FrameTail, TypeOK
<1>4. CASE SlaveSilent
  BY <1>4, MbAssumption DEF SlaveSilent, TypeOK, NoRequest, OnAir, MaxSlave
<1> QED BY <1>1, <1>2, <1>3, <1>4 DEF BusStep

(* The timer interrupt: its first post wakes modbus-m, later ones stay in  *)
(* the event set.                                                          *)
LEMMA TimerType ==
  ASSUME TypeOK, TimerExpired
  PROVE  TypeOK'
<1> USE DEF bufVars, transVars, busVars
<1>1. faultsLeft' \in 0..MaxFaults
  BY NeedsType DEF TimerExpired
<1>2. fact' \in [Requesters -> Results \cup {None, "open"}]
  BY RecordType DEF TimerExpired, TypeOK, Results
<1>3. eMBMasterCurErrorType' \in ErrorTypes
  BY DEF TimerExpired, ExpiryErrorType, ErrorTypes, TypeOK
<1>4. /\ xMasterOsEvent' \subseteq Internal \cup Verdicts
      /\ poll' \in {"get", "blocked", "handle", "release"}
      /\ pollEv' \subseteq Internal
  <2> DEFINE b == IF AnswerTimedOut THEN "ERROR_PROCESS" ELSE None
             c == IF eMasterCurTimerMode = "CONVERT_DELAY"
                       /\ eSndState # "XMIT" THEN "EXECUTE" ELSE None
  <2>1. /\ RcvEvent \in Internal \cup {None}
        /\ b \in Internal \cup {None}
        /\ c \in Internal \cup {None}
    BY DEF RcvEvent, Internal, None
  <2>2. PostThree(RcvEvent, b, c)
    BY DEF TimerExpired
  <2> HIDE DEF b, c
  <2>3. CASE PostInternal(RcvEvent, {b, c} \ {None}) /\ RcvEvent # None
    BY <2>1, <2>3, PostInternalType
  <2>4. CASE PostInternal(b, {c} \ {None}) /\ b # None
    BY <2>1, <2>4, PostInternalType
  <2>5. CASE PostInternal(c, {}) /\ c # None
    BY <2>1, <2>5, PostInternalType
  <2>6. CASE UNCHANGED <<poll, pollEv, xMasterOsEvent>>
    BY <2>6 DEF TypeOK
  <2> QED BY <2>2, <2>3, <2>4, <2>5, <2>6 DEF PostThree
<1>5. /\ eRcvState' \in {"INIT", "IDLE", "RCV", "ERROR"}
      /\ eSndState' \in {"IDLE", "XMIT", "XFWR"}
      /\ timerOn' \in BOOLEAN
      /\ halted' \in BOOLEAN
  BY DEF TimerExpired, ReceiverRests, TypeOK
<1>6. UNCHANGED <<rq, res, xMasterRunRes, ucMBFrame, sndBuf,
                  ucMBMasterDestAddress, reqId, rcvBuf, tx, sndCount,
                  xFrameIsBroadcast, trans, transStart, rxIrq,
                  eMasterCurTimerMode, slave, wire>>
  BY DEF TimerExpired
<1> QED BY <1>1, <1>2, <1>3, <1>4, <1>5, <1>6 DEF TypeOK

(* Every variable of the master keeps its range, whatever the bus does.    *)
THEOREM TypeCorrect == Spec => []TypeOK
<1>1. TypeOK /\ [Next]_vars => TypeOK'
  BY RequesterType, PollType, TransType, BusType, TimerType, StutterType
     DEF Next
<1> QED BY InitType, <1>1, PTL DEF Spec

-----------------------------------------------------------------------------
(* Whatever the bus does, the protocol never waits for a timer that is not *)
(* running.                                                                *)
THEOREM AlwaysWatched == Spec => []Watched
<1>1. Init => Watched
  BY DEF Init, Watched
<1>2. Watched /\ [Next]_vars => Watched'
  <2> SUFFICES ASSUME Watched, [Next]_vars PROVE Watched'
    OBVIOUS
  <2>1. ASSUME UNCHANGED <<rcvVars, eSndState, timerOn>> PROVE Watched'
    BY <2>1 DEF Watched, rcvVars
  <2>2. CASE UNCHANGED vars
    BY <2>1, <2>2 DEF vars, lineVars, sndVars, timerVars
  <2>3. CASE \E t \in Requesters : RequesterStep(t)
    BY <2>1, <2>3 DEF RequesterStep, Request, TakeTimeout, Fill,
       PostFrameSent, WaitRequestFinish, Return, lineVars, sndVars, timerVars
  <2>4. CASE PollStep
    <3>1. CASE PollFrameSent
      BY <3>1 DEF PollFrameSent, Watched, rcvVars, timerVars
    <3> QED BY <2>1, <2>4, <3>1 DEF PollStep, EventGet, PollUndefined,
            PollReady, PollFrameReceived, PollExecute, PollErrorProcess,
            RunResRelease, lineVars, sndVars, timerVars
  <2>5. CASE TransStep
    BY <2>5 DEF TransStep, TransByte, TransTurn, TransDone, AnswerTimer,
       Watched, rcvVars, timerVars
  <2>6. ASSUME NEW f, NEW part, ReceiveFSM(f, part) PROVE Watched'
    BY <2>6 DEF ReceiveFSM, T35Enable, FirstByte, Watched, timerVars
  <2>7. CASE BusStep
    <3>1. CASE SlaveSilent
      BY <2>1, <3>1 DEF SlaveSilent, sndVars, timerVars
    <3> QED BY <2>6, <2>7, <3>1 DEF BusStep, AnswerHead, NoiseHead, FrameTail
  <2>8. CASE TimerExpired
    BY <2>8 DEF TimerExpired, ReceiverRests, Watched
  <2> QED BY <2>2, <2>3, <2>4, <2>5, <2>7, <2>8 DEF Next
<1> QED BY <1>1, <1>2, PTL DEF Spec

(* Whatever the bus does, the transmit handler is entered as it expects,   *)
(* because "master trans" runs above modbus-m: modbus-m cannot start a new *)
(* frame between the two halves of the handler.                            *)
THEOREM TransmitterSafe ==
  ASSUME Prio[Trans] < Prio[Poll]
  PROVE  Spec => []TransmitEntry
<1>1. Init => TransmitEntry
  BY DEF Init, TransmitEntry
<1>2. TypeOK /\ TransmitEntry /\ [Next]_vars => TransmitEntry'
  <2> SUFFICES ASSUME TypeOK, TransmitEntry, [Next]_vars PROVE TransmitEntry'
    OBVIOUS
  <2>1. ASSUME UNCHANGED <<eRcvState, eSndState, transVars>>
        PROVE  TransmitEntry'
    BY <2>1 DEF TransmitEntry, transVars
  <2>2. CASE UNCHANGED vars
    BY <2>1, <2>2 DEF vars, lineVars, rcvVars, sndVars
  <2>3. CASE \E t \in Requesters : RequesterStep(t)
    BY <2>1, <2>3 DEF RequesterStep, Request, TakeTimeout, Fill,
       PostFrameSent, WaitRequestFinish, Return, lineVars, rcvVars, sndVars
  <2>4. CASE PollStep
    <3>1. CASE PollFrameSent
      <4>1. trans = "loop"
        <5>1. ~Runnable(Trans)
          BY <3>1 DEF PollFrameSent, Handles, CanRun, Threads
        <5> QED BY <5>1, MbAssumption DEF Runnable, TypeOK
      <4> QED BY <3>1, <4>1 DEF PollFrameSent, TransmitEntry, rcvVars
    <3> QED BY <2>1, <2>4, <3>1 DEF PollStep, EventGet, PollUndefined,
            PollReady, PollFrameReceived, PollExecute, PollErrorProcess,
            RunResRelease, lineVars, rcvVars, sndVars
  <2>5. CASE TransStep
    BY <2>5 DEF TransStep, TransByte, TransTurn, TransDone, TransmitEntry,
       rcvVars, transVars
  <2>6. ASSUME NEW f, NEW part, ReceiveFSM(f, part), UNCHANGED transVars
        PROVE  TransmitEntry'
    BY <2>6 DEF ReceiveFSM, TransmitEntry, transVars
  <2>7. CASE BusStep
    <3>1. CASE SlaveSilent
      BY <2>1, <3>1 DEF SlaveSilent, rcvVars, sndVars
    <3> QED BY <2>6, <2>7, <3>1 DEF BusStep, AnswerHead, NoiseHead,
            FrameTail, RxUnchanged
  <2>8. CASE TimerExpired
    BY <2>8 DEF TimerExpired, ReceiverRests, TransmitEntry, transVars
  <2> QED BY <2>2, <2>3, <2>4, <2>5, <2>7, <2>8 DEF Next
<1> QED BY <1>1, <1>2, TypeCorrect, PTL DEF Spec
=============================================================================
