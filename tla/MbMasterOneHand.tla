--------------------------- MODULE MbMasterOneHand ---------------------------
(***************************************************************************)
(* On a bus that may lose and corrupt answers, but neither delays them     *)
(* past the respond timeout nor adds bytes of its own, the request is      *)
(* always in exactly one hand (OneHand).  From this inductive invariant    *)
(* follow the properties of the parts: the running resource is a mutual    *)
(* exclusion, no assert_param fails, modbus-m never meets two events,      *)
(* every request it is given is sent, each call returns its own verdict,   *)
(* and the callers see the service of MbRequest.  For any requesters,      *)
(* priorities, addresses, numbers of requests and frame lengths, and       *)
(* however long modbus-m is held up.  All but that no assertion fails hold *)
(* as well under the two faults at which one does fail.                    *)
(***************************************************************************)
EXTENDS MbMaster_proofs, FiniteSetTheorems

(* Two faults more than the benign ones change no verdict: they stop the   *)
(* controller.                                                             *)
Tolerated == Benign \cup {"early", "max"}

InHand == /\ ~halted
          /\ \/ Starting \/ Free \/ Preparing \/ Queued \/ Sending
             \/ Turning \/ Awaiting \/ Receiving \/ Deciding \/ Settled

(* No frame of the length that fails the assertion of eMBMasterRTUReceive. *)
NoMax == rcvBuf.kind # "max" /\ wire.kind # "max"

LEMMA OneHandParts == OneHand <=> InHand /\ NoMax
  BY DEF OneHand, InHand, NoMax

(* The controller stops: an assertion fails, and nothing a caller can see  *)
(* changes.                                                                *)
Halts == /\ halted' /\ ("early" \in Faults \/ rcvBuf.kind = "max")
         /\ UNCHANGED <<reqVars, xMasterRunRes, sndBuf>>
         /\ poll # "release" /\ poll' \in {"get", "blocked"}

(* A step that needs no fault but these cannot need any other.             *)
LEMMA NoFault ==
  ASSUME Faults \subseteq Tolerated, NEW fs, fs \cap Tolerated = {}, Needs(fs)
  PROVE  fs = {} /\ UNCHANGED faultsLeft
  BY DEF Needs

LEMMA OnlyTolerated ==
  ASSUME Faults \subseteq Tolerated, NEW fs, Needs(fs)
  PROVE  fs \subseteq Faults /\ fs \subseteq Tolerated
  BY DEF Needs

(* What a requester does before it has the resource or after it has its    *)
(* result does not change who is served.                                   *)
LEMMA OutsideMoves ==
  ASSUME TypeOK, NEW t \in Requesters, rq[t] \in Outside, NEW x \in Outside,
         rq' = [rq EXCEPT ![t] = x], UNCHANGED xMasterRunRes,
         NEW S, S \cap Outside = {}
  PROVE  /\ NobodyServed => NobodyServed'
         /\ Served(S) => Served(S)'
  BY DEF TypeOK, NobodyServed, Served

(* A requester that moves from one place to another while it is served.    *)
LEMMA InsideMoves ==
  ASSUME TypeOK, NEW t \in Requesters, NEW S, rq[t] \notin Outside,
         Served(S), NEW T, NEW x \in T, rq' = [rq EXCEPT ![t] = x],
         UNCHANGED xMasterRunRes
  PROVE  Served(T)'
  BY DEF TypeOK, Served

LEMMA InsideLeaves ==
  ASSUME TypeOK, NEW t \in Requesters, NEW S, rq[t] \notin Outside,
         Served(S), NEW x \in Outside, rq' = [rq EXCEPT ![t] = x],
         UNCHANGED xMasterRunRes
  PROVE  NobodyServed' /\ xMasterRunRes' = 0
  BY DEF TypeOK, Served, NobodyServed

LEMMA Untouched ==
  ASSUME UNCHANGED <<rq, xMasterRunRes>>
  PROVE  /\ NobodyServed => NobodyServed'
         /\ \A S : Served(S) => Served(S)'
  BY DEF NobodyServed, Served

(* A step of a requester outside leaves the stage as it is.                *)
LEMMA OutsideKeepsStage ==
  ASSUME TypeOK, InHand, NEW t \in Requesters, rq[t] \in Outside,
         NEW x \in Outside, rq' = [rq EXCEPT ![t] = x],
         UNCHANGED <<xMasterRunRes, xMasterOsEvent, poll, pollEv, rcvVars,
                     sndVars, transVars, timerVars, busVars, halted>>
  PROVE  InHand'
<1>1. /\ NobodyServed => NobodyServed'
      /\ Served({"fill", "post"}) => Served({"fill", "post"})'
      /\ Served({"posted", "waiting"}) => Served({"posted", "waiting"})'
      /\ Served({"waiting"}) => Served({"waiting"})'
  <2>1. /\ {"fill", "post"} \cap Outside = {}
        /\ {"posted", "waiting"} \cap Outside = {}
        /\ {"waiting"} \cap Outside = {}
    BY DEF Outside
  <2>2. UNCHANGED xMasterRunRes
    OBVIOUS
  <2> QED BY <2>1, <2>2, OutsideMoves
<1>2. /\ PollRests => PollRests'
      /\ \A e : Pending(e) => Pending(e)'
      /\ LineRests => LineRests'
  <2>1. PollRests => PollRests'
    BY DEF PollRests
  <2>2. \A e : Pending(e) => Pending(e)'
    BY DEF Pending
  <2>3. LineRests => LineRests'
    BY DEF LineRests, rcvVars, sndVars, transVars, timerVars, busVars
  <2> QED BY <2>1, <2>2, <2>3
<1>3. Starting \/ Free => Starting' \/ Free'
  BY <1>1, <1>2 DEF Starting, Free, rcvVars, sndVars, transVars, timerVars,
     busVars
<1>4. /\ Preparing => Preparing'
      /\ Queued => Queued'
      /\ Deciding => Deciding'
      /\ Settled => Settled'
  BY <1>1, <1>2 DEF Preparing, Queued, Deciding, Settled
<1>5. /\ Sending => Sending'
      /\ Turning => Turning'
      /\ Awaiting => Awaiting'
      /\ Receiving => Receiving'
  BY <1>1, <1>2 DEF Sending, Turning, Awaiting, Receiving, rcvVars, sndVars,
     transVars, timerVars, busVars
<1> QED BY <1>3, <1>4, <1>5 DEF InHand, rcvVars, busVars

(* An event posted to modbus-m while it rests is the only one.             *)
LEMMA PostWakes ==
  ASSUME PollRests, NEW e, PostInternal(e, {})
  PROVE  Pending(e)'
  BY DEF PollRests, PostInternal, Pending

-----------------------------------------------------------------------------
(* The stage in which each actor can take a step.                          *)
LEMMA StageOfPreparer ==
  ASSUME InHand, NEW t \in Requesters, rq[t] \in {"fill", "post"}
  PROVE  Preparing
  BY DEF InHand, Starting, Free, Queued, Sending, Turning, Awaiting,
     Receiving, Deciding, Settled, NobodyServed, Served, Outside

LEMMA StageOfPoster ==
  ASSUME InHand, NEW t \in Requesters, rq[t] = "posted"
  PROVE  Queued \/ Sending \/ Turning \/ Awaiting
  BY DEF InHand, Starting, Free, Preparing, Receiving, Deciding, Settled,
     NobodyServed, Served, Outside

LEMMA RequesterInHand ==
  ASSUME Faults \subseteq Tolerated, TypeOK, InHand,
         NEW t \in Requesters, RequesterStep(t)
  PROVE  InHand'
<1>1. CASE Request(t)
  <2>1. Ready
    <3>1. If(~Ready, "boot") \cap Tolerated = {}
      BY DEF If, Tolerated, Benign
    <3>2. If(~Ready, "boot") = {}
      BY <1>1, <3>1, NoFault DEF Request
    <3> QED BY <3>2 DEF If
  <2>2. UNCHANGED <<xMasterOsEvent, poll, pollEv, rcvVars, sndVars, transVars,
                    timerVars, busVars, halted>>
    BY <1>1 DEF Request, pollVars
  <2>3. rq[t] \in Outside
    BY <1>1 DEF Request, Outside
  <2>4. CASE /\ UNCHANGED xMasterRunRes
             /\ \E x \in {"take", "done"} : rq' = [rq EXCEPT ![t] = x]
    BY <2>2, <2>3, <2>4, OutsideKeepsStage DEF Outside
  <2>5. CASE /\ xMasterRunRes > 0
             /\ xMasterRunRes' = xMasterRunRes - 1
             /\ rq' = [rq EXCEPT ![t] = "fill"]
    <3>1. Free /\ PollRests
      <4>1. Starting \/ Free
        BY <2>5 DEF InHand, Preparing, Queued, Sending, Turning, Awaiting,
           Receiving, Deciding, Settled, Served
      <4>2. ~Starting
        BY <2>1 DEF Starting, Ready
      <4>3. ~Pending("READY")
        BY <2>1 DEF Ready, Pending
      <4> QED BY <4>1, <4>2, <4>3 DEF Free
    <3>2. Served({"fill", "post"})'
      BY <2>3, <2>5, <3>1 DEF Free, Served, NobodyServed, TypeOK
    <3>3. PollRests'
      BY <2>2, <3>1 DEF PollRests
    <3>4. LineRests'
      BY <2>2, <3>1 DEF Free, LineRests, rcvVars, sndVars, transVars,
         timerVars, busVars
    <3> QED BY <2>2, <3>2, <3>3, <3>4
            DEF InHand, Preparing, rcvVars, busVars
  <2> QED BY <1>1, <2>4, <2>5 DEF Request, RunResTake
<1>2. CASE TakeTimeout(t)
  <2>1. UNCHANGED <<xMasterRunRes, xMasterOsEvent, poll, pollEv, rcvVars,
                    sndVars, transVars, timerVars, busVars, halted>>
    BY <1>2 DEF TakeTimeout, pollVars, lineVars
  <2>2. rq[t] \in Outside /\ "done" \in Outside
    BY <1>2 DEF TakeTimeout, Outside
  <2> QED BY <1>2, <2>1, <2>2, OutsideKeepsStage DEF TakeTimeout
<1>3. CASE Fill(t)
  <2>1. Preparing
    BY <1>3, StageOfPreparer DEF Fill
  <2>2. Served({"fill", "post"})'
    BY <1>3, <2>1, InsideMoves DEF Fill, Preparing, Outside
  <2>3. PollRests' /\ LineRests'
    BY <1>3, <2>1 DEF Fill, Preparing, PollRests, LineRests, pollVars,
       lineVars, rcvVars, sndVars, transVars, timerVars, busVars
  <2> QED BY <1>3, <2>2, <2>3
          DEF InHand, Preparing, Fill, lineVars, rcvVars, busVars
<1>4. CASE PostFrameSent(t)
  <2>1. Preparing
    BY <1>4, StageOfPreparer DEF PostFrameSent
  <2>2. Served({"posted", "waiting"})'
    BY <1>4, <2>1, InsideMoves DEF PostFrameSent, Preparing, Outside
  <2>3. Pending("FRAME_SENT")'
    BY <1>4, <2>1, PostWakes DEF PostFrameSent, Preparing
  <2>4. LineRests'
    BY <1>4, <2>1 DEF PostFrameSent, Preparing, LineRests, lineVars, rcvVars,
       sndVars, transVars, timerVars, busVars
  <2> QED BY <1>4, <2>2, <2>3, <2>4
          DEF InHand, Queued, PostFrameSent, lineVars, rcvVars, busVars
<1>5. CASE WaitRequestFinish(t)
  <2>1. Queued \/ Sending \/ Turning \/ Awaiting
    BY <1>5, StageOfPoster DEF WaitRequestFinish
  <2>2. xMasterOsEvent \cap Verdicts = {}
    BY <2>1 DEF Queued, Sending, Turning, Awaiting, Pending, PollRests,
       Verdicts
  <2>3. rq' = [rq EXCEPT ![t] = "waiting"] /\ UNCHANGED xMasterOsEvent
    BY <1>5, <2>2 DEF WaitRequestFinish
  <2>4. Served({"posted", "waiting"})'
    BY <1>5, <2>1, <2>3, InsideMoves
       DEF Queued, Sending, Turning, Awaiting, WaitRequestFinish, Outside
  <2>5. UNCHANGED <<poll, pollEv, lineVars>>
    BY <1>5 DEF WaitRequestFinish, pollVars
  <2>6. /\ Pending("FRAME_SENT") => Pending("FRAME_SENT")'
        /\ PollRests => PollRests'
    BY <2>3, <2>5 DEF Pending, PollRests
  <2>7. Queued => Queued'
    BY <2>4, <2>5, <2>6 DEF Queued, LineRests, lineVars, rcvVars, sndVars,
       transVars, timerVars, busVars
  <2>8. /\ Sending => Sending'
        /\ Turning => Turning'
        /\ Awaiting => Awaiting'
    BY <2>4, <2>5, <2>6 DEF Sending, Turning, Awaiting, lineVars, rcvVars,
       sndVars, transVars, timerVars, busVars
  <2> QED BY <2>1, <2>5, <2>7, <2>8 DEF InHand, lineVars, rcvVars, busVars
<1>6. CASE Return(t)
  <2>1. UNCHANGED <<xMasterRunRes, xMasterOsEvent, poll, pollEv, rcvVars,
                    sndVars, transVars, timerVars, busVars, halted>>
    BY <1>6 DEF Return, pollVars, lineVars
  <2>2. rq[t] \in Outside /\ "idle" \in Outside
    BY <1>6 DEF Return, Outside
  <2> QED BY <1>6, <2>1, <2>2, OutsideKeepsStage DEF Return
<1> QED BY <1>1, <1>2, <1>3, <1>4, <1>5, <1>6 DEF RequesterStep

-----------------------------------------------------------------------------
(* modbus-m handles one event at a time, in the stage that posted it.      *)
LEMMA StageOfHandler ==
  ASSUME InHand, poll = "handle"
  PROVE  /\ pollEv = {"READY"} => Free
         /\ pollEv = {"FRAME_SENT"} => Queued
         /\ pollEv \cap {"FRAME_RECEIVED", "EXECUTE", "ERROR_PROCESS"} # {}
              => Deciding
         /\ \E e \in Internal : pollEv = {e}
         /\ xMasterOsEvent = {}
  BY DEF InHand, Starting, Free, Preparing, Queued, Sending, Turning,
     Awaiting, Receiving, Deciding, Settled, Pending, PollRests, Internal

LEMMA EventGetKeeps ==
  ASSUME EventGet
  PROVE  /\ PollRests => PollRests'
         /\ \A e \in Internal : Pending(e) => Pending(e)'
  BY DEF EventGet, PollRests, Pending

(* The verdict of the request in service finds its requester waiting.      *)
LEMMA VerdictSettles ==
  ASSUME TypeOK, Deciding, NEW v, PostVerdict(v), xMasterOsEvent = {},
         UNCHANGED xMasterRunRes
  PROVE  NobodyServed' /\ xMasterRunRes' = 0 /\ xMasterOsEvent' = {}
<1>1. PICK t \in Requesters :
        rq[t] = "waiting" /\ \A u \in Requesters \ {t} : rq[u] \in Outside
  BY DEF Deciding, Served
<1>2. {u \in Requesters : rq[u] = "waiting"} = {t}
  BY <1>1 DEF Outside
<1>3. rq' = [rq EXCEPT ![t] = "done"] /\ xMasterOsEvent' = {}
  BY <1>2 DEF PostVerdict, Highest
<1>4. NobodyServed'
  BY <1>1, <1>3 DEF NobodyServed, TypeOK, Outside
<1> QED BY <1>3, <1>4 DEF Deciding, Served

LEMMA PollInHand ==
  ASSUME TypeOK, InHand, PollStep
  PROVE  InHand' \/ Halts
<1>1. CASE EventGet
  <2>1. UNCHANGED <<rq, xMasterRunRes, lineVars>>
    BY <1>1 DEF EventGet, reqVars
  <2>2. /\ NobodyServed => NobodyServed'
        /\ \A S : Served(S) => Served(S)'
    BY <2>1, Untouched
  <2>3. /\ PollRests => PollRests'
        /\ Pending("READY") => Pending("READY")'
        /\ Pending("FRAME_SENT") => Pending("FRAME_SENT")'
        /\ Pending("FRAME_RECEIVED") => Pending("FRAME_RECEIVED")'
        /\ Pending("EXECUTE") => Pending("EXECUTE")'
        /\ Pending("ERROR_PROCESS") => Pending("ERROR_PROCESS")'
    BY <1>1, EventGetKeeps DEF Internal
  <2>4. LineRests => LineRests'
    BY <2>1 DEF LineRests, lineVars, rcvVars, sndVars, transVars, timerVars,
       busVars
  <2>5. /\ Free => Free'
        /\ Preparing => Preparing'
        /\ Queued => Queued'
        /\ Deciding => Deciding'
    BY <2>1, <2>2, <2>3, <2>4 DEF Free, Preparing, Queued, Deciding
  <2>6. /\ Starting => Starting'
        /\ Sending => Sending'
        /\ Turning => Turning'
        /\ Awaiting => Awaiting'
        /\ Receiving => Receiving'
    BY <2>1, <2>2, <2>3 DEF Starting, Sending, Turning, Awaiting, Receiving,
       lineVars, rcvVars, sndVars, transVars, timerVars, busVars
  <2>7. ~Settled
    BY <1>1 DEF EventGet, Settled
  <2> QED BY <2>1, <2>5, <2>6, <2>7 DEF InHand, lineVars, rcvVars, busVars
<1>2. CASE PollUndefined
  <2>1. PICK e : pollEv = {e}
    BY <1>2, StageOfHandler DEF PollUndefined
  <2>2. Cardinality(pollEv) = 1
    BY <2>1, FS_Singleton
  <2> QED BY <1>2, <2>2 DEF PollUndefined
<1>3. CASE PollReady
  <2>1. Free /\ xMasterOsEvent = {}
    BY <1>3, StageOfHandler DEF PollReady, Handles
  <2>2. UNCHANGED <<rq, xMasterRunRes, lineVars, xMasterOsEvent>>
    BY <1>3 DEF PollReady, reqVars
  <2>3. PollRests'
    BY <1>3, <2>1, <2>2 DEF PollReady, PollRests
  <2>4. LineRests'
    BY <2>1, <2>2 DEF Free, LineRests, lineVars, rcvVars, sndVars, transVars,
       timerVars, busVars
  <2>5. Free'
    BY <2>1, <2>2, <2>3, <2>4, Untouched DEF Free
  <2> QED BY <2>2, <2>5 DEF InHand, lineVars, rcvVars, busVars
<1>4. CASE PollFrameReceived
  <2>1. Deciding /\ xMasterOsEvent = {}
    BY <1>4, StageOfHandler DEF PollFrameReceived, Handles
  <2>2. UNCHANGED <<rq, xMasterRunRes, rcvVars, sndVars, transVars, timerVars,
                    busVars>>
    BY <1>4 DEF PollFrameReceived
  <2>3. CASE rcvBuf.kind = "max"
    BY <1>4, <2>3 DEF PollFrameReceived, Handles, Halts, reqVars, bufVars
  <2>4. CASE rcvBuf.kind # "max"
    <3>1. \E e \in {"FRAME_RECEIVED", "EXECUTE", "ERROR_PROCESS"} : Pending(e)'
      BY <1>4, <2>1, <2>4 DEF PollFrameReceived, Pending
    <3>2. LineRests'
      BY <2>1, <2>2 DEF Deciding, LineRests, rcvVars, sndVars, transVars,
         timerVars, busVars
    <3>3. Deciding'
      BY <2>1, <2>2, <3>1, <3>2, Untouched DEF Deciding
    <3> QED BY <1>4, <2>4, <3>3 DEF PollFrameReceived, InHand
  <2> QED BY <2>3, <2>4
<1>5. CASE PollExecute
  <2>1. Deciding /\ xMasterOsEvent = {}
    BY <1>5, StageOfHandler DEF PollExecute, Handles
  <2>2. UNCHANGED <<xMasterRunRes, lineVars>> /\ pollEv' = {}
    BY <1>5 DEF PollExecute
  <2>3. LineRests'
    BY <2>1, <2>2 DEF Deciding, LineRests, lineVars, rcvVars, sndVars,
       transVars, timerVars, busVars
  <2>4. CASE poll' = "release" /\ PostVerdict("PROCESS_SUCESS")
    <3>1. Settled'
      BY <2>1, <2>2, <2>3, <2>4, VerdictSettles DEF Settled
    <3> QED BY <2>2, <3>1 DEF InHand, lineVars, rcvVars, busVars
  <2>5. CASE /\ poll' = "get"
             /\ xMasterOsEvent' = xMasterOsEvent \cup {"ERROR_PROCESS"}
             /\ UNCHANGED rq
    <3>1. Pending("ERROR_PROCESS")'
      BY <2>1, <2>2, <2>5 DEF Pending
    <3>2. Deciding'
      BY <2>1, <2>2, <2>3, <2>5, <3>1, Untouched DEF Deciding
    <3> QED BY <2>2, <3>2 DEF InHand, lineVars, rcvVars, busVars
  <2> QED BY <1>5, <2>4, <2>5 DEF PollExecute
<1>6. CASE PollFrameSent
  <2>1. Queued /\ xMasterOsEvent = {}
    BY <1>6, StageOfHandler DEF PollFrameSent, Handles
  <2>2. UNCHANGED <<rq, xMasterRunRes, xMasterOsEvent, rcvVars, trans,
                    timerVars, busVars, halted>>
    BY <1>6 DEF PollFrameSent, reqVars
  <2>3. eSndState' = "XMIT" /\ ~rxIrq' /\ transStart'
    BY <1>6, <2>1 DEF PollFrameSent, Queued, LineRests
  <2>4. PollRests'
    BY <1>6, <2>1, <2>2 DEF PollFrameSent, PollRests
  <2>5. Served({"posted", "waiting"})'
    BY <2>1, <2>2, Untouched DEF Queued
  <2>6. Sending'
    BY <2>1, <2>2, <2>3, <2>4, <2>5
       DEF Queued, Sending, LineRests, rcvVars, timerVars, busVars
  <2> QED BY <2>2, <2>6 DEF InHand, rcvVars, busVars
<1>7. CASE PollErrorProcess
  <2>1. Deciding /\ xMasterOsEvent = {}
    BY <1>7, StageOfHandler DEF PollErrorProcess, Handles
  <2>2. UNCHANGED <<xMasterRunRes, lineVars>>
    BY <1>7 DEF PollErrorProcess
  <2>3. LineRests'
    BY <2>1, <2>2 DEF Deciding, LineRests, lineVars, rcvVars, sndVars,
       transVars, timerVars, busVars
  <2>4. Settled'
    BY <1>7, <2>1, <2>2, <2>3, VerdictSettles DEF Settled, PollErrorProcess
  <2> QED BY <2>2, <2>4 DEF InHand, lineVars, rcvVars, busVars
<1>8. CASE RunResRelease
  <2>1. Settled
    BY <1>8 DEF RunResRelease, InHand, Starting, Free, Preparing, Queued,
       Sending, Turning, Awaiting, Receiving, Deciding, Pending, PollRests
  <2>2. UNCHANGED <<xMasterOsEvent, pollEv, lineVars>> /\ poll' = "get"
    BY <1>8 DEF RunResRelease
  <2>3. PollRests'
    BY <2>1, <2>2 DEF Settled, PollRests
  <2>4. LineRests'
    BY <2>1, <2>2 DEF Settled, LineRests, lineVars, rcvVars, sndVars,
       transVars, timerVars, busVars
  <2>5. CASE xMasterRunRes' = (xMasterRunRes + 1) % SemMod /\ UNCHANGED rq
    <3>1. xMasterRunRes' = 1
      BY <2>1, <2>5, MbAssumption DEF Settled
    <3>2. NobodyServed'
      BY <2>1, <2>5 DEF Settled, NobodyServed
    <3>3. Free'
      BY <2>3, <2>4, <3>1, <3>2 DEF Free
    <3> QED BY <2>2, <3>3 DEF InHand, lineVars, rcvVars, busVars
  <2>6. CASE /\ UNCHANGED xMasterRunRes
             /\ \E t \in Requesters : rq' = [rq EXCEPT ![t] = "fill"]
    <3>1. Served({"fill", "post"})'
      BY <2>1, <2>6 DEF Settled, NobodyServed, Served, TypeOK
    <3>2. Preparing'
      BY <2>3, <2>4, <3>1 DEF Preparing
    <3> QED BY <2>2, <3>2 DEF InHand, lineVars, rcvVars, busVars
  <2> QED BY <1>8, <2>5, <2>6 DEF RunResRelease, Highest
<1> QED BY <1>1, <1>2, <1>3, <1>4, <1>5, <1>6, <1>7, <1>8 DEF PollStep

-----------------------------------------------------------------------------
(* The transmitter works in the stages Sending and Turning.                *)
LEMMA StageOfSender ==
  ASSUME InHand
  PROVE  transStart => Sending
  BY DEF InHand, Starting, Free, Preparing, Queued, Turning, Awaiting,
     Receiving, Deciding, Settled, LineRests

LEMMA StageOfTurner ==
  ASSUME InHand, trans = "turned"
  PROVE  Turning
  BY DEF InHand, Starting, Free, Preparing, Queued, Sending, Awaiting,
     Receiving, Deciding, Settled, LineRests

LEMMA TransInHand ==
  ASSUME InHand, TransStep
  PROVE  InHand'
<1>1. UNCHANGED <<rq, xMasterRunRes, xMasterOsEvent, poll, pollEv, rcvVars,
                  wire, halted>>
  BY DEF TransStep, TransByte, TransTurn, TransDone, reqVars, pollVars,
     busVars
<1>2. PollRests => PollRests'
  BY <1>1 DEF PollRests
<1>3. Served({"posted", "waiting"}) => Served({"posted", "waiting"})'
  BY <1>1, Untouched
<1>4. CASE TransByte
  <2>1. Sending
    BY <1>4, StageOfSender DEF TransByte
  <2>2. UNCHANGED <<eSndState, transVars, timerVars, busVars>>
    BY <1>4 DEF TransByte
  <2>3. Sending'
    BY <1>1, <1>2, <1>3, <2>1, <2>2 DEF Sending, rcvVars, transVars,
       timerVars, busVars
  <2> QED BY <1>1, <2>3 DEF InHand, rcvVars
<1>5. CASE TransTurn
  <2>1. Sending
    BY <1>5, StageOfSender DEF TransTurn
  <2>2. /\ trans' = "turned" /\ ~transStart' /\ rxIrq'
        /\ xFrameIsBroadcast' => slave' = slave
        /\ UNCHANGED <<eSndState, timerVars>>
    BY <1>5 DEF TransTurn
  <2>3. Turning'
    BY <1>1, <1>2, <1>3, <2>1, <2>2 DEF Sending, Turning, rcvVars, timerVars
  <2> QED BY <1>1, <2>3 DEF InHand, rcvVars
<1>6. CASE TransDone
  <2>1. Turning
    BY <1>6, StageOfTurner DEF TransDone
  <2>2. /\ trans' = "loop" /\ eSndState' = "XFWR" /\ timerOn'
        /\ eMasterCurTimerMode' = IF xFrameIsBroadcast THEN "CONVERT_DELAY"
                                                       ELSE "RESPOND_TIMEOUT"
        /\ UNCHANGED <<xFrameIsBroadcast, transStart, rxIrq, slave>>
    BY <1>6 DEF TransDone, AnswerTimer, busVars
  <2>3. Awaiting'
    BY <1>1, <1>2, <1>3, <2>1, <2>2 DEF Turning, Awaiting, rcvVars
  <2> QED BY <1>1, <2>3 DEF InHand, rcvVars
<1> QED BY <1>4, <1>5, <1>6 DEF TransStep

-----------------------------------------------------------------------------
(* With nobody on the way to its wait, the requester served waits.         *)
LEMMA ServedWaits ==
  ASSUME ~Starved, Served({"posted", "waiting"})
  PROVE  Served({"waiting"})
  BY DEF Starved, Served

LEMMA BusInHand ==
  ASSUME Faults \subseteq Tolerated, TypeOK, InHand, BusStep
  PROVE  InHand' \/ Halts
<1>1. UNCHANGED <<rq, xMasterRunRes, xMasterOsEvent, poll, pollEv, trans,
                  transStart, rxIrq, xFrameIsBroadcast>>
  BY DEF BusStep, AnswerHead, NoiseHead, FrameTail, SlaveSilent, RxUnchanged,
     reqVars, pollVars, transVars, sndVars
<1>2. PollRests => PollRests'
  BY <1>1 DEF PollRests
<1>3. \A S : Served(S) => Served(S)'
  BY <1>1, Untouched
<1>4. CASE AnswerHead
  <2>1. PICK k \in AnswerKinds :
          LET f == [id |-> slave.id, addr |-> slave.addr, kind |-> k] IN
          /\ Needs(If(trans = "turned", "early") \cup If(Starved, "starved")
                     \cup If(k = "max", "max"))
          /\ wire' = Damaged(f)
          /\ ReceiveFSM(f, "head")
    BY <1>4 DEF AnswerHead
  <2> DEFINE f  == [id |-> slave.id, addr |-> slave.addr, kind |-> k]
             fs == If(trans = "turned", "early") \cup If(Starved, "starved")
                     \cup If(k = "max", "max")
  <2>2. fs \subseteq Faults /\ fs \subseteq Tolerated
    <3>1. Needs(fs)
      BY <2>1
    <3> HIDE DEF fs
    <3> QED BY <3>1, OnlyTolerated
  <2>3. ~Starved
    BY <2>2 DEF If, Tolerated, Benign
  <2>4. CASE trans = "turned"
    <3>1. Turning /\ "early" \in Faults
      BY <2>2, <2>4, StageOfTurner DEF If
    <3>2. halted'
      BY <2>1, <3>1 DEF ReceiveFSM, Turning
    <3> QED BY <1>1, <1>4, <3>1, <3>2
            DEF Halts, AnswerHead, RxUnchanged, reqVars, pollVars, bufVars,
                Turning, PollRests
  <2>5. CASE trans # "turned"
    <3>1. Awaiting
      BY <1>4, <2>5 DEF AnswerHead, InHand, Starting, Free, Preparing,
         Queued, Sending, Turning, Receiving, Deciding, Settled, LineRests
    <3>2. /\ eRcvState' = "RCV" /\ eSndState' = "IDLE"
          /\ timerOn' /\ eMasterCurTimerMode' = "T35"
          /\ UNCHANGED halted
      BY <2>1, <3>1 DEF ReceiveFSM, FirstByte, T35Enable, Awaiting
    <3>3. slave' = NoRequest
      BY <1>4 DEF AnswerHead
    <3>4. Served({"waiting"})'
      BY <1>3, <2>3, <3>1, ServedWaits DEF Awaiting
    <3>5. Receiving'
      BY <1>1, <1>2, <3>1, <3>2, <3>3, <3>4 DEF Awaiting, Receiving
    <3> QED BY <3>2, <3>5 DEF InHand
  <2> QED BY <2>4, <2>5
<1>5. CASE NoiseHead
  <2>1. Needs({"noise"} \cup If(trans = "turned", "early"))
    BY <1>5 DEF NoiseHead
  <2>2. "noise" \in Tolerated
    BY <2>1, OnlyTolerated
  <2> QED BY <2>2 DEF Tolerated, Benign
<1>6. CASE FrameTail
  <2>1. Receiving
    BY <1>6 DEF FrameTail, InHand, Starting, Free, Preparing, Queued,
       Sending, Turning, Awaiting, Deciding, Settled, LineRests
  <2>2. ReceiveFSM(wire, "tail")
    BY <1>6 DEF FrameTail
  <2>3. /\ eRcvState' \in {"RCV", "ERROR"} /\ UNCHANGED <<eSndState, halted>>
        /\ timerOn' /\ eMasterCurTimerMode' = "T35"
    BY <2>1, <2>2 DEF ReceiveFSM, Receiving, T35Enable
  <2>4. UNCHANGED slave
    BY <1>6 DEF FrameTail
  <2>5. Receiving'
    BY <1>1, <1>2, <1>3, <2>1, <2>3, <2>4 DEF Receiving
  <2> QED BY <2>3, <2>5 DEF InHand
<1>7. CASE SlaveSilent
  <2>1. Turning \/ Awaiting
    BY <1>7 DEF SlaveSilent, InHand, Starting, Free, Preparing, Queued,
       Sending, Receiving, Deciding, Settled, LineRests
  <2>2. slave' = NoRequest
        /\ UNCHANGED <<rcvVars, eSndState, timerVars, wire, halted>>
    BY <1>7 DEF SlaveSilent, sndVars
  <2>3. Turning => Turning'
    BY <1>1, <1>2, <1>3, <2>2 DEF Turning, rcvVars, timerVars
  <2>4. Awaiting => Awaiting'
    BY <1>1, <1>2, <1>3, <2>2 DEF Awaiting, rcvVars, timerVars
  <2> QED BY <2>1, <2>2, <2>3, <2>4 DEF InHand, rcvVars
<1> QED BY <1>4, <1>5, <1>6, <1>7 DEF BusStep

-----------------------------------------------------------------------------
(* The timer decides in three stages: t3.5 of the start and of a received  *)
(* frame, and the delay that follows a request.                            *)
LEMMA TimerInHand ==
  ASSUME Faults \subseteq Tolerated, TypeOK, InHand, TimerExpired
  PROVE  InHand'
<1> DEFINE b == IF AnswerTimedOut THEN "ERROR_PROCESS" ELSE None
           c == IF eMasterCurTimerMode = "CONVERT_DELAY"
                     /\ eSndState # "XMIT" THEN "EXECUTE" ELSE None
<1>1. ExpiryFaults = {}
  <2>1. ExpiryFaults \cap Tolerated = {}
    BY DEF ExpiryFaults, If, Tolerated, Benign
  <2> QED BY <2>1, NoFault DEF TimerExpired
<1>2. PostThree(RcvEvent, b, c)
  BY DEF TimerExpired
<1>3. UNCHANGED <<rq, xMasterRunRes, rcvBuf, xFrameIsBroadcast, transVars,
                  busVars, eMasterCurTimerMode>>
  BY DEF TimerExpired
<1>4. eRcvState' = "IDLE"
  BY DEF TimerExpired, ReceiverRests
<1>5. eSndState # "XMIT" =>
        eSndState' = "IDLE" /\ ~timerOn' /\ UNCHANGED halted
  BY DEF TimerExpired
<1>6. \A S : Served(S) => Served(S)'
  BY <1>3, Untouched
<1>7. CASE Starting
  <2>1. RcvEvent = "READY" /\ b = None /\ c = None
    BY <1>7 DEF Starting, RcvEvent, AnswerTimedOut
  <2>2. PostInternal("READY", {})
    BY <1>2, <2>1 DEF PostThree, None
  <2>3. Pending("READY")'
    BY <1>7, <2>2, PostWakes DEF Starting
  <2>4. LineRests'
    BY <1>3, <1>4, <1>5, <1>7 DEF Starting, LineRests, transVars, busVars
  <2>5. Free'
    BY <1>3, <1>7, <2>3, <2>4, Untouched DEF Starting, Free
  <2> QED BY <1>3, <1>5, <1>7, <2>5 DEF InHand, Starting, busVars
<1>8. CASE Awaiting
  <2>1. slave = NoRequest /\ ~Starved
    BY <1>1, <1>8 DEF ExpiryFaults, If, Awaiting
  <2>2. PostInternal(IF xFrameIsBroadcast THEN "EXECUTE"
                                          ELSE "ERROR_PROCESS", {})
    <3>1. CASE xFrameIsBroadcast
      <4>1. RcvEvent = None /\ b = None /\ c = "EXECUTE"
        BY <1>8, <3>1 DEF Awaiting, RcvEvent, AnswerTimedOut
      <4> QED BY <1>2, <3>1, <4>1 DEF PostThree, None
    <3>2. CASE ~xFrameIsBroadcast
      <4>1. RcvEvent = None /\ b = "ERROR_PROCESS" /\ c = None
        BY <1>8, <3>2 DEF Awaiting, RcvEvent, AnswerTimedOut
      <4> QED BY <1>2, <3>2, <4>1 DEF PostThree, None
    <3> QED BY <3>1, <3>2
  <2>3. \E e \in {"FRAME_RECEIVED", "EXECUTE", "ERROR_PROCESS"} : Pending(e)'
    BY <1>8, <2>2, PostWakes DEF Awaiting
  <2>4. LineRests'
    BY <1>3, <1>4, <1>5, <1>8, <2>1 DEF Awaiting, LineRests, transVars,
       busVars
  <2>5. Deciding'
    BY <1>6, <1>8, <2>1, <2>3, <2>4, ServedWaits DEF Awaiting, Deciding
  <2> QED BY <1>3, <1>5, <1>8, <2>5 DEF InHand, Awaiting, busVars
<1>9. CASE Receiving
  <2>1. wire.kind = None
    BY <1>1, <1>9 DEF ExpiryFaults, If, Receiving
  <2>2. /\ RcvEvent \in {"FRAME_RECEIVED", "ERROR_PROCESS"}
        /\ b = None /\ c = None
    BY <1>9 DEF Receiving, RcvEvent, AnswerTimedOut
  <2>3. PostInternal(RcvEvent, {})
    BY <1>2, <2>2 DEF PostThree, None
  <2>4. \E e \in {"FRAME_RECEIVED", "EXECUTE", "ERROR_PROCESS"} : Pending(e)'
    BY <1>9, <2>2, <2>3, PostWakes DEF Receiving
  <2>5. LineRests'
    BY <1>3, <1>4, <1>5, <1>9, <2>1 DEF Receiving, LineRests, transVars,
       busVars
  <2>6. Deciding'
    BY <1>6, <1>9, <2>4, <2>5 DEF Receiving, Deciding
  <2> QED BY <1>3, <1>5, <1>9, <2>6 DEF InHand, Receiving, busVars
<1> QED BY <1>7, <1>8, <1>9 DEF TimerExpired, InHand, Free, Preparing,
           Queued, Sending, Turning, Deciding, Settled, LineRests

-----------------------------------------------------------------------------
LEMMA InitInHand == Init => InHand
  BY DEF Init, InHand, Starting, NobodyServed, PollRests, NoRequest,
     NoFrame, Outside, None

LEMMA StutterInHand == InHand /\ UNCHANGED vars => InHand'
<1> SUFFICES ASSUME InHand, UNCHANGED vars PROVE InHand'
  OBVIOUS
<1>1. UNCHANGED <<rq, xMasterRunRes, xMasterOsEvent, poll, pollEv, lineVars>>
  BY DEF vars, reqVars, pollVars
<1>2. /\ NobodyServed => NobodyServed'
      /\ \A S : Served(S) => Served(S)'
  BY <1>1, Untouched
<1>3. /\ PollRests => PollRests'
      /\ \A e : Pending(e) => Pending(e)'
  BY <1>1 DEF PollRests, Pending
<1>4. LineRests => LineRests'
  BY <1>1 DEF LineRests, lineVars, rcvVars, sndVars, transVars, timerVars,
     busVars
<1>5. /\ Free => Free'
      /\ Preparing => Preparing'
      /\ Queued => Queued'
      /\ Deciding => Deciding'
      /\ Settled => Settled'
  BY <1>1, <1>2, <1>3, <1>4 DEF Free, Preparing, Queued, Deciding, Settled
<1>6. /\ Starting => Starting'
      /\ Sending => Sending'
      /\ Turning => Turning'
      /\ Awaiting => Awaiting'
      /\ Receiving => Receiving'
  BY <1>1, <1>2, <1>3 DEF Starting, Sending, Turning, Awaiting, Receiving,
     lineVars, rcvVars, sndVars, transVars, timerVars, busVars
<1> QED BY <1>1, <1>5, <1>6 DEF InHand, lineVars, rcvVars, busVars

LEMMA NextInHand ==
  ASSUME Faults \subseteq Tolerated, TypeOK, InHand, [Next]_vars
  PROVE  InHand' \/ Halts
  BY RequesterInHand, PollInHand, TransInHand, BusInHand, TimerInHand,
     StutterInHand DEF Next

(* Without frames of exactly MB_SER_PDU_SIZE_MAX bytes none is received.   *)
LEMMA NoMaxKept ==
  ASSUME "max" \notin Faults, TypeOK, NoMax, [Next]_vars
  PROVE  NoMax'
<1>1. ASSUME NEW f, NEW part, f.kind # "max", ReceiveFSM(f, part)
      PROVE  rcvBuf'.kind # "max"
  BY <1>1 DEF ReceiveFSM, FirstByte, Appended, NoMax, TypeOK
<1>2. CASE BusStep
  <2>1. CASE AnswerHead
    <3>1. PICK k \in AnswerKinds :
            LET f == [id |-> slave.id, addr |-> slave.addr, kind |-> k] IN
            wire' = Damaged(f) /\ ReceiveFSM(f, "head")
      BY <2>1 DEF AnswerHead
    <3> DEFINE f == [id |-> slave.id, addr |-> slave.addr, kind |-> k]
    <3>2. f.kind # "max"
      BY DEF AnswerKinds, If
    <3>3. wire'.kind # "max"
      BY <3>1, <3>2 DEF Damaged
    <3>4. rcvBuf'.kind # "max"
      BY <1>1, <3>1, <3>2
    <3> QED BY <3>3, <3>4 DEF NoMax
  <2>2. CASE NoiseHead
    BY <1>1, <2>2 DEF NoiseHead, NoMax
  <2>3. CASE FrameTail
    BY <1>1, <2>3 DEF FrameTail, NoMax, NoFrame, None
  <2>4. CASE SlaveSilent
    BY <2>4 DEF SlaveSilent, NoMax, rcvVars
  <2> QED BY <1>2, <2>1, <2>2, <2>3, <2>4 DEF BusStep
<1>3. CASE ~BusStep
  <2>1. UNCHANGED <<rcvBuf, wire>>
    BY <1>3 DEF Next, RequesterStep, Request, TakeTimeout, Fill,
       PostFrameSent, WaitRequestFinish, Return, PollStep, EventGet,
       PollUndefined, PollReady, PollFrameReceived, PollExecute,
       PollFrameSent, PollErrorProcess, RunResRelease, TransStep, TransByte,
       TransTurn, TransDone, TimerExpired, vars, lineVars, rcvVars, busVars
  <2> QED BY <2>1 DEF NoMax
<1> QED BY <1>2, <1>3

(* On a benign bus the request is always in exactly one hand.              *)
THEOREM AlwaysOneHand ==
  ASSUME Faults \subseteq Benign
  PROVE  Spec => []OneHand
<1>1. Faults \subseteq Tolerated /\ "max" \notin Faults /\ "early" \notin Faults
  BY DEF Tolerated, Benign
<1>2. Init => OneHand
  BY InitInHand, OneHandParts DEF Init, NoMax, NoFrame, None
<1>3. TypeOK /\ OneHand /\ [Next]_vars => OneHand'
  <2> SUFFICES ASSUME TypeOK, OneHand, [Next]_vars PROVE OneHand'
    OBVIOUS
  <2>1. InHand' /\ NoMax'
    BY <1>1, OneHandParts, NextInHand, NoMaxKept DEF Halts, NoMax
  <2> QED BY <2>1 DEF OneHand, InHand, NoMax
<1> QED BY <1>2, <1>3, TypeCorrect, PTL DEF Spec

-----------------------------------------------------------------------------
(* What holds after a failed assertion as well: the controller stops with  *)
(* at most one request in service, and nothing is delivered any more.      *)
LEMMA InsideAlone ==
  ASSUME InHand, NEW t \in Requesters, NEW u \in Requesters,
         rq[t] \notin Outside, rq[u] \notin Outside
  PROVE  t = u
  BY DEF InHand, Starting, Free, Preparing, Queued, Sending, Turning,
     Awaiting, Receiving, Deciding, Settled, NobodyServed, Served

(* The semaphore counts who is served.                                     *)
LEMMA InHandBalances == TypeOK /\ InHand => RunResBalance
<1> SUFFICES ASSUME TypeOK, InHand PROVE RunResBalance
  OBVIOUS
<1>1. CASE NobodyServed
  <2>1. InService = {}
    BY <1>1 DEF InService, NobodyServed, Outside
  <2>2. Cardinality(InService) = 0
    BY <2>1, FS_EmptySet
  <2>3. xMasterRunRes + Releasing = 1
    BY <1>1 DEF InHand, Starting, Free, Preparing, Queued, Sending, Turning,
       Awaiting, Receiving, Deciding, Settled, PollRests, Pending, Served,
       NobodyServed, Outside, Releasing
  <2> QED BY <2>2, <2>3 DEF RunResBalance, TypeOK, Releasing
<1>2. CASE Served({"fill", "post", "posted", "waiting"})
  <2>1. PICK t \in Requesters :
          /\ rq[t] \in {"fill", "post", "posted", "waiting"}
          /\ \A u \in Requesters \ {t} : rq[u] \in Outside
    BY <1>2 DEF Served
  <2>2. InService = {t}
    BY <2>1 DEF InService, Outside
  <2>3. Cardinality(InService) = 1
    BY <2>2, FS_Singleton
  <2>4. xMasterRunRes = 0 /\ poll # "release"
    BY <1>2, <2>1 DEF InHand, Starting, Free, Preparing, Queued, Sending,
       Turning, Awaiting, Receiving, Deciding, Settled, PollRests, Pending,
       Served, NobodyServed, Outside
  <2> QED BY <2>3, <2>4 DEF RunResBalance, Releasing
<1>3. NobodyServed \/ Served({"fill", "post", "posted", "waiting"})
  BY DEF InHand, Starting, Free, Preparing, Queued, Sending, Turning,
     Awaiting, Receiving, Deciding, Settled, Served
<1> QED BY <1>1, <1>2, <1>3

Alone == \A t, u \in Requesters : rq[t] \notin Outside /\ rq[u] \notin Outside
                                   => t = u

Stopped == /\ halted /\ poll \in {"get", "blocked"}
           /\ RunResBalance /\ Alone

Sound == InHand \/ Stopped

LEMMA HaltStops == ASSUME halted, Next PROVE FALSE
  BY DEF Next, CanRun, RequesterStep, Request, TakeTimeout, Fill,
     PostFrameSent, WaitRequestFinish, Return, PollStep, EventGet,
     PollUndefined, PollReady, PollFrameReceived, PollExecute, PollFrameSent,
     PollErrorProcess, RunResRelease, Handles, TransStep, TransByte,
     TransTurn, TransDone, BusStep, BusMoves, AnswerHead, NoiseHead,
     FrameTail, SlaveSilent, TimerExpired

LEMMA SoundSteps == Sound /\ Next => InHand
  BY HaltStops DEF Sound, Stopped

LEMMA HaltsSound ==
  ASSUME TypeOK, InHand, Halts
  PROVE  Stopped'
<1>1. RunResBalance /\ Alone
  BY InHandBalances, InsideAlone DEF Alone
<1>2. RunResBalance' /\ Alone'
  BY <1>1 DEF Halts, RunResBalance, InService, Releasing, Alone, reqVars
<1> QED BY <1>2 DEF Halts, Stopped

LEMMA AlwaysSound ==
  ASSUME Faults \subseteq Tolerated
  PROVE  Spec => []Sound
<1>1. Init => Sound
  BY InitInHand DEF Sound
<1>2. TypeOK /\ Sound /\ [Next]_vars => Sound'
  <2> SUFFICES ASSUME TypeOK, Sound, [Next]_vars PROVE Sound'
    OBVIOUS
  <2>1. CASE InHand
    BY <2>1, NextInHand, HaltsSound DEF Sound
  <2>2. CASE Stopped /\ UNCHANGED vars
    <3>1. UNCHANGED <<halted, poll, rq, xMasterRunRes>>
      BY <2>2 DEF vars, reqVars, pollVars, lineVars
    <3> QED BY <2>2, <3>1
            DEF Sound, Stopped, RunResBalance, InService, Releasing, Alone
  <2> QED BY <2>1, <2>2, SoundSteps DEF Sound
<1> QED BY <1>1, <1>2, TypeCorrect, PTL DEF Spec

(* xMasterRunRes, taken by a requester and released by modbus-m, is a      *)
(* mutual exclusion: free, owned once, or about to be released.            *)
THEOREM MutualExclusion ==
  ASSUME Faults \subseteq Tolerated
  PROVE  Spec => []RunResBalance
<1>1. TypeOK /\ Sound => RunResBalance
  BY InHandBalances DEF Sound, Stopped
<1> QED BY <1>1, AlwaysSound, TypeCorrect, PTL

(* modbus-m never finds two events pending, so the switch of               *)
(* xMBMasterPortEventGet always has a case.                                *)
THEOREM OneEventAtATime ==
  ASSUME Faults \subseteq Tolerated
  PROVE  Spec => []SingleEvent
<1>1. Sound => SingleEvent
  <2> SUFFICES ASSUME InHand, poll = "handle" PROVE Cardinality(pollEv) = 1
    BY DEF SingleEvent, Sound, Stopped
  <2> QED BY StageOfHandler, FS_Singleton
<1> QED BY <1>1, AlwaysSound, PTL

(* eMBMasterRTUSend accepts every request modbus-m hands it.               *)
THEOREM EverySendAccepted ==
  ASSUME Faults \subseteq Tolerated
  PROVE  Spec => []SendAccepted
<1>1. Sound => SendAccepted
  BY StageOfHandler DEF SendAccepted, Queued, LineRests, Sound, Stopped
<1> QED BY <1>1, AlwaysSound, PTL

(* No assert_param of mbrtu_m.c fails.                                     *)
THEOREM AssertionsHold ==
  ASSUME Faults \subseteq Benign
  PROVE  Spec => []AssertsHold
<1>1. OneHand => AssertsHold
  BY DEF OneHand, AssertsHold
<1> QED BY <1>1, AlwaysOneHand, PTL

(* The send buffer is rewritten only while nobody else needs it.           *)
THEOREM SendBufferSafe ==
  ASSUME Faults \subseteq Tolerated
  PROVE  Spec => FillAtRest
<1>1. Sound /\ [Next]_vars => [sndBuf' # sndBuf => BufferAtRest]_vars
  <2> SUFFICES ASSUME InHand, Next, sndBuf' # sndBuf
               PROVE  BufferAtRest
    BY SoundSteps
  <2>1. PICK t \in Requesters : Fill(t)
    BY DEF Next, RequesterStep, Request, TakeTimeout, PostFrameSent,
       WaitRequestFinish, Return, PollStep, EventGet, PollUndefined,
       PollReady, PollFrameReceived, PollExecute, PollFrameSent,
       PollErrorProcess, RunResRelease, TransStep, TransByte, TransTurn,
       TransDone, BusStep, AnswerHead, NoiseHead, FrameTail, SlaveSilent,
       RxUnchanged, TimerExpired, bufVars
  <2>2. Preparing
    BY <2>1, StageOfPreparer DEF Fill
  <2> QED BY <2>2 DEF Preparing, BufferAtRest, PollRests, LineRests
<1> QED BY <1>1, AlwaysSound, PTL DEF Spec, FillAtRest

-----------------------------------------------------------------------------
(* What a call returns.  To the stages belongs whose frame is where: from  *)
(* the post of a request to its verdict, everything that can decide it --  *)
(* the transmitted frame, the slave's answer, the receive buffer, the PDU  *)
(* under ucMBFrame -- carries the number in the send buffer.               *)
OutcomeOf(errorType) == ResultOf({VerdictOf(errorType)})

(* The request of a caller is open until a frame or the timer decides it;  *)
(* then the error type modbus-m is about to report is the decision.        *)
Fates ==
  \A t \in Requesters :
    /\ rq[t] \in {"take", "fill", "post"} => fact[t] = "open"
    /\ rq[t] \in {"post", "posted", "waiting"} => sndBuf.owner = t
    /\ rq[t] \in {"posted", "waiting"} =>
         fact[t] = IF Pending("ERROR_PROCESS")
                     THEN OutcomeOf(eMBMasterCurErrorType) ELSE "open"
    /\ rq[t] = "done" => res[t] = fact[t]

OwnFrames ==
  /\ eSndState # "IDLE" => ucMBFrame = "snd" /\ tx.id = sndBuf.id
  /\ slave # NoRequest => slave.id = sndBuf.id
  /\ eRcvState \in {"RCV", "ERROR"} => rcvBuf.id = sndBuf.id
  /\ Pending("FRAME_RECEIVED") => rcvBuf.id = sndBuf.id
  /\ Pending("EXECUTE") => ExecutedId = sndBuf.id
  /\ poll = "release" => sndBuf.owner \in Requesters

Events == <<xMasterOsEvent, poll, pollEv>>

LEMMA PendingKept ==
  ASSUME UNCHANGED Events, NEW e
  PROVE  Pending(e)' <=> Pending(e)
  BY DEF Events, Pending

(* At most one event is pending, and none while modbus-m rests.            *)
LEMMA OnePending ==
  ASSUME NEW e, NEW d, Pending(e)
  PROVE  /\ Pending(d) => d = e
         /\ ~PollRests
         /\ poll # "release"
  BY DEF Pending, PollRests

LEMMA FramesKept ==
  ASSUME OwnFrames,
         UNCHANGED <<sndBuf, ucMBFrame, eSndState, tx, slave, rcvVars,
                     Events>>
  PROVE  OwnFrames'
  BY PendingKept DEF OwnFrames, ExecutedId, Events, rcvVars

(* Nothing is on its way before the request is posted.                     *)
LEMMA FramesAtRest ==
  ASSUME LineRests', PollRests' \/ Pending("FRAME_SENT")'
  PROVE  OwnFrames'
<1>1. poll' # "release" /\ ~Pending("FRAME_RECEIVED")' /\ ~Pending("EXECUTE")'
  BY DEF PollRests, Pending
<1> QED BY <1>1 DEF OwnFrames, LineRests

(* Two requesters are never inside together.                               *)
(* The frame that carries its number decides the request in service.       *)
LEMMA Decided ==
  ASSUME TypeOK, Fates, NEW t \in Requesters, rq[t] \in {"posted", "waiting"},
         fact[t] = "open", NEW outcome, Record(sndBuf.id, outcome)
  PROVE  fact' = [fact EXCEPT ![t] = outcome]
  BY DEF TypeOK, Fates, Record

(* A decision against the request waits, with its error type, for          *)
(* modbus-m.                                                               *)
LEMMA DecidedAgainst ==
  ASSUME TypeOK, InHand, Fates, NEW t \in Requesters, rq[t] = "waiting",
         fact' = [fact EXCEPT ![t] = OutcomeOf(eMBMasterCurErrorType')],
         Pending("ERROR_PROCESS")', UNCHANGED <<rq, res, sndBuf>>
  PROVE  Fates'
<1> SUFFICES ASSUME NEW u \in Requesters
             PROVE  /\ rq[u] \in {"take", "fill", "post"} => fact'[u] = "open"
                    /\ rq[u] \in {"post", "posted", "waiting"} =>
                         sndBuf.owner = u
                    /\ rq[u] \in {"posted", "waiting"} =>
                         fact'[u] = OutcomeOf(eMBMasterCurErrorType')
                    /\ rq[u] = "done" => res[u] = fact'[u]
  BY DEF Fates
<1>1. CASE u = t
  BY <1>1 DEF TypeOK, Fates
<1>2. CASE u # t
  <2>1. rq[u] \in Outside
    BY <1>2, InsideAlone DEF Outside
  <2> QED BY <1>2, <2>1 DEF TypeOK, Fates, Outside
<1> QED BY <1>1, <1>2

(* The verdict goes to the requester that waits.                           *)
LEMMA VerdictDelivered ==
  ASSUME TypeOK, InHand, NEW t \in Requesters, rq[t] = "waiting",
         xMasterOsEvent = {}, NEW v, PostVerdict(v)
  PROVE  /\ rq'  = [rq EXCEPT ![t] = "done"]
         /\ res' = [res EXCEPT ![t] = ResultOf({v})]
         /\ xMasterOsEvent' = {}
<1>1. {u \in Requesters : rq[u] = "waiting"} = {t}
  BY InsideAlone DEF Outside
<1>2. {v} \cup (xMasterOsEvent \cap Verdicts) = {v}
  OBVIOUS
<1> QED BY <1>1, <1>2 DEF PostVerdict, Highest

(* The caller is given the code of what its request came to.               *)
LEMMA ToldTheTruth ==
  ASSUME TypeOK, InHand, Fates, NEW t \in Requesters, rq[t] = "waiting",
         NEW code,
         rq' = [rq EXCEPT ![t] = "done"], res' = [res EXCEPT ![t] = code],
         fact' = [fact EXCEPT ![t] = code], UNCHANGED sndBuf
  PROVE  Fates'
<1> SUFFICES ASSUME NEW u \in Requesters
             PROVE  /\ rq'[u] \in {"take", "fill", "post"} =>
                         fact'[u] = "open"
                    /\ rq'[u] \notin {"post", "posted", "waiting"}
                    /\ rq'[u] = "done" => res'[u] = fact'[u]
  BY DEF Fates
<1>1. CASE u = t
  BY <1>1 DEF TypeOK
<1>2. CASE u # t
  <2>1. rq[u] \in Outside
    BY <1>2, InsideAlone DEF Outside
  <2> QED BY <1>2, <2>1 DEF TypeOK, Fates, Outside
<1> QED BY <1>1, <1>2

(* A step that touches neither the callers nor what decides.               *)
LEMMA FatesKept ==
  ASSUME Fates, UNCHANGED <<reqVars, sndBuf, eMBMasterCurErrorType>>,
         Pending("ERROR_PROCESS")' <=> Pending("ERROR_PROCESS")
  PROVE  Fates'
  BY DEF Fates, reqVars

-----------------------------------------------------------------------------
Traced == Fates /\ OwnFrames

LEMMA RequesterTraced ==
  ASSUME Faults \subseteq Tolerated, TypeOK, InHand, Traced,
         NEW t \in Requesters, RequesterStep(t)
  PROVE  Traced'
<1>1. CASE Request(t)
  <2>1. UNCHANGED <<Events, ucMBFrame, sndBuf, eMBMasterCurErrorType, rcvVars,
                    sndVars, busVars>>
    BY <1>1 DEF Request, Events, pollVars, bufVars
  <2>2. OwnFrames'
    BY <2>1, FramesKept DEF Traced, sndVars, busVars
  <2>3. CASE /\ rq'   = [rq EXCEPT ![t] = "done"]
             /\ res'  = [res EXCEPT ![t] = "ILL_ARG"]
             /\ fact' = [fact EXCEPT ![t] = "ILL_ARG"]
    BY <2>1, <2>2, <2>3, PendingKept DEF Traced, Fates, TypeOK
  <2>4. CASE /\ RunResTake(t) /\ UNCHANGED res
             /\ fact' = [fact EXCEPT ![t] = "open"]
    BY <2>1, <2>2, <2>4, PendingKept DEF RunResTake, Traced, Fates, TypeOK
  <2> QED BY <1>1, <2>3, <2>4 DEF Request
<1>2. CASE TakeTimeout(t)
  <2>1. UNCHANGED <<Events, ucMBFrame, sndBuf, eMBMasterCurErrorType, rcvVars,
                    sndVars, busVars>>
    BY <1>2 DEF TakeTimeout, Events, pollVars, bufVars, lineVars
  <2>2. OwnFrames'
    BY <2>1, FramesKept DEF Traced, sndVars, busVars
  <2>3. Fates'
    BY <1>2, <2>1, PendingKept DEF TakeTimeout, Traced, Fates, TypeOK
  <2> QED BY <2>2, <2>3 DEF Traced
<1>3. CASE Fill(t)
  <2>1. Preparing
    BY <1>3, StageOfPreparer DEF Fill
  <2>2. LineRests' /\ PollRests'
    BY <1>3, <2>1 DEF Fill, Preparing, PollRests, LineRests, pollVars,
       lineVars, rcvVars, sndVars, transVars, timerVars, busVars
  <2>3. OwnFrames'
    BY <2>2, FramesAtRest
  <2>4. \A u \in Requesters \ {t} : rq[u] \in Outside
    BY <1>3, InsideAlone DEF Fill, Outside
  <2>5. Fates'
    <3> SUFFICES ASSUME NEW u \in Requesters
                 PROVE  /\ rq'[u] \in {"take", "fill", "post"} =>
                             fact'[u] = "open"
                        /\ rq'[u] \in {"post", "posted", "waiting"} =>
                             sndBuf'.owner = u
                        /\ rq'[u] \notin {"posted", "waiting"}
                        /\ rq'[u] = "done" => res'[u] = fact'[u]
      BY DEF Fates
    <3>1. CASE u = t
      BY <1>3, <3>1 DEF Fill, Traced, Fates, TypeOK
    <3>2. CASE u # t
      BY <1>3, <2>4, <3>2 DEF Fill, Traced, Fates, TypeOK, Outside
    <3> QED BY <3>1, <3>2
  <2> QED BY <2>3, <2>5 DEF Traced
<1>4. CASE PostFrameSent(t)
  <2>1. Preparing
    BY <1>4, StageOfPreparer DEF PostFrameSent
  <2>2. Pending("FRAME_SENT")'
    BY <1>4, <2>1, PostWakes DEF PostFrameSent, Preparing
  <2>3. LineRests'
    BY <1>4, <2>1 DEF PostFrameSent, Preparing, LineRests, lineVars, rcvVars,
       sndVars, transVars, timerVars, busVars
  <2>4. OwnFrames'
    BY <2>2, <2>3, FramesAtRest
  <2>5. ~Pending("ERROR_PROCESS")'
    BY <2>2 DEF Pending
  <2>6. Fates'
    BY <1>4, <2>1, <2>5, InsideAlone
       DEF PostFrameSent, Traced, Fates, TypeOK, bufVars, Outside
  <2> QED BY <2>4, <2>6 DEF Traced
<1>5. CASE WaitRequestFinish(t)
  <2>1. xMasterOsEvent \cap Verdicts = {}
    BY <1>5, StageOfPoster DEF WaitRequestFinish, Queued, Sending, Turning,
       Awaiting, Pending, PollRests, Verdicts
  <2>2. /\ rq' = [rq EXCEPT ![t] = "waiting"]
        /\ UNCHANGED <<res, fact, sndBuf, ucMBFrame, eMBMasterCurErrorType,
                       rcvVars, sndVars, busVars, Events>>
    BY <1>5, <2>1 DEF WaitRequestFinish, pollVars, bufVars, lineVars, Events
  <2>3. OwnFrames'
    BY <2>2, FramesKept DEF Traced, sndVars, busVars
  <2>4. Fates'
    BY <1>5, <2>2, PendingKept DEF WaitRequestFinish, Traced, Fates, TypeOK
  <2> QED BY <2>3, <2>4 DEF Traced
<1>6. CASE Return(t)
  <2>1. UNCHANGED <<Events, ucMBFrame, sndBuf, eMBMasterCurErrorType, rcvVars,
                    sndVars, busVars>>
    BY <1>6 DEF Return, Events, pollVars, bufVars, lineVars
  <2>2. OwnFrames'
    BY <2>1, FramesKept DEF Traced, sndVars, busVars
  <2>3. Fates'
    BY <1>6, <2>1, PendingKept DEF Return, Traced, Fates, TypeOK
  <2> QED BY <2>2, <2>3 DEF Traced
<1> QED BY <1>1, <1>2, <1>3, <1>4, <1>5, <1>6 DEF RequesterStep

(* What a caller sees of a step of modbus-m or of the timer: its request   *)
(* is decided, or it is given the result.                                  *)
Outcomes == R!Outcomes

Decides(t, v) == /\ rq[t] = "waiting" /\ fact[t] = "open"
                 /\ fact' = [fact EXCEPT ![t] = v]
                 /\ UNCHANGED <<rq, res, sndBuf>>

Finishes(t, v) == /\ rq[t] = "waiting" /\ fact[t] \in {"open", v}
                  /\ rq'   = [rq   EXCEPT ![t] = "done"]
                  /\ res'  = [res  EXCEPT ![t] = v]
                  /\ fact' = [fact EXCEPT ![t] = v]
                  /\ sndBuf.owner = t /\ UNCHANGED sndBuf
                  /\ poll' = "release"

Unseen == /\ UNCHANGED <<reqVars, sndBuf>>
          /\ poll # "release" /\ poll' # "release"

Seen == \/ Unseen
        \/ \E t \in Requesters, v \in Outcomes : Decides(t, v)
        \/ \E t \in Requesters, v \in Outcomes : Finishes(t, v)

LEMMA OutcomeRange ==
  /\ {"NO_ERR", "TIMEDOUT", "REV_DATA", "EXE_FUN"} = Outcomes
  /\ \A e : OutcomeOf(e) \in Outcomes
<1>1. {"NO_ERR", "TIMEDOUT", "REV_DATA", "EXE_FUN"} = Outcomes
  BY DEF Outcomes, R!Outcomes
<1>2. \A evs : ResultOf(evs) \in {"NO_ERR", "TIMEDOUT", "REV_DATA", "EXE_FUN"}
  BY DEF ResultOf
<1> QED BY <1>1, <1>2 DEF OutcomeOf

(* The requester whose request is with the poll thread or on the line.     *)
LEMMA SomeoneWaits ==
  ASSUME Served({"waiting"})
  PROVE  \E t \in Requesters : rq[t] = "waiting"
  BY DEF Served

LEMMA PollTraced ==
  ASSUME TypeOK, InHand, Traced, PollStep
  PROVE  Traced' /\ (Seen \/ RunResRelease)
<1>1. CASE EventGet
  <2>1. UNCHANGED <<reqVars, ucMBFrame, sndBuf, eMBMasterCurErrorType,
                    rcvVars, sndVars, busVars>>
    BY <1>1 DEF EventGet, bufVars, lineVars
  <2>2. \A e \in Internal : Pending(e)' <=> Pending(e)
    <3>1. pollEv = {}
      BY <1>1 DEF EventGet, InHand, Starting, Free, Preparing, Queued,
         Sending, Turning, Awaiting, Receiving, Deciding, Settled, Pending,
         PollRests
    <3> SUFFICES ASSUME NEW e \in Internal
                 PROVE  Pending(e)' <=> Pending(e)
      OBVIOUS
    <3>2. CASE xMasterOsEvent \cap Internal = {}
      BY <1>1, <3>2 DEF EventGet, Pending
    <3>3. CASE xMasterOsEvent \cap Internal # {}
      <4>1. /\ poll = "get" /\ poll' = "handle"
            /\ pollEv' = xMasterOsEvent \cap Internal
            /\ xMasterOsEvent' = xMasterOsEvent \ Internal
        BY <1>1, <3>3 DEF EventGet
      <4>2. xMasterOsEvent = {e} <=> pollEv' = {e} /\ xMasterOsEvent' = {}
        BY <4>1
      <4> QED BY <3>1, <4>1, <4>2 DEF Pending
    <3> QED BY <3>2, <3>3
  <2>3. poll' # "release"
    BY <1>1 DEF EventGet
  <2>4. Fates'
    BY <2>1, <2>2, FatesKept DEF Traced, Internal
  <2>5. OwnFrames'
    BY <2>1, <2>2, <2>3
       DEF Traced, OwnFrames, ExecutedId, Internal, rcvVars, sndVars, busVars
  <2> QED BY <1>1, <2>1, <2>3, <2>4, <2>5 DEF Traced, Seen, Unseen, EventGet
<1>2. CASE PollUndefined
  <2>1. PICK e : pollEv = {e}
    BY <1>2, StageOfHandler DEF PollUndefined
  <2>2. Cardinality(pollEv) = 1
    BY <2>1, FS_Singleton
  <2> QED BY <1>2, <2>2 DEF PollUndefined
<1>3. CASE PollReady
  <2>1. Free /\ xMasterOsEvent = {}
    BY <1>3, StageOfHandler DEF PollReady, Handles
  <2>2. PollRests' /\ LineRests'
    BY <1>3, <2>1 DEF PollReady, PollRests, Free, LineRests, lineVars,
       rcvVars, sndVars, transVars, timerVars, busVars
  <2>3. ~Pending("ERROR_PROCESS") /\ ~Pending("ERROR_PROCESS")'
    BY <1>3, <2>2 DEF PollReady, Handles, Pending, PollRests
  <2>4. Fates'
    BY <1>3, <2>3, FatesKept DEF PollReady, Traced, bufVars
  <2>5. Seen
    BY <1>3 DEF Seen, Unseen, PollReady, Handles, bufVars
  <2> QED BY <2>2, <2>4, <2>5, FramesAtRest DEF Traced
<1>4. CASE PollFrameReceived
  <2>1. Deciding /\ xMasterOsEvent = {}
    BY <1>4, StageOfHandler DEF PollFrameReceived, Handles
  <2>2. PICK t \in Requesters : rq[t] = "waiting"
    BY <2>1, SomeoneWaits DEF Deciding
  <2>3. Pending("FRAME_RECEIVED") /\ ~Pending("ERROR_PROCESS")
    BY <1>4, <2>1 DEF PollFrameReceived, Handles, Pending
  <2>4. fact[t] = "open" /\ rcvBuf.id = sndBuf.id
    BY <2>2, <2>3 DEF Traced, Fates, OwnFrames
  <2>5. /\ UNCHANGED <<rq, res, sndBuf, rcvVars, sndVars, transVars,
                       timerVars, busVars>>
        /\ poll' = "get" /\ pollEv' = {}
    BY <1>4 DEF PollFrameReceived, bufVars
  <2>6. LineRests'
    BY <2>1, <2>5 DEF Deciding, LineRests, rcvVars, sndVars, transVars,
       timerVars, busVars
  <2>7. CASE rcvBuf.kind = "max"
    <3>1. UNCHANGED <<fact, xMasterOsEvent, eMBMasterCurErrorType>>
      BY <1>4, <2>7 DEF PollFrameReceived
    <3>2. \A e : ~Pending(e)'
      BY <2>1, <2>5, <3>1 DEF Pending
    <3>3. Fates'
      BY <2>3, <2>5, <3>1, <3>2, FatesKept DEF Traced, reqVars
    <3>4. OwnFrames'
      BY <2>5, <2>6, <3>2 DEF OwnFrames, LineRests
    <3>5. Seen
      BY <1>4, <2>5, <3>1 DEF Seen, Unseen, PollFrameReceived, Handles, reqVars
    <3> QED BY <3>3, <3>4, <3>5 DEF Traced
  <2>8. CASE CrcOk /\ rcvBuf.addr = ucMBMasterDestAddress
    <3>1. /\ ucMBFrame' = "rcv" /\ xMasterOsEvent' = {"EXECUTE"}
          /\ UNCHANGED <<fact, eMBMasterCurErrorType>>
      BY <1>4, <2>1, <2>8 DEF PollFrameReceived, CrcOk
    <3>2. /\ ~Pending("ERROR_PROCESS")' /\ ~Pending("FRAME_RECEIVED")'
          /\ poll' # "release"
      BY <2>5, <3>1 DEF Pending
    <3>3. Fates'
      BY <2>3, <2>5, <3>1, <3>2, FatesKept DEF Traced, reqVars
    <3>4. ExecutedId' = sndBuf'.id
      BY <2>4, <2>5, <3>1 DEF ExecutedId, rcvVars
    <3>5. OwnFrames'
      BY <2>6, <3>2, <3>4 DEF OwnFrames, LineRests
    <3>6. Seen
      BY <1>4, <2>5, <3>1 DEF Seen, Unseen, PollFrameReceived, Handles, reqVars
    <3> QED BY <3>3, <3>5, <3>6 DEF Traced
  <2>9. CASE /\ rcvBuf.kind # "max"
             /\ ~(CrcOk /\ rcvBuf.addr = ucMBMasterDestAddress)
    <3>1. /\ eMBMasterCurErrorType' = "RECEIVE_DATA"
          /\ xMasterOsEvent' = {"ERROR_PROCESS"}
          /\ Record(rcvBuf.id, "REV_DATA")
      BY <1>4, <2>1, <2>9 DEF PollFrameReceived
    <3>2. /\ Pending("ERROR_PROCESS")' /\ poll' # "release"
          /\ ~Pending("EXECUTE")' /\ ~Pending("FRAME_RECEIVED")'
      BY <2>5, <3>1 DEF Pending
    <3>3. OutcomeOf(eMBMasterCurErrorType') = "REV_DATA"
      BY <3>1 DEF OutcomeOf, VerdictOf, ResultOf
    <3>4. fact' = [fact EXCEPT ![t] = "REV_DATA"]
      BY <2>2, <2>4, <3>1, Decided DEF Traced
    <3>5. Fates'
      BY <2>2, <2>5, <3>2, <3>3, <3>4, DecidedAgainst DEF Traced
    <3>6. OwnFrames'
      BY <2>6, <3>2 DEF OwnFrames, LineRests
    <3>7. Seen
      BY <2>2, <2>4, <2>5, <3>4, OutcomeRange DEF Seen, Decides
    <3> QED BY <3>5, <3>6, <3>7 DEF Traced
  <2> QED BY <2>7, <2>8, <2>9
<1>5. CASE PollExecute
  <2>1. Deciding /\ xMasterOsEvent = {}
    BY <1>5, StageOfHandler DEF PollExecute, Handles
  <2>2. PICK t \in Requesters : rq[t] = "waiting"
    BY <2>1, SomeoneWaits DEF Deciding
  <2>3. Pending("EXECUTE") /\ ~Pending("ERROR_PROCESS")
    BY <1>5, <2>1 DEF PollExecute, Handles, Pending
  <2>4. fact[t] = "open" /\ ExecutedId = sndBuf.id /\ sndBuf.owner = t
    BY <2>2, <2>3 DEF Traced, Fates, OwnFrames
  <2>5. UNCHANGED <<sndBuf, lineVars>> /\ pollEv' = {}
    BY <1>5 DEF PollExecute
  <2>6. LineRests'
    BY <2>1, <2>5 DEF Deciding, LineRests, lineVars, rcvVars, sndVars,
       transVars, timerVars, busVars
  <2>7. CASE /\ poll' = "release"
             /\ PostVerdict("PROCESS_SUCESS")
             /\ Record(ExecutedId, "NO_ERR")
    <3>1. fact' = [fact EXCEPT ![t] = "NO_ERR"]
      BY <2>2, <2>4, <2>7, Decided DEF Traced
    <3>2. ResultOf({"PROCESS_SUCESS"}) = "NO_ERR"
      BY DEF ResultOf
    <3>3. /\ rq'  = [rq EXCEPT ![t] = "done"]
          /\ res' = [res EXCEPT ![t] = "NO_ERR"]
      BY <2>1, <2>2, <2>7, <3>2, VerdictDelivered
    <3>4. Fates'
      BY <2>2, <2>5, <3>1, <3>3, ToldTheTruth DEF Traced
    <3>5. OwnFrames'
      BY <2>4, <2>5, <2>6, <2>7 DEF OwnFrames, LineRests, Pending
    <3>6. Seen
      BY <2>2, <2>4, <2>5, <2>7, <3>1, <3>3, OutcomeRange DEF Seen, Finishes
    <3> QED BY <3>4, <3>5, <3>6 DEF Traced
  <2>8. CASE /\ poll' = "get"
             /\ eMBMasterCurErrorType' = "EXECUTE_FUNCTION"
             /\ xMasterOsEvent' = xMasterOsEvent \cup {"ERROR_PROCESS"}
             /\ Record(ExecutedId, "EXE_FUN")
             /\ UNCHANGED <<rq, res>>
    <3>1. /\ Pending("ERROR_PROCESS")' /\ poll' # "release"
          /\ ~Pending("EXECUTE")' /\ ~Pending("FRAME_RECEIVED")'
      BY <2>1, <2>5, <2>8 DEF Pending
    <3>2. OutcomeOf(eMBMasterCurErrorType') = "EXE_FUN"
      BY <2>8 DEF OutcomeOf, VerdictOf, ResultOf
    <3>3. fact' = [fact EXCEPT ![t] = "EXE_FUN"]
      BY <2>2, <2>4, <2>8, Decided DEF Traced
    <3>4. Fates'
      BY <2>2, <2>5, <2>8, <3>1, <3>2, <3>3, DecidedAgainst DEF Traced
    <3>5. OwnFrames'
      BY <2>6, <3>1 DEF OwnFrames, LineRests
    <3>6. Seen
      BY <2>2, <2>4, <2>5, <2>8, <3>3, OutcomeRange DEF Seen, Decides
    <3> QED BY <3>4, <3>5, <3>6 DEF Traced
  <2> QED BY <1>5, <2>7, <2>8 DEF PollExecute
<1>6. CASE PollFrameSent
  <2>1. Queued /\ xMasterOsEvent = {}
    BY <1>6, StageOfHandler DEF PollFrameSent, Handles
  <2>2. /\ ucMBFrame' = "snd" /\ tx'.id = sndBuf.id
        /\ poll' = "get" /\ pollEv' = {}
        /\ UNCHANGED <<reqVars, sndBuf, xMasterOsEvent, rcvVars, busVars,
                       eMBMasterCurErrorType>>
    BY <1>6, <2>1 DEF PollFrameSent, bufVars, Queued, LineRests
  <2>3. \A e : ~Pending(e)'
    BY <2>1, <2>2 DEF Pending
  <2>4. ~Pending("ERROR_PROCESS")
    BY <1>6 DEF PollFrameSent, Handles, Pending
  <2>5. Fates'
    BY <2>2, <2>3, <2>4, FatesKept DEF Traced
  <2>6. OwnFrames'
    BY <2>1, <2>2, <2>3
       DEF OwnFrames, Queued, LineRests, rcvVars, busVars
  <2>7. Seen
    BY <1>6, <2>2 DEF Seen, Unseen, PollFrameSent, Handles
  <2> QED BY <2>5, <2>6, <2>7 DEF Traced
<1>7. CASE PollErrorProcess
  <2>1. Deciding /\ xMasterOsEvent = {}
    BY <1>7, StageOfHandler DEF PollErrorProcess, Handles
  <2>2. PICK t \in Requesters : rq[t] = "waiting"
    BY <2>1, SomeoneWaits DEF Deciding
  <2>3. Pending("ERROR_PROCESS")
    BY <1>7, <2>1 DEF PollErrorProcess, Handles, Pending
  <2>4. fact[t] = OutcomeOf(eMBMasterCurErrorType) /\ sndBuf.owner = t
    BY <2>2, <2>3 DEF Traced, Fates
  <2>5. /\ UNCHANGED <<fact, sndBuf, lineVars>>
        /\ poll' = "release"
        /\ PostVerdict(VerdictOf(eMBMasterCurErrorType))
    BY <1>7 DEF PollErrorProcess, bufVars
  <2>6. LineRests'
    BY <2>1, <2>5 DEF Deciding, LineRests, lineVars, rcvVars, sndVars,
       transVars, timerVars, busVars
  <2>7. /\ rq'  = [rq EXCEPT ![t] = "done"]
        /\ res' = [res EXCEPT ![t] = OutcomeOf(eMBMasterCurErrorType)]
    BY <2>1, <2>2, <2>5, VerdictDelivered DEF OutcomeOf
  <2>8. fact' = [fact EXCEPT ![t] = OutcomeOf(eMBMasterCurErrorType)]
    BY <2>4, <2>5 DEF TypeOK
  <2>9. Fates'
    BY <2>2, <2>5, <2>7, <2>8, ToldTheTruth DEF Traced
  <2>10. OwnFrames'
    BY <2>4, <2>5, <2>6 DEF OwnFrames, LineRests, Pending
  <2>11. Seen
    BY <2>2, <2>4, <2>5, <2>7, <2>8, OutcomeRange DEF Seen, Finishes
  <2> QED BY <2>9, <2>10, <2>11 DEF Traced
<1>8. CASE RunResRelease
  <2>1. Settled
    BY <1>8 DEF RunResRelease, InHand, Starting, Free, Preparing, Queued,
       Sending, Turning, Awaiting, Receiving, Deciding, Pending, PollRests
  <2>2. /\ UNCHANGED <<res, fact, sndBuf, xMasterOsEvent, pollEv, lineVars,
                       eMBMasterCurErrorType>>
        /\ poll' = "get"
    BY <1>8 DEF RunResRelease, bufVars
  <2>3. PollRests' /\ LineRests'
    BY <2>1, <2>2 DEF Settled, PollRests, LineRests, lineVars, rcvVars,
       sndVars, transVars, timerVars, busVars
  <2>4. \/ UNCHANGED rq
        \/ \E t \in Requesters :
             rq[t] = "take" /\ rq' = [rq EXCEPT ![t] = "fill"]
    BY <1>8 DEF RunResRelease, Highest
  <2>5. ~Pending("ERROR_PROCESS") /\ ~Pending("ERROR_PROCESS")'
    BY <2>1, <2>3 DEF Settled, Pending, PollRests
  <2>6. Fates'
    BY <2>2, <2>4, <2>5 DEF Traced, Fates, TypeOK
  <2> QED BY <1>8, <2>3, <2>6, FramesAtRest DEF Traced
<1> QED BY <1>1, <1>2, <1>3, <1>4, <1>5, <1>6, <1>7, <1>8 DEF PollStep

LEMMA TransTraced ==
  ASSUME InHand, Traced, TransStep
  PROVE  Traced'
<1>1. UNCHANGED <<reqVars, sndBuf, ucMBFrame, eMBMasterCurErrorType, rcvVars,
                  tx, Events>>
  BY DEF TransStep, TransByte, TransTurn, TransDone, pollVars, bufVars,
     Events
<1>2. Fates'
  BY <1>1, PendingKept, FatesKept DEF Traced
<1>3. CASE TransByte
  BY <1>1, <1>2, <1>3, FramesKept DEF TransByte, Traced, busVars
<1>4. CASE TransTurn
  <2>1. eSndState = "XMIT" /\ eSndState' = eSndState
        /\ slave' \in {slave, tx}
    BY <1>4 DEF TransTurn
  <2>2. OwnFrames'
    BY <1>1, <2>1, PendingKept
       DEF Traced, OwnFrames, ExecutedId, Events, rcvVars
  <2> QED BY <1>2, <2>2 DEF Traced
<1>5. CASE TransDone
  <2>1. Turning /\ UNCHANGED slave
    BY <1>5, StageOfTurner DEF TransDone, busVars
  <2>2. OwnFrames'
    BY <1>1, <2>1, PendingKept
       DEF Traced, OwnFrames, Turning, ExecutedId, Events, rcvVars
  <2> QED BY <1>2, <2>2 DEF Traced
<1> QED BY <1>3, <1>4, <1>5 DEF TransStep

(* A byte of the request's own answer, or one that continues a frame, does *)
(* not change whose frame is in the receive buffer.                        *)
LEMMA HearsOwn ==
  ASSUME TypeOK, OwnFrames, NEW f, NEW part, ReceiveFSM(f, part),
         f.id = sndBuf.id \/ eRcvState # "IDLE",
         slave' \in {slave, NoRequest},
         UNCHANGED <<sndBuf, ucMBFrame, tx, Events>>
  PROVE  OwnFrames'
<1>1. /\ eSndState' \in {eSndState, "IDLE"}
      /\ rcvBuf'.id \in {rcvBuf.id, sndBuf.id}
      /\ \/ eRcvState' = eRcvState
         \/ rcvBuf'.id = sndBuf.id
         \/ eRcvState = "RCV"
  BY DEF TypeOK, ReceiveFSM, FirstByte, Appended
<1>2. \A e : Pending(e)' <=> Pending(e)
  BY PendingKept
<1>3. ExecutedId' \in {ExecutedId, sndBuf.id}
  BY <1>1 DEF ExecutedId
<1> QED BY <1>1, <1>2, <1>3 DEF OwnFrames, Events

LEMMA BusTraced ==
  ASSUME Faults \subseteq Tolerated, TypeOK, InHand, Traced, BusStep
  PROVE  Traced'
<1>1. UNCHANGED <<reqVars, sndBuf, ucMBFrame, eMBMasterCurErrorType, tx,
                  Events>>
  BY DEF BusStep, AnswerHead, NoiseHead, FrameTail, SlaveSilent, RxUnchanged,
     pollVars, bufVars, sndVars, Events
<1>2. Fates'
  BY <1>1, PendingKept, FatesKept DEF Traced
<1>3. CASE AnswerHead
  <2>1. slave # NoRequest /\ slave' = NoRequest
    BY <1>3 DEF AnswerHead
  <2>2. PICK k \in AnswerKinds :
          ReceiveFSM([id |-> slave.id, addr |-> slave.addr, kind |-> k],
                     "head")
    BY <1>3 DEF AnswerHead
  <2> DEFINE f == [id |-> slave.id, addr |-> slave.addr, kind |-> k]
  <2>3. f.id = sndBuf.id /\ ReceiveFSM(f, "head")
    BY <2>1, <2>2 DEF Traced, OwnFrames
  <2> HIDE DEF f
  <2>4. OwnFrames'
    BY <1>1, <2>1, <2>3, HearsOwn DEF Traced
  <2> QED BY <1>2, <2>4 DEF Traced
<1>4. CASE NoiseHead
  <2>1. Needs({"noise"} \cup If(trans = "turned", "early"))
    BY <1>4 DEF NoiseHead
  <2>2. "noise" \in Tolerated
    BY <2>1, OnlyTolerated
  <2> QED BY <2>2 DEF Tolerated, Benign
<1>5. CASE FrameTail
  <2>1. eRcvState # "IDLE"
    BY <1>5 DEF FrameTail, InHand, Starting, Free, Preparing, Queued,
       Sending, Turning, Awaiting, Receiving, Deciding, Settled, LineRests
  <2>2. ReceiveFSM(wire, "tail") /\ slave' = slave
    BY <1>5 DEF FrameTail
  <2>3. OwnFrames'
    BY <1>1, <2>1, <2>2, HearsOwn DEF Traced
  <2> QED BY <1>2, <2>3 DEF Traced
<1>6. CASE SlaveSilent
  <2>1. slave' = NoRequest /\ UNCHANGED <<eSndState, rcvVars>>
    BY <1>6 DEF SlaveSilent, sndVars
  <2>2. OwnFrames'
    BY <1>1, <2>1, PendingKept
       DEF Traced, OwnFrames, ExecutedId, Events, rcvVars
  <2> QED BY <1>2, <2>2 DEF Traced
<1> QED BY <1>3, <1>4, <1>5, <1>6 DEF BusStep

(* The timer decides a silence or a frame too long; a complete frame and   *)
(* the broadcast delay it leaves open.                                     *)
LEMMA TimerTraced ==
  ASSUME Faults \subseteq Tolerated, TypeOK, InHand, Traced, TimerExpired
  PROVE  Traced' /\ Seen
<1> DEFINE b == IF AnswerTimedOut THEN "ERROR_PROCESS" ELSE None
           c == IF eMasterCurTimerMode = "CONVERT_DELAY"
                     /\ eSndState # "XMIT" THEN "EXECUTE" ELSE None
<1>1. ExpiryFaults = {}
  <2>1. ExpiryFaults \cap Tolerated = {}
    BY DEF ExpiryFaults, If, Tolerated, Benign
  <2> QED BY <2>1, NoFault DEF TimerExpired
<1>2. PostThree(RcvEvent, b, c)
  BY DEF TimerExpired
<1>3. /\ UNCHANGED <<rq, res, ucMBFrame, sndBuf, rcvBuf, tx, slave>>
      /\ eRcvState' = "IDLE"
      /\ eSndState # "XMIT" => eSndState' = "IDLE"
      /\ eMBMasterCurErrorType' = ExpiryErrorType
  BY DEF TimerExpired, ReceiverRests, bufVars, busVars
<1>4. ASSUME NEW e, PollRests, Pending(e)'
      PROVE  /\ ~Pending("ERROR_PROCESS")
             /\ \A d : Pending(d)' => d = e
             /\ poll' # "release"
  BY <1>4 DEF Pending, PollRests
<1>5. CASE Starting
  <2>1. RcvEvent = "READY" /\ b = None /\ c = None /\ UNCHANGED fact
        /\ ExpiryErrorType = eMBMasterCurErrorType
    BY <1>5 DEF Starting, RcvEvent, AnswerTimedOut, TimerExpired,
       ExpiryErrorType
  <2>2. Pending("READY")'
    <3>1. PostInternal("READY", {})
      BY <1>2, <2>1 DEF PostThree, None
    <3> QED BY <1>5, <3>1, PostWakes DEF Starting
  <2>3. Fates'
    BY <1>3, <1>4, <1>5, <2>1, <2>2, FatesKept
       DEF Traced, Starting, reqVars
  <2>4. OwnFrames'
    BY <1>3, <1>4, <1>5, <2>2 DEF OwnFrames, Starting
  <2>5. Seen
    BY <1>3, <1>4, <1>5, <2>1, <2>2
       DEF Seen, Unseen, reqVars, Starting, PollRests
  <2> QED BY <2>3, <2>4, <2>5 DEF Traced
<1>6. CASE Awaiting
  <2>1. slave = NoRequest /\ ~Starved
    BY <1>1, <1>6 DEF ExpiryFaults, If, Awaiting
  <2>2. PICK t \in Requesters : rq[t] = "waiting"
    BY <1>6, <2>1, ServedWaits, SomeoneWaits DEF Awaiting
  <2>3. tx.id = sndBuf.id /\ ucMBFrame = "snd"
    BY <1>6 DEF Traced, OwnFrames, Awaiting
  <2>4. PollRests /\ ~Pending("ERROR_PROCESS")
    BY <1>6 DEF Awaiting, PollRests, Pending
  <2>5. fact[t] = "open"
    BY <2>2, <2>4 DEF Traced, Fates
  <2>6. CASE xFrameIsBroadcast
    <3>1. RcvEvent = None /\ b = None /\ c = "EXECUTE" /\ UNCHANGED fact
          /\ ExpiryErrorType = eMBMasterCurErrorType
      BY <1>6, <2>6 DEF Awaiting, RcvEvent, AnswerTimedOut, TimerExpired,
         ExpiryErrorType
    <3>2. Pending("EXECUTE")'
      <4>1. PostInternal("EXECUTE", {})
        BY <1>2, <3>1 DEF PostThree, None
      <4> QED BY <2>4, <4>1, PostWakes
    <3>3. Fates'
      BY <1>3, <1>4, <2>4, <3>1, <3>2, FatesKept DEF Traced, reqVars
    <3>4. ExecutedId' = sndBuf.id
      BY <1>3, <2>3 DEF ExecutedId
    <3>5. OwnFrames'
      BY <1>3, <1>4, <1>6, <2>1, <2>4, <3>2, <3>4 DEF OwnFrames, Awaiting
    <3>6. Seen
      BY <1>3, <1>4, <2>4, <3>1, <3>2 DEF Seen, Unseen, reqVars, PollRests
    <3> QED BY <3>3, <3>5, <3>6 DEF Traced
  <2>7. CASE ~xFrameIsBroadcast
    <3>1. RcvEvent = None /\ b = "ERROR_PROCESS" /\ c = None
          /\ Record(tx.id, "TIMEDOUT")
          /\ ExpiryErrorType = "RESPOND_TIMEOUT"
      BY <1>6, <2>7 DEF Awaiting, RcvEvent, AnswerTimedOut, TimerExpired,
         ExpiryErrorType
    <3>2. Pending("ERROR_PROCESS")'
      <4>1. PostInternal("ERROR_PROCESS", {})
        BY <1>2, <3>1 DEF PostThree, None
      <4> QED BY <2>4, <4>1, PostWakes
    <3>3. fact' = [fact EXCEPT ![t] = "TIMEDOUT"]
      BY <2>2, <2>3, <2>5, <3>1, Decided DEF Traced
    <3>4. OutcomeOf(eMBMasterCurErrorType') = "TIMEDOUT"
      BY <1>3, <3>1 DEF OutcomeOf, VerdictOf, ResultOf
    <3>5. Fates'
      BY <1>3, <2>2, <3>2, <3>3, <3>4, DecidedAgainst DEF Traced
    <3>6. OwnFrames'
      BY <1>3, <1>4, <1>6, <2>1, <2>4, <3>2 DEF OwnFrames, Awaiting
    <3>7. Seen
      BY <1>3, <2>2, <2>5, <3>3, OutcomeRange DEF Seen, Decides
    <3> QED BY <3>5, <3>6, <3>7 DEF Traced
  <2> QED BY <2>6, <2>7
<1>7. CASE Receiving
  <2>1. PICK t \in Requesters : rq[t] = "waiting"
    BY <1>7, SomeoneWaits DEF Receiving
  <2>2. rcvBuf.id = sndBuf.id
    BY <1>7 DEF Traced, OwnFrames, Receiving
  <2>3. PollRests /\ ~Pending("ERROR_PROCESS")
    BY <1>7 DEF Receiving, PollRests, Pending
  <2>4. fact[t] = "open"
    BY <2>1, <2>3 DEF Traced, Fates
  <2>5. b = None /\ c = None /\ ~AnswerTimedOut
    BY <1>7 DEF Receiving, AnswerTimedOut
  <2>6. CASE eRcvState = "RCV"
    <3>1. RcvEvent = "FRAME_RECEIVED" /\ UNCHANGED fact
          /\ ExpiryErrorType = eMBMasterCurErrorType
      BY <2>5, <2>6 DEF RcvEvent, TimerExpired, ExpiryErrorType
    <3>2. Pending("FRAME_RECEIVED")'
      <4>1. PostInternal("FRAME_RECEIVED", {})
        BY <1>2, <2>5, <3>1 DEF PostThree, None
      <4> QED BY <2>3, <4>1, PostWakes
    <3>3. Fates'
      BY <1>3, <1>4, <2>3, <3>1, <3>2, FatesKept DEF Traced, reqVars
    <3>4. OwnFrames'
      BY <1>3, <1>4, <1>7, <2>2, <2>3, <3>2 DEF OwnFrames, Receiving
    <3>5. Seen
      BY <1>3, <1>4, <2>3, <3>1, <3>2 DEF Seen, Unseen, reqVars, PollRests
    <3> QED BY <3>3, <3>4, <3>5 DEF Traced
  <2>7. CASE eRcvState = "ERROR"
    <3>1. RcvEvent = "ERROR_PROCESS" /\ Record(rcvBuf.id, "REV_DATA")
          /\ ExpiryErrorType = "RECEIVE_DATA"
      BY <2>5, <2>7 DEF RcvEvent, TimerExpired, ExpiryErrorType
    <3>2. Pending("ERROR_PROCESS")'
      <4>1. PostInternal("ERROR_PROCESS", {})
        BY <1>2, <2>5, <3>1 DEF PostThree, None
      <4> QED BY <2>3, <4>1, PostWakes
    <3>3. fact' = [fact EXCEPT ![t] = "REV_DATA"]
      BY <2>1, <2>2, <2>4, <3>1, Decided DEF Traced
    <3>4. OutcomeOf(eMBMasterCurErrorType') = "REV_DATA"
      BY <1>3, <3>1 DEF OutcomeOf, VerdictOf, ResultOf
    <3>5. Fates'
      BY <1>3, <2>1, <3>2, <3>3, <3>4, DecidedAgainst DEF Traced
    <3>6. OwnFrames'
      BY <1>3, <1>4, <1>7, <2>3, <3>2 DEF OwnFrames, Receiving
    <3>7. Seen
      BY <1>3, <2>1, <2>4, <3>3, OutcomeRange DEF Seen, Decides
    <3> QED BY <3>5, <3>6, <3>7 DEF Traced
  <2> QED BY <1>7, <2>6, <2>7 DEF Receiving
<1> QED BY <1>5, <1>6, <1>7 DEF TimerExpired, InHand, Free, Preparing,
           Queued, Sending, Turning, Deciding, Settled, LineRests

LEMMA AlwaysTraced ==
  ASSUME Faults \subseteq Tolerated
  PROVE  Spec => []Traced
<1>1. Init => Traced
  BY DEF Init, Traced, Fates, OwnFrames, Pending
<1>2. TypeOK /\ Sound /\ Traced /\ [Next]_vars => Traced'
  <2> SUFFICES ASSUME TypeOK, Sound, Traced, [Next]_vars PROVE Traced'
    OBVIOUS
  <2>1. CASE UNCHANGED vars
    <3>1. UNCHANGED <<reqVars, sndBuf, ucMBFrame, eMBMasterCurErrorType,
                      rcvVars, eSndState, tx, slave, Events>>
      BY <2>1 DEF vars, pollVars, bufVars, lineVars, sndVars, busVars,
         Events
    <3> QED BY <3>1, PendingKept, FatesKept, FramesKept DEF Traced
  <2> QED BY <2>1, SoundSteps, RequesterTraced, PollTraced, TransTraced,
          BusTraced, TimerTraced DEF Next
<1> QED BY <1>1, <1>2, TypeCorrect, AlwaysSound, PTL DEF Spec

(* The code a call returns is what became of that very request: the        *)
(* verdict is posted to an event set all requesters share, but everything  *)
(* that can produce one carries the number of the request in service.      *)
THEOREM EveryVerdictIsOwn ==
  ASSUME Faults \subseteq Tolerated
  PROVE  Spec => []OwnVerdict
<1>1. Traced => OwnVerdict
  BY DEF Traced, Fates, OwnVerdict
<1> QED BY <1>1, AlwaysTraced, PTL

-----------------------------------------------------------------------------
(* MbMaster implements the safety part of MbRequest.                       *)
phases == [t \in Requesters |-> PhaseOf(t)]

LEMMA ServiceKept ==
  ASSUME UNCHANGED <<phases, fact, res, Owner>>
  PROVE  UNCHANGED R!vars
  BY DEF R!vars, phases

LEMMA PhaseMoves ==
  ASSUME TypeOK, NEW t \in Requesters, NEW x, rq' = [rq EXCEPT ![t] = x]
  PROVE  /\ x = "idle" => phases' = [phases EXCEPT ![t] = "idle"]
         /\ x = "take" => phases' = [phases EXCEPT ![t] = "queued"]
         /\ x = "done" => phases' = [phases EXCEPT ![t] = "done"]
         /\ x \in {"fill", "post", "posted", "waiting"} =>
              phases' = [phases EXCEPT ![t] = "busy"]
<1>1. \A u \in Requesters : rq'[u] = IF u = t THEN x ELSE rq[u]
  BY DEF TypeOK
<1>2. \A u \in Requesters :
        PhaseOf(u)' = IF u # t THEN PhaseOf(u)
                      ELSE CASE x = "idle" -> "idle"
                             [] x = "take" -> "queued"
                             [] x = "done" -> "done"
                             [] OTHER      -> "busy"
  BY <1>1 DEF PhaseOf
<1> QED BY <1>2 DEF phases

LEMMA PhasesKept == ASSUME UNCHANGED rq PROVE UNCHANGED phases
  BY DEF phases, PhaseOf

(* Who owns the resource: the requester in service; when there is none,    *)
(* the one just settled, until modbus-m has released the resource.         *)
Owned ==
  /\ \A t \in Requesters : rq[t] \notin Outside => Owner = t
  /\ NobodyServed => Owner = IF poll = "release" THEN sndBuf.owner ELSE None

LEMMA OwnerKnown == TypeOK /\ Sound => Owned
<1> SUFFICES ASSUME TypeOK, Sound PROVE Owned
  OBVIOUS
<1>1. ASSUME NEW t \in Requesters, rq[t] \notin Outside
      PROVE  Owner = t
  <2>1. InService = {t}
    BY <1>1, InsideAlone
       DEF Sound, Stopped, Alone, InService, TypeOK, RqStates, Outside
  <2> QED BY <2>1 DEF Owner
<1>2. NobodyServed => InService = {}
  BY DEF NobodyServed, InService, Outside
<1> QED BY <1>1, <1>2 DEF Owned, Owner

LEMMA OwnerKept ==
  ASSUME Owned, Owned', UNCHANGED sndBuf,
         \A t \in Requesters : rq'[t] \in Outside <=> rq[t] \in Outside,
         poll' = "release" <=> poll = "release"
  PROVE  UNCHANGED Owner
<1>1. CASE NobodyServed
  BY <1>1 DEF Owned, NobodyServed
<1>2. CASE ~NobodyServed
  BY <1>2 DEF Owned, NobodyServed
<1> QED BY <1>1, <1>2

LEMMA RequesterRefines ==
  ASSUME Faults \subseteq Tolerated, TypeOK, InHand, Traced, Owned, Owned',
         NEW t \in Requesters, RequesterStep(t)
  PROVE  [R!Next]_(R!vars)
<1>1. PhaseOf(t) = phases[t]
  BY DEF phases
<1>2. R!Step(t) => R!Next
  BY DEF R!Next
<1>3. UNCHANGED poll \/ PostFrameSent(t)
  BY DEF RequesterStep, Request, TakeTimeout, Fill, WaitRequestFinish,
     Return, pollVars
<1>4. CASE Request(t)
  <2>1. rq[t] = "idle" /\ phases[t] = "idle" /\ UNCHANGED <<poll, sndBuf>>
    BY <1>1, <1>4 DEF Request, PhaseOf, pollVars, bufVars
  <2>2. CASE /\ rq'   = [rq EXCEPT ![t] = "done"]
             /\ res'  = [res EXCEPT ![t] = "ILL_ARG"]
             /\ fact' = [fact EXCEPT ![t] = "ILL_ARG"]
    <3>1. UNCHANGED Owner
      BY <2>1, <2>2, OwnerKept DEF TypeOK, Outside
    <3>2. R!Refuse(t)
      BY <2>1, <2>2, <3>1, PhaseMoves DEF R!Refuse, R!Fail, phases
    <3> QED BY <1>2, <3>2 DEF R!Step
  <2>3. CASE /\ xMasterRunRes > 0 /\ rq' = [rq EXCEPT ![t] = "fill"]
             /\ fact' = [fact EXCEPT ![t] = "open"] /\ UNCHANGED res
    <3>1. NobodyServed /\ poll # "release"
      BY <2>3 DEF InHand, Starting, Free, Preparing, Queued, Sending,
         Turning, Awaiting, Receiving, Deciding, Settled, Served, PollRests,
         Pending
    <3>2. Owner = None /\ Owner' = t
      BY <2>1, <2>3, <3>1 DEF Owned, TypeOK, Outside
    <3>3. R!Begin(t)
      BY <2>1, <2>3, <3>2, PhaseMoves DEF R!Begin, phases
    <3> QED BY <1>2, <3>3 DEF R!Step
  <2>4. CASE /\ xMasterRunRes = 0 /\ rq' = [rq EXCEPT ![t] = "take"]
             /\ fact' = [fact EXCEPT ![t] = "open"] /\ UNCHANGED res
    <3>1. (\E u \in Requesters : rq[u] \notin Outside) \/ Settled
      BY <2>4 DEF InHand, Starting, Free, Preparing, Queued, Sending,
         Turning, Awaiting, Receiving, Deciding, Served, Outside
    <3>2. Owner # None
      BY <3>1, MbAssumption DEF Owned, Settled, Traced, OwnFrames
    <3>3. UNCHANGED Owner
      BY <2>1, <2>4, OwnerKept DEF TypeOK, Outside
    <3>4. R!Queue(t)
      BY <2>1, <2>4, <3>2, <3>3, PhaseMoves DEF R!Queue, phases
    <3> QED BY <1>2, <3>4 DEF R!Step
  <2> QED BY <1>4, <2>2, <2>3, <2>4 DEF Request, RunResTake
<1>5. CASE TakeTimeout(t)
  <2>1. phases[t] = "queued" /\ UNCHANGED <<poll, sndBuf>>
    BY <1>1, <1>5 DEF TakeTimeout, PhaseOf, pollVars, bufVars
  <2>2. UNCHANGED Owner
    BY <1>5, <2>1, OwnerKept DEF TakeTimeout, TypeOK, Outside
  <2>3. R!GiveUp(t)
    BY <1>5, <2>1, <2>2, PhaseMoves
       DEF TakeTimeout, R!GiveUp, R!Fail, phases
  <2> QED BY <1>2, <2>3 DEF R!Step
<1>6. ASSUME NEW x \in {"fill", "post", "posted", "waiting"},
             rq[t] \in {"fill", "post", "posted", "waiting"},
             rq' = [rq EXCEPT ![t] = x], UNCHANGED <<res, fact>>
      PROVE  UNCHANGED R!vars
  <2>1. phases' = [phases EXCEPT ![t] = "busy"] /\ phases[t] = "busy"
    BY <1>1, <1>6, PhaseMoves DEF PhaseOf
  <2>2. UNCHANGED phases
    BY <2>1 DEF phases
  <2>3. Owner = t /\ Owner' = t
    BY <1>6 DEF Owned, TypeOK, Outside
  <2> QED BY <1>6, <2>2, <2>3, ServiceKept
<1>7. CASE Fill(t)
  BY <1>6, <1>7 DEF Fill
<1>8. CASE PostFrameSent(t)
  BY <1>6, <1>8 DEF PostFrameSent
<1>9. CASE WaitRequestFinish(t)
  <2>1. xMasterOsEvent \cap Verdicts = {}
    BY <1>9, StageOfPoster DEF WaitRequestFinish, Queued, Sending, Turning,
       Awaiting, Pending, PollRests, Verdicts
  <2> QED BY <1>6, <1>9, <2>1 DEF WaitRequestFinish
<1>10. CASE Return(t)
  <2>1. phases[t] = "done" /\ UNCHANGED <<poll, sndBuf>>
    BY <1>1, <1>10 DEF Return, PhaseOf, pollVars, bufVars
  <2>2. UNCHANGED Owner
    BY <1>10, <2>1, OwnerKept DEF Return, TypeOK, Outside
  <2>3. R!Return(t)
    BY <1>10, <2>1, <2>2, PhaseMoves DEF Return, R!Return, phases
  <2> QED BY <1>2, <2>3 DEF R!Step
<1> QED BY <1>4, <1>5, <1>7, <1>8, <1>9, <1>10 DEF RequesterStep

(* What a caller sees of modbus-m and of the timer are the steps Decide    *)
(* and Finish.                                                             *)
LEMMA SeenRefines ==
  ASSUME TypeOK, InHand, Traced, Owned, Owned', Seen
  PROVE  [R!Next]_(R!vars)
<1>1. CASE Unseen
  <2>1. UNCHANGED Owner
    BY <1>1, OwnerKept DEF Unseen, reqVars
  <2> QED BY <1>1, <2>1, PhasesKept, ServiceKept DEF Unseen, reqVars
<1>2. ASSUME NEW t \in Requesters, NEW v \in Outcomes, Decides(t, v)
      PROVE  R!Next
  <2>1. phases[t] = "busy" /\ rq[t] \notin Outside
    BY <1>2 DEF Decides, phases, PhaseOf, Outside
  <2>2. UNCHANGED <<phases, Owner>>
    BY <1>2, <2>1, PhasesKept DEF Decides, Owned
  <2>3. R!Decide(t)
    BY <1>2, <2>1, <2>2 DEF Decides, R!Decide, Outcomes, phases
  <2> QED BY <2>3 DEF R!Next, R!Step
<1>3. ASSUME NEW t \in Requesters, NEW v \in Outcomes, Finishes(t, v)
      PROVE  R!Next
  <2>1. phases[t] = "busy" /\ rq[t] \notin Outside
    BY <1>3 DEF Finishes, phases, PhaseOf, Outside
  <2>2. phases' = [phases EXCEPT ![t] = "done"]
    BY <1>3, PhaseMoves DEF Finishes
  <2>3. NobodyServed'
    <3>1. \A u \in Requesters \ {t} : rq[u] \in Outside
      BY <2>1, InsideAlone
    <3> QED BY <1>3, <3>1 DEF Finishes, NobodyServed, TypeOK, Outside
  <2>4. UNCHANGED Owner
    BY <1>3, <2>1, <2>3 DEF Finishes, Owned
  <2>5. R!Finish(t)
    BY <1>3, <2>1, <2>2, <2>4 DEF Finishes, R!Finish, Outcomes, phases
  <2> QED BY <2>5 DEF R!Next, R!Step
<1> QED BY <1>1, <1>2, <1>3 DEF Seen

LEMMA ReleaseRefines ==
  ASSUME TypeOK, InHand, Traced, Owned, Owned', RunResRelease
  PROVE  R!Next
<1>1. Settled
  BY DEF RunResRelease, InHand, Starting, Free, Preparing, Queued, Sending,
     Turning, Awaiting, Receiving, Deciding, Pending, PollRests
<1>2. Owner # None
  BY <1>1, MbAssumption DEF Settled, Owned, Traced, OwnFrames
<1>3. \A t \in Requesters : phases[t] # "busy"
  BY <1>1 DEF Settled, NobodyServed, phases, PhaseOf, Outside
<1>4. poll' = "get" /\ UNCHANGED <<fact, res>>
  BY DEF RunResRelease
<1>5. CASE {t \in Requesters : rq[t] = "take"} = {} /\ UNCHANGED rq
  <2>1. \A t \in Requesters : phases[t] # "queued"
    BY <1>5 DEF phases, PhaseOf
  <2>2. UNCHANGED phases
    BY <1>5, PhasesKept
  <2>3. Owner' = None
    BY <1>1, <1>4, <1>5 DEF Owned, Settled, NobodyServed
  <2>4. R!Free
    BY <1>2, <1>3, <1>4, <2>1, <2>2, <2>3 DEF R!Free, phases
  <2> QED BY <2>4 DEF R!Next
<1>6. ASSUME NEW t \in Requesters, rq[t] = "take",
             rq' = [rq EXCEPT ![t] = "fill"]
      PROVE  R!Next
  <2>1. phases[t] = "queued"
    BY <1>6 DEF phases, PhaseOf
  <2>2. phases' = [phases EXCEPT ![t] = "busy"]
    BY <1>6, PhaseMoves
  <2>3. Owner' = t
    BY <1>6 DEF Owned, TypeOK, Outside
  <2>4. R!Free
    BY <1>2, <1>3, <1>4, <2>1, <2>2, <2>3 DEF R!Free, phases
  <2> QED BY <2>4 DEF R!Next
<1> QED BY <1>5, <1>6 DEF RunResRelease, Highest

(* Nobody sees the transmitter or the bus.                                 *)
LEMMA LineRefines ==
  ASSUME Owned, Owned', TransStep \/ BusStep
  PROVE  UNCHANGED R!vars
<1>1. UNCHANGED <<reqVars, sndBuf, poll>>
  BY DEF TransStep, TransByte, TransTurn, TransDone, BusStep, AnswerHead,
     NoiseHead, FrameTail, SlaveSilent, RxUnchanged, pollVars, bufVars
<1>2. UNCHANGED Owner
  BY <1>1, OwnerKept DEF reqVars
<1> QED BY <1>1, <1>2, PhasesKept, ServiceKept DEF reqVars

(* Seen by its callers, the master serves one request at a time, gives     *)
(* each the outcome of that request and hands the resource on only then:   *)
(* every step is one of MbRequest or changes nothing a caller can see.     *)
THEOREM RequestServiceImplemented ==
  ASSUME Faults \subseteq Tolerated
  PROVE  Spec => R!Safety
<1>1. Init => R!Init
  <2> SUFFICES ASSUME Init PROVE R!Init
    OBVIOUS
  <2>1. \A t \in Requesters : PhaseOf(t) = "idle"
    BY DEF Init, PhaseOf
  <2>2. InService = {} /\ poll # "release"
    BY DEF Init, InService
  <2> QED BY <2>1, <2>2 DEF Init, R!Init, Owner
<1>2. /\ TypeOK /\ Sound /\ Traced /\ Owned /\ Owned'
      /\ [Next]_vars
      => [R!Next]_(R!vars)
  <2> SUFFICES ASSUME TypeOK, Sound, Traced, Owned, Owned', [Next]_vars
               PROVE  [R!Next]_(R!vars)
    OBVIOUS
  <2>1. CASE UNCHANGED vars
    <3>1. UNCHANGED <<reqVars, sndBuf, poll>>
      BY <2>1 DEF vars, pollVars, bufVars
    <3>2. UNCHANGED Owner
      BY <3>1, OwnerKept DEF reqVars
    <3> QED BY <3>1, <3>2, PhasesKept, ServiceKept DEF reqVars
  <2> QED BY <2>1, SoundSteps, RequesterRefines, PollTraced, TimerTraced,
          SeenRefines, ReleaseRefines, LineRefines DEF Next
<1>3. TypeOK /\ Sound => Owned
  BY OwnerKnown
<1> QED BY <1>1, <1>2, <1>3, TypeCorrect, AlwaysSound, AlwaysTraced, PTL
        DEF Spec, R!Safety
=============================================================================
