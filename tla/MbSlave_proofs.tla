--------------------------- MODULE MbSlave_proofs ---------------------------
(***************************************************************************)
(* Theorems about MbSlave, for every set of addresses, every bound and     *)
(* every set of faults.                                                    *)
(***************************************************************************)
EXTENDS MbSlave, FiniteSetTheorems, TLAPS

(* What the bus may carry is a frame.                                      *)
LEMMA OnTheBus ==
  ASSUME TypeOK, NEW a \in Addrs
  PROVE  /\ Kinds \subseteq FrameKinds
         /\ \A k \in FrameKinds :
              [id |-> IdFor(a), addr |-> a, kind |-> k] \in Frames
<1>1. Kinds \subseteq FrameKinds
  BY DEF Kinds, FrameKinds
<1>2. IdFor(a) \in 0..NumIds
  BY SlaveAssumption DEF TypeOK, IdFor, NextId
<1> QED BY <1>1, <1>2 DEF Frames

LEMMA CharType ==
  ASSUME NEW f \in Frames, NEW p \in {"head", "tail"}
  PROVE  Char(f, p) \in Characters
  BY DEF Char, Characters

(* The FIFO of the serial driver never stays empty after a character.      *)
LEMMA PutType ==
  ASSUME NEW r \in Seq(Characters), NEW c \in Characters
  PROVE  Put(r, c) \in Seq(Characters) /\ Len(Put(r, c)) > 0
<1> DEFINE longer == Append(r, c)
<1>1. longer \in Seq(Characters) /\ Len(longer) = Len(r) + 1
  OBVIOUS
<1>2. CASE Len(longer) = RingSize
  <2>1. RingSize \in Nat /\ RingSize > 1
    BY SlaveAssumption
  <2>2. longer # <<>>
    <3>1. Len(r) + 1 # 0 /\ Len(<<>>) = 0
      OBVIOUS
    <3> HIDE DEF longer
    <3> QED BY <1>1, <3>1
  <2>3. Tail(longer) \in Seq(Characters) /\ Len(Tail(longer)) = Len(longer) - 1
    BY <1>1, <2>2
  <2> QED BY <1>2, <2>1, <2>3 DEF Put
<1>3. CASE Len(longer) # RingSize
  BY <1>1, <1>3 DEF Put
<1> QED BY <1>2, <1>3

(* An empty FIFO holds nothing but the character just received.            *)
LEMMA PutAlone ==
  ASSUME NEW c \in Characters PROVE Put(<<>>, c) = <<c>>
<1>1. Append(<<>>, c) = <<c>> /\ Len(<<c>>) = 1
  OBVIOUS
<1>2. RingSize # 1
  BY SlaveAssumption
<1> QED BY <1>1, <1>2 DEF Put

(* The receive interrupt leaves the receiver, the FIFO and the timer well  *)
(* typed.                                                                  *)
LEMMA ReceiveType ==
  ASSUME TypeOK, NEW filled \in Seq(Characters), Len(filled) > 0,
         Receive(filled)
  PROVE  /\ eRcvState' \in {"INIT", "IDLE", "RCV", "ERROR"}
         /\ ucRTUBuf' \in [id : 0..NumIds, addr : Addrs,
                           kind : FrameKinds \cup {"part", "answer"}]
         /\ pdu' \in 0..NumIds
         /\ ring' \in Seq(Characters)
         /\ rx' \in {"on", "off", "held"}
         /\ timerOn' \in BOOLEAN
         /\ halted' \in BOOLEAN
<1>1. CASE rx # "on"
  BY <1>1 DEF Receive, TypeOK
<1>2. CASE rx = "on"
  <2> DEFINE c == Head(filled)
  <2>1. c \in Characters /\ Tail(filled) \in Seq(Characters)
    <3>1. filled # <<>>
      OBVIOUS
    <3> QED BY <3>1
  <2>2. ReceiveFSM(c) /\ ring' = Tail(filled) /\ rx' = rx
    BY <1>2 DEF Receive
  <2> HIDE DEF c
  <2>3. /\ c.part \in {"head", "tail"}
        /\ c.frame.id \in 0..NumIds /\ c.frame.addr \in Addrs
        /\ c.frame.kind \in FrameKinds \cup {None}
    BY <2>1 DEF Characters, Frames
  <2>4. Begun(c) \in [id : 0..NumIds, addr : Addrs,
                      kind : FrameKinds \cup {"part", "answer"}]
    BY <2>3 DEF Begun, FrameKinds
  <2>5. Appended(c) \in [id : 0..NumIds, addr : Addrs,
                         kind : FrameKinds \cup {"part", "answer"}]
    BY <2>3 DEF Appended, TypeOK, FrameKinds
  <2>6. pdu' \in 0..NumIds
    <3>1. 0 \in 0..NumIds
      BY SlaveAssumption
    <3>2. pdu' \in {pdu, c.frame.id, 0}
      BY <2>2 DEF ReceiveFSM
    <3> QED BY <2>3, <3>1, <3>2 DEF TypeOK
  <2> QED BY <2>1, <2>2, <2>4, <2>5, <2>6 DEF ReceiveFSM, TimersEnable, TypeOK
<1> QED BY <1>1, <1>2

LEMMA PostType ==
  ASSUME TypeOK, NEW e \in Events, Post(e)
  PROVE  /\ xSlaveOsEvent' \subseteq Events /\ pollEv' \subseteq Events
         /\ poll' \in {"start", "get", "blocked", "handle", "send", "orphan",
                       "spin"}
  BY DEF TypeOK, Post

LEMMA NeedsType ==
  ASSUME TypeOK, NEW fs, Needs(fs)
  PROVE  faultsLeft' \in 0..MaxFaults /\ strained' \in BOOLEAN
  BY SlaveAssumption DEF TypeOK, Needs

LEMMA LogType ==
  ASSUME TypeOK, NEW what \in {"execute", "answer"}, NEW id \in 0..NumIds,
         Log(what, id)
  PROVE  served' \in Seq([what : {"execute", "answer"}, id : 0..NumIds])
<1>1. [what |-> what, id |-> id]
        \in [what : {"execute", "answer"}, id : 0..NumIds]
  OBVIOUS
<1> QED BY <1>1 DEF TypeOK, Log

-----------------------------------------------------------------------------
LEMMA InitType == Init => TypeOK
<1> SUFFICES ASSUME Init PROVE TypeOK
  OBVIOUS
<1>1. NoFrame \in Frames /\ ucRcvAddress \in Addrs
  BY SlaveAssumption DEF Init, NoFrame, Frames, Addrs
<1>2. ucRTUBuf \in [id : 0..NumIds, addr : Addrs,
                    kind : FrameKinds \cup {"part", "answer"}]
  BY SlaveAssumption DEF Init, FrameKinds, Addrs
<1>3. /\ heard \in [id : 0..NumIds, addr : {0, Own}]
      /\ usSndBufferCount \in 0..FrameLen
      /\ pdu \in 0..NumIds
      /\ faultsLeft \in 0..MaxFaults
  BY SlaveAssumption DEF Init
<1>4. /\ ring \in Seq(Characters)
      /\ served \in Seq([what : {"execute", "answer"}, id : 0..NumIds])
  BY DEF Init
<1> QED BY <1>1, <1>2, <1>3, <1>4 DEF Init, TypeOK

LEMMA PollType ==
  ASSUME TypeOK, PollStep PROVE TypeOK'
<1> USE DEF pollVars, rcvVars, sndVars, transVars, history, faultVars
<1>1. CASE Start
  <2>1. faultsLeft' \in 0..MaxFaults /\ strained' \in BOOLEAN
    BY <1>1, NeedsType DEF Start
  <2>2. /\ eMBState' \in {"NOT_INITIALIZED", "ENABLED", "DISABLED"}
        /\ poll' \in {"get", "spin"}
        /\ eRcvState' \in {"INIT", "IDLE", "RCV", "ERROR"}
        /\ rx' \in {"on", "off", "held"}
        /\ timerOn' \in BOOLEAN
    BY <1>1 DEF TypeOK, Start, TimersEnable
  <2> QED BY <1>1, <2>1, <2>2 DEF TypeOK, Start
<1>2. CASE EventGet
  BY <1>2 DEF TypeOK, EventGet, Take
<1>3. CASE PollUndefined
  BY <1>3 DEF TypeOK, PollUndefined
<1>4. CASE PollNothing
  BY <1>4 DEF TypeOK, PollNothing
<1>5. CASE PollFrameReceived
  <2>1. ucRcvAddress' \in Addrs /\ xSlaveOsEvent' \subseteq Events
    BY <1>5 DEF TypeOK, PollFrameReceived, If, Events
  <2>2. halted' \in BOOLEAN
    BY <1>5 DEF PollFrameReceived
  <2> QED BY <1>5, <2>1, <2>2 DEF TypeOK, PollFrameReceived
<1>6. CASE PollExecute
  <2>1. ucRTUBuf' \in [id : 0..NumIds, addr : Addrs,
                       kind : FrameKinds \cup {"part", "answer"}]
    BY <1>6 DEF TypeOK, PollExecute, FrameKinds
  <2>2. served' \in Seq([what : {"execute", "answer"}, id : 0..NumIds])
    <3>1. pdu \in 0..NumIds
      BY DEF TypeOK
    <3> QED BY <1>6, <3>1, LogType DEF PollExecute
  <2> QED BY <1>6, <2>1, <2>2 DEF TypeOK, PollExecute
<1>7. CASE PollSend
  <2>1. FrameLen \in 0..FrameLen
    BY SlaveAssumption
  <2>2. /\ eSndState' \in {"IDLE", "XMIT"} /\ usSndBufferCount' \in 0..FrameLen
        /\ rx' \in {"on", "off", "held"} /\ transStart' \in BOOLEAN
    BY <1>7, <2>1 DEF TypeOK, PollSend
  <2> QED BY <1>7, <2>2 DEF TypeOK, PollSend
<1> QED BY <1>1, <1>2, <1>3, <1>4, <1>5, <1>6, <1>7 DEF PollStep

LEMMA TransType ==
  ASSUME TypeOK, TransStep PROVE TypeOK'
<1> USE DEF pollVars, rcvVars, sndVars, transVars, history, faultVars
<1>1. CASE TransByte
  <2>1. usSndBufferCount' \in 0..FrameLen
    BY <1>1, SlaveAssumption DEF TypeOK, TransByte
  <2>2. served' \in Seq([what : {"execute", "answer"}, id : 0..NumIds])
    <3>1. pdu \in 0..NumIds
      BY DEF TypeOK
    <3> QED BY <1>1, <3>1, LogType DEF TransByte, TypeOK
  <2> QED BY <1>1, <2>1, <2>2 DEF TypeOK, TransByte
<1>2. CASE TransTurn
  <2>1. Post("FRAME_SENT") /\ "FRAME_SENT" \in Events
    BY <1>2 DEF TransTurn, Events
  <2>2. /\ xSlaveOsEvent' \subseteq Events /\ pollEv' \subseteq Events
        /\ poll' \in {"start", "get", "blocked", "handle", "send", "orphan",
                      "spin"}
    BY <2>1, PostType
  <2> QED BY <1>2, <2>2 DEF TypeOK, TransTurn
<1>3. CASE TransDone
  BY <1>3 DEF TypeOK, TransDone
<1> QED BY <1>1, <1>2, <1>3 DEF TransStep

LEMMA BusType ==
  ASSUME TypeOK, BusStep PROVE TypeOK'
<1> USE DEF pollVars, rcvVars, sndVars, transVars, history, faultVars
<1>1. /\ faultsLeft' \in 0..MaxFaults /\ strained' \in BOOLEAN
      /\ wire' \in Frames /\ spoilt' \in BOOLEAN
      /\ \E filled \in Seq(Characters) : Len(filled) > 0 /\ Receive(filled)
  <2>1. CASE FrameHead
    <3>1. PICK a \in Addrs, k \in Kinds :
            LET f == [id |-> IdFor(a), addr |-> a, kind |-> k] IN
            /\ Needs(HeadFaults \cup If(k = "max", "max"))
            /\ wire' = f
            /\ Receive(Put(ring, Char(f, "head")))
      BY <2>1 DEF FrameHead
    <3>2. wire' \in Frames
      BY <3>1, OnTheBus
    <3>3. Char(wire', "head") \in Characters /\ ring \in Seq(Characters)
      BY <3>2, CharType DEF TypeOK
    <3>4. spoilt' \in BOOLEAN
      BY <2>1 DEF FrameHead, TypeOK
    <3> QED BY <3>1, <3>2, <3>3, <3>4, PutType, NeedsType
  <2>2. CASE NoiseHead
    <3>1. Noise \in Frames
      BY SlaveAssumption DEF Noise, Frames, FrameKinds, Addrs
    <3>2. Char(Noise, "head") \in Characters /\ ring \in Seq(Characters)
      BY <3>1, CharType DEF TypeOK
    <3>3. /\ Needs({"noise"} \cup ByteFaults) /\ wire' = Noise
          /\ Receive(Put(ring, Char(Noise, "head")))
          /\ spoilt' \in BOOLEAN
      BY <2>2 DEF NoiseHead
    <3> QED BY <3>1, <3>2, <3>3, PutType, NeedsType
  <2>3. CASE FrameTail
    <3>1. Char(wire, "tail") \in Characters /\ ring \in Seq(Characters)
      BY CharType DEF TypeOK
    <3>2. NoFrame \in Frames
      BY SlaveAssumption DEF NoFrame, Frames, Addrs
    <3>3. spoilt' \in BOOLEAN
      BY <2>3 DEF FrameTail, TypeOK
    <3> QED BY <2>3, <3>1, <3>2, <3>3, PutType, NeedsType DEF FrameTail
  <2>4. CASE FrameAtOnce
    <3>1. PICK a \in Addrs :
            LET f == [id |-> IdFor(a), addr |-> a, kind |-> "good"] IN
            /\ Needs(HeadFaults \cup {"burst"})
            /\ Receive(Put(Put(ring, Char(f, "head")), Char(f, "tail")))
      BY <2>4 DEF FrameAtOnce
    <3> DEFINE f == [id |-> IdFor(a), addr |-> a, kind |-> "good"]
    <3>2. f \in Frames
      BY OnTheBus DEF FrameKinds
    <3>3. /\ Needs(HeadFaults \cup {"burst"})
          /\ Receive(Put(Put(ring, Char(f, "head")), Char(f, "tail")))
      BY <3>1
    <3> HIDE DEF f
    <3>4. /\ Char(f, "head") \in Characters /\ Char(f, "tail") \in Characters
          /\ ring \in Seq(Characters)
      BY <3>2, CharType DEF TypeOK
    <3>5. Put(ring, Char(f, "head")) \in Seq(Characters)
      BY <3>4, PutType
    <3>6. wire' \in Frames /\ spoilt' \in BOOLEAN
      BY <2>4 DEF FrameAtOnce, TypeOK
    <3> QED BY <3>3, <3>4, <3>5, <3>6, PutType, NeedsType
  <2> QED BY <2>1, <2>2, <2>3, <2>4 DEF BusStep
<1>2. RxUnchanged
  BY DEF BusStep, FrameHead, NoiseHead, FrameTail, FrameAtOnce
<1>3. PICK filled \in Seq(Characters) : Len(filled) > 0 /\ Receive(filled)
  BY <1>1
<1>4. /\ eRcvState' \in {"INIT", "IDLE", "RCV", "ERROR"}
      /\ ucRTUBuf' \in [id : 0..NumIds, addr : Addrs,
                        kind : FrameKinds \cup {"part", "answer"}]
      /\ pdu' \in 0..NumIds
      /\ ring' \in Seq(Characters)
      /\ rx' \in {"on", "off", "held"}
      /\ timerOn' \in BOOLEAN
      /\ halted' \in BOOLEAN
  BY <1>3, ReceiveType
<1> QED BY <1>1, <1>2, <1>4 DEF TypeOK, RxUnchanged

LEMMA TimerType ==
  ASSUME TypeOK, TimerExpired PROVE TypeOK'
<1> USE DEF pollVars, rcvVars, sndVars, transVars, history
<1>1. faultsLeft' \in 0..MaxFaults /\ strained' \in BOOLEAN
  BY NeedsType DEF TimerExpired
<1>2. /\ xSlaveOsEvent' \subseteq Events /\ pollEv' \subseteq Events
      /\ poll' \in {"start", "get", "blocked", "handle", "send", "orphan",
                    "spin"}
  <2>1. "READY" \in Events /\ "FRAME_RECEIVED" \in Events
    BY DEF Events
  <2>2. CASE Post("READY") \/ Post("FRAME_RECEIVED")
    BY <2>1, <2>2, PostType
  <2>3. CASE UNCHANGED <<poll, pollEv, xSlaveOsEvent>>
    BY <2>3 DEF TypeOK
  <2> QED BY <2>2, <2>3 DEF TimerExpired
<1>3. /\ heard' \in [id : 0..NumIds, addr : {0, Own}]
      /\ served' \in Seq([what : {"execute", "answer"}, id : 0..NumIds])
      /\ spoilt' \in BOOLEAN
  <2>1. CASE UNCHANGED history
    BY <2>1 DEF TypeOK
  <2>2. CASE /\ Addressed(ucRTUBuf.addr)
             /\ heard' = [id |-> ucRTUBuf.id, addr |-> ucRTUBuf.addr]
             /\ served' = <<>> /\ spoilt' = FALSE
    <3>1. heard' \in [id : 0..NumIds, addr : {0, Own}]
      BY <2>2 DEF TypeOK, Addressed
    <3>2. <<>> \in Seq([what : {"execute", "answer"}, id : 0..NumIds])
      OBVIOUS
    <3> QED BY <2>2, <3>1, <3>2
  <2> QED BY <2>1, <2>2 DEF TimerExpired
<1>4. halted' \in BOOLEAN
  BY DEF TimerExpired
<1> QED BY <1>1, <1>2, <1>3, <1>4 DEF TypeOK, TimerExpired

LEMMA ReinitType ==
  ASSUME TypeOK, Reinit PROVE TypeOK'
<1>1. faultsLeft' \in 0..MaxFaults /\ strained' \in BOOLEAN
  BY NeedsType DEF Reinit
<1> QED BY <1>1 DEF TypeOK, Reinit, rcvVars, sndVars, transVars, history

(* Every variable stays within its type: the counter of bytes to send does *)
(* not pass below 0, and no step leaves the FIFO, the buffer or a state    *)
(* machine with a value the code has no case for.                          *)
THEOREM TypeCorrect == Spec => []TypeOK
<1>1. TypeOK /\ [Next]_vars => TypeOK'
  <2>1. TypeOK /\ UNCHANGED vars => TypeOK'
    BY DEF TypeOK, vars, pollVars, rcvVars, sndVars, transVars, history,
           faultVars
  <2> QED BY <2>1, PollType, TransType, BusType, TimerType, ReinitType
          DEF Next
<1> QED BY <1>1, InitType, PTL DEF Spec

-----------------------------------------------------------------------------
(* The transmitter between its two halves, and at rest.                    *)
Turned == trans = "turned" => ~transStart /\ eSndState = "XMIT" /\ rx = "on"
Rests  == ~transStart /\ trans = "loop" => eSndState = "IDLE"

Sender == TransmitEntry /\ Turned /\ Rests

LEMMA SenderKept ==
  ASSUME TypeOK, Sender, [Next]_vars
  PROVE  Sender'
<1> USE DEF Sender, TransmitEntry, Turned, Rests
<1>1. CASE UNCHANGED vars
  BY <1>1 DEF vars, rcvVars, sndVars, transVars
<1>2. CASE PollStep
  <2>1. PollCanRun
    BY <1>2 DEF PollStep, Start, EventGet, PollUndefined, PollNothing,
       PollFrameReceived, PollExecute, PollSend, Handles
  <2>2. CASE UNCHANGED <<sndVars, trans, transStart>>
    BY <2>1, <2>2 DEF PollCanRun, sndVars
  <2>3. CASE PollSend
    BY <2>1, <2>3 DEF PollSend, PollCanRun, RcvRests, rcvVars, sndVars
  <2> QED BY <1>2, <2>2, <2>3 DEF PollStep, Start, EventGet, PollUndefined,
          PollNothing, PollFrameReceived, PollExecute, transVars
<1>3. CASE TransStep
  <2>1. CASE TransByte
    BY <2>1 DEF TransByte, rcvVars, transVars
  <2>2. CASE TransTurn
    BY <2>2 DEF TransTurn, rcvVars, sndVars
  <2>3. CASE TransDone
    BY <2>3 DEF TransDone, rcvVars
  <2> QED BY <1>3, <2>1, <2>2, <2>3 DEF TransStep
<1>4. CASE BusStep
  <2>1. /\ UNCHANGED <<eSndState, trans, transStart>>
        /\ \E filled : Receive(filled)
    BY <1>4 DEF BusStep, FrameHead, NoiseHead, FrameTail, FrameAtOnce,
       RxUnchanged, sndVars
  <2>2. PICK filled : Receive(filled)
    BY <2>1
  <2>3. CASE rx = "on"
    BY <2>1, <2>2, <2>3 DEF Receive
  <2>4. CASE rx # "on"
    BY <2>1, <2>2, <2>4 DEF Receive
  <2> QED BY <2>3, <2>4
<1>5. CASE TimerExpired
  BY <1>5 DEF TimerExpired, sndVars, transVars
<1>6. CASE Reinit
  BY <1>6 DEF Reinit, rcvVars, sndVars, transVars
<1> QED BY <1>1, <1>2, <1>3, <1>4, <1>5, <1>6 DEF Next

LEMMA SenderInvariant == Spec => []Sender
<1>1. Init => Sender
  BY DEF Init, Sender, TransmitEntry, Turned, Rests
<1> QED BY <1>1, SenderKept, TypeCorrect, PTL DEF Spec

(* xMBRTUTransmitFSM is entered only with an answer to send and a receiver *)
(* at rest, whatever the faults: it runs in a thread, but above modbus-s,  *)
(* which therefore starts no answer between its two halves.                *)
THEOREM TransmitterSafe == Spec => []TransmitEntry
<1>1. Sender => TransmitEntry
  BY DEF Sender
<1> QED BY <1>1, SenderInvariant, PTL

(* The t3.5 timer runs exactly while the enabled receiver is not idle.     *)
THEOREM ReceiverWatched == Spec => []Watched
<1>1. Init => Watched
  BY DEF Init, Watched
<1>2. TypeOK /\ Watched /\ [Next]_vars => Watched'
  <2> SUFFICES ASSUME TypeOK, Watched, [Next]_vars PROVE Watched'
    OBVIOUS
  <2> USE DEF Watched
  <2>1. ASSUME UNCHANGED <<eMBState, eRcvState, timerOn>>, ~halted
        PROVE  Watched'
    BY <2>1
  <2>2. CASE UNCHANGED vars
    BY <2>2 DEF vars, pollVars, rcvVars
  <2>3. CASE PollStep
    <3>1. ~halted
      BY <2>3 DEF PollStep, PollCanRun, Start, EventGet, PollUndefined,
         PollNothing, PollFrameReceived, PollExecute, PollSend, Handles
    <3>2. CASE Start
      BY <3>1, <3>2 DEF Start, TimersEnable
    <3> QED BY <2>1, <2>3, <3>1, <3>2 DEF PollStep, EventGet, PollUndefined,
            PollNothing, PollFrameReceived, PollExecute, PollSend, rcvVars
  <2>4. CASE TransStep
    BY <2>1, <2>4 DEF TransStep, TransByte, TransTurn, TransDone, TransCanRun,
       pollVars, rcvVars
  <2>5. CASE BusStep
    <3>1. /\ eMBState' = eMBState /\ ~halted
          /\ \E filled : Receive(filled)
      BY <2>5 DEF BusStep, FrameHead, NoiseHead, FrameTail, FrameAtOnce,
         LineFree, RxUnchanged, pollVars
    <3>2. PICK filled : Receive(filled)
      BY <3>1
    <3>3. CASE rx = "on"
      <4>1. ReceiveFSM(Head(filled))
        BY <3>2, <3>3 DEF Receive
      <4>2. CASE eSndState # "IDLE"
        BY <4>1, <4>2 DEF ReceiveFSM
      <4>3. CASE eSndState = "IDLE"
        BY <3>1, <4>1, <4>3 DEF ReceiveFSM, TimersEnable
      <4> QED BY <4>2, <4>3
    <3>4. CASE rx # "on"
      BY <3>1, <3>2, <3>4 DEF Receive
    <3> QED BY <3>3, <3>4
  <2>6. CASE TimerExpired
    BY <2>6 DEF TimerExpired
  <2>7. CASE Reinit
    BY <2>7 DEF Reinit
  <2> QED BY <2>2, <2>3, <2>4, <2>5, <2>6, <2>7 DEF Next
<1> QED BY <1>1, <1>2, TypeCorrect, PTL DEF Spec

-----------------------------------------------------------------------------
(* The invariant behind the slave's promise.  While only the line has been *)
(* at fault, at most one event is on its way to modbus-s, and it says,     *)
(* with the buffer, how much of the last request is still to be done: it   *)
(* goes through Unserved, Unanswered and Done, unless noise, at any of     *)
(* them, has it Spoilt.                                                    *)

Pending == IF poll = "handle" THEN pollEv ELSE xSlaveOsEvent

OneEvent ==
  /\ poll \in {"start", "get", "blocked", "handle", "send"}
  /\ poll = "handle" => xSlaveOsEvent = {} /\ \E e \in Events : pollEv = {e}
  /\ poll # "handle" => pollEv = {}
  /\ poll = "get" => xSlaveOsEvent = {} \/ \E e \in Events : xSlaveOsEvent = {e}
  /\ poll \in {"start", "blocked", "send"} => xSlaveOsEvent = {}

(* The receiver hears everything, and knows a whole frame from a part.     *)
Hearing ==
  /\ ~halted
  /\ ring = <<>>
  /\ rx # "held" /\ (rx = "off" => transStart \/ poll = "start")
  /\ wire.kind # "max" /\ ucRTUBuf.kind # "max"
  /\ wire.kind # None \/ eRcvState \in {"INIT", "ERROR"}
       => ucRTUBuf.kind \in {"bad", "long", "part"}
  /\ eRcvState \in {"INIT", "ERROR"} => ucRTUBuf.kind # "part"
  /\ wire.kind = "good" /\ Addressed(wire.addr) => wire.id = NextId
  /\ eRcvState = "RCV" /\ ucRTUBuf.kind = "good" /\ Addressed(ucRTUBuf.addr)
       => ucRTUBuf.id = NextId /\ pdu = NextId

Enabled == IF poll = "start"
             THEN /\ ~timerOn /\ ucRTUBuf.kind = "bad" /\ heard.id = 0 /\ ~spoilt
                  /\ wire.kind = None /\ ~transStart /\ trans = "loop"
             ELSE eMBState = "ENABLED"

InBuffer(kind) ==
  /\ ucRTUBuf = [id |-> heard.id, addr |-> heard.addr, kind |-> kind]
  /\ pdu = heard.id

Unserved ==
  /\ served = <<>> /\ heard.id # 0
  /\ InBuffer("good") /\ eRcvState = "IDLE"
  /\ ~transStart /\ poll # "send"
  /\ \/ Pending = {"FRAME_RECEIVED"}
     \/ Pending = {"EXECUTE"} /\ ucRcvAddress = heard.addr

Unanswered ==
  /\ served = <<Server!Did("execute", heard.id)>>
  /\ heard.id # 0 /\ heard.addr = Own
  /\ InBuffer("answer") /\ eRcvState = "IDLE"
  /\ Pending = {}
  /\ \/ poll = "send" /\ ~transStart
     \/ poll = "get" /\ transStart /\ usSndBufferCount > 0

(* Nothing of a request is left to do, and what modbus-s is about to check *)
(* is none.                                                                *)
Waits ==
  /\ "EXECUTE" \notin Pending /\ poll # "send"
  /\ "FRAME_RECEIVED" \in Pending =>
       ucRTUBuf.kind # "good" \/ ~Addressed(ucRTUBuf.addr)

Done ==
  /\ Settled /\ Waits
  /\ transStart => Pending = {} /\ poll = "get" /\ usSndBufferCount = 0

(* Noise has come while modbus-s is at a request: the receiver is busy     *)
(* until modbus-s is through with it, so that eMBRTUSend refuses.          *)
Disturbed ==
  /\ eRcvState # "IDLE"
  /\ \/ Pending = {"EXECUTE"} /\ served = <<>> /\ pdu \in {0, heard.id}
     \/ poll = "send"

Spoilt == ~transStart /\ (Waits \/ Disturbed)

Stage == IF spoilt THEN Spoilt ELSE Unserved \/ Unanswered \/ Done

Promise == OneEvent /\ Hearing /\ Enabled /\ Stage

IInv == TypeOK /\ Sender /\ Watched /\ (strained \/ Promise)

(* A step after which only the line has been at fault needed no fault but  *)
(* one of the line.                                                        *)
LEMMA NeedsClean ==
  ASSUME NEW fs, Needs(fs), ~strained'
  PROVE  fs \subseteq Line
  BY DEF Needs

LEMMA AheadClean ==
  ASSUME Ahead \subseteq Line PROVE Abreast
  BY DEF Ahead, If, Line

LEMMA NextIdFacts ==
  ASSUME TypeOK
  PROVE  NextId \in 1..NumIds /\ NextId # heard.id
  BY SlaveAssumption DEF TypeOK, NextId

(* What a request asks for.                                                *)
LEMMA DueFacts ==
  ASSUME NEW r, NEW c \in BOOLEAN, r # 0
  PROVE  /\ Server!Due(r, TRUE)  = <<Server!Did("execute", r)>>
         /\ Server!Due(r, FALSE) = <<Server!Did("execute", r),
                                     Server!Did("answer", r)>>
         /\ Len(Server!Due(r, c)) > 0
         /\ Server!Due(r, c)[1] = Server!Did("execute", r)
  BY DEF Server!Due

(* A request that is not yet executed, or not yet answered, is not settled.*)
LEMMA Owing ==
  ASSUME Unserved \/ Unanswered PROVE ~Settled
<1>1. CASE Unserved
  <2>1. Cast \in BOOLEAN
    BY DEF Cast
  <2>2. Len(Server!Due(heard.id, Cast)) > 0 /\ Len(<<>>) = 0
    BY <1>1, <2>1, DueFacts DEF Unserved
  <2> QED BY <1>1, <2>2 DEF Unserved, Settled
<1>2. CASE Unanswered
  <2>1. Cast = FALSE
    BY <1>2, SlaveAssumption DEF Unanswered, Cast
  <2>2. Server!Due(heard.id, Cast) = <<Server!Did("execute", heard.id),
                                       Server!Did("answer", heard.id)>>
    <3>1. Server!Due(heard.id, FALSE) = <<Server!Did("execute", heard.id),
                                          Server!Did("answer", heard.id)>>
      BY <1>2, DueFacts DEF Unanswered
    <3> QED BY <2>1, <3>1
  <2>3. Len(Server!Due(heard.id, Cast)) = 2 /\ Len(served) = 1
    BY <1>2, <2>2 DEF Unanswered
  <2> QED BY <2>3 DEF Settled
<1> QED BY <1>1, <1>2

Simulates == Server!Next \/ UNCHANGED Server!vars

LEMMA PromiseTimer ==
  ASSUME IInv, Promise, ~strained', TimerExpired
  PROVE  Promise' /\ Simulates
<1> USE DEF IInv, Promise
<1>1. Abreast
  <2>1. Ahead \subseteq Line
    BY NeedsClean DEF TimerExpired
  <2> QED BY <2>1, AheadClean
<1>2. poll \in {"get", "blocked"} /\ xSlaveOsEvent = {} /\ Pending = {}
  BY <1>1 DEF TimerExpired, Enabled, Abreast, OneEvent, Pending
<1>3. eRcvState # "IDLE" /\ eMBState = "ENABLED"
  BY <1>2 DEF TimerExpired, Enabled, Hearing, Watched
<1>4. ~transStart /\ Waits /\ (spoilt \/ Settled)
  <2>1. ~Unserved /\ ~Unanswered
    BY <1>3 DEF Unserved, Unanswered
  <2>2. ~transStart
    BY <1>3 DEF Sender, TransmitEntry
  <2> QED BY <1>2, <2>1, <2>2 DEF Stage, Done, Waits
<1>5. UNCHANGED <<eMBState, ucRTUBuf, pdu, ring, trans, transStart, rx, wire>>
  BY DEF TimerExpired, sndVars, transVars
<1>6. ~halted' /\ eRcvState' = "IDLE"
  BY <1>3 DEF TimerExpired
<1>7. ASSUME NEW e \in Events, Post(e)
      PROVE  OneEvent' /\ Pending' = {e} /\ poll' \in {"get", "handle"}
  BY <1>2, <1>7 DEF Post, OneEvent, Pending
<1> DEFINE Heard == /\ eRcvState = "RCV"
                    /\ ucRTUBuf.kind = "good" /\ Addressed(ucRTUBuf.addr)
<1>8. CASE ~Heard
  <2>1. UNCHANGED <<heard, served, spoilt>>
    BY <1>8 DEF TimerExpired, history
  <2>2. Hearing'
    BY <1>2, <1>4, <1>5, <1>6, <2>1 DEF Hearing, NextId
  <2>3. Simulates
    BY <2>1 DEF Simulates, Server!vars, Cast
  <2>4. OneEvent' /\ Waits' /\ poll' \in {"get", "blocked", "handle"}
    <3>1. CASE Post("READY")
      <4>1. OneEvent' /\ Pending' = {"READY"} /\ poll' \in {"get", "handle"}
        BY <1>7, <3>1 DEF Events
      <4> QED BY <4>1 DEF Waits
    <3>2. CASE Post("FRAME_RECEIVED")
               /\ ~(ucRTUBuf.kind = "good" /\ Addressed(ucRTUBuf.addr))
      <4>1. /\ OneEvent' /\ Pending' = {"FRAME_RECEIVED"}
            /\ poll' \in {"get", "handle"}
        BY <1>7, <3>2 DEF Events
      <4> QED BY <1>5, <3>2, <4>1 DEF Waits, Addressed
    <3>3. CASE UNCHANGED <<poll, pollEv, xSlaveOsEvent>>
      BY <1>2, <3>3 DEF OneEvent, Pending, Waits
    <3> QED BY <1>8, <3>1, <3>2, <3>3 DEF TimerExpired
  <2>5. Stage'
    BY <1>4, <1>5, <2>1, <2>4 DEF Stage, Spoilt, Done, Settled, Cast
  <2> QED BY <1>3, <1>5, <2>2, <2>3, <2>4, <2>5 DEF Enabled
<1>9. CASE Heard
  <2>1. /\ eRcvState = "RCV" /\ Post("FRAME_RECEIVED")
        /\ ucRTUBuf.kind = "good" /\ Addressed(ucRTUBuf.addr)
        /\ heard' = [id |-> ucRTUBuf.id, addr |-> ucRTUBuf.addr]
        /\ served' = <<>> /\ ~spoilt'
    BY <1>9 DEF TimerExpired
  <2>2. /\ OneEvent' /\ Pending' = {"FRAME_RECEIVED"}
        /\ poll' \in {"get", "handle"}
    BY <1>7, <2>1 DEF Events
  <2>3. ucRTUBuf.id = NextId /\ pdu = NextId /\ wire.kind = None
    BY <2>1 DEF Hearing
  <2>4. Hearing'
    BY <1>2, <1>4, <1>5, <1>6, <2>1, <2>3 DEF Hearing, None
  <2>5. heard'.id \in 1..NumIds /\ heard'.id # heard.id
    BY <2>1, <2>3, NextIdFacts
  <2>6. Unserved'
    <3>1. ucRTUBuf = [id |-> heard'.id, addr |-> heard'.addr, kind |-> "good"]
      BY <2>1 DEF TypeOK
    <3>2. InBuffer("good")'
      BY <1>5, <2>1, <2>3, <3>1 DEF InBuffer
    <3> QED BY <1>4, <1>5, <1>6, <2>1, <2>2, <2>5, <3>2 DEF Unserved
  <2>7. Server!Hear
    <3>1. Cast' \in BOOLEAN
      BY DEF Cast
    <3> QED BY <1>4, <2>1, <2>5, <3>1 DEF Server!Hear, Settled
  <2> QED BY <1>3, <1>5, <2>1, <2>2, <2>4, <2>6, <2>7 DEF Enabled, Simulates,
          Server!Next, Stage
<1> QED BY <1>8, <1>9

LEMMA PromiseBus ==
  ASSUME IInv, Promise, ~strained', BusStep
  PROVE  Promise' /\ Simulates
<1> USE DEF IInv, Promise
<1>1. ~transStart /\ trans = "loop"
  <2>1. ByteFaults \subseteq Line
    BY NeedsClean DEF BusStep, FrameHead, NoiseHead, FrameTail, FrameAtOnce,
       HeadFaults
  <2>2. trans \in {"loop", "turned"}
    BY DEF TypeOK
  <2> QED BY <2>1, <2>2 DEF ByteFaults, If, Line
<1>2. poll # "start"
  BY DEF BusStep, FrameHead, NoiseHead, FrameTail, FrameAtOnce, LineFree,
     Enabled
<1>3. eSndState = "IDLE" /\ rx = "on"
  BY <1>1, <1>2 DEF Sender, Rests, Hearing, TypeOK
<1>4. UNCHANGED <<eMBState, poll, pollEv, ucRcvAddress, xSlaveOsEvent, trans,
                  transStart, usSndBufferCount, heard, served>>
  BY DEF BusStep, FrameHead, NoiseHead, FrameTail, FrameAtOnce, RxUnchanged,
     pollVars, sndVars
<1>5. OneEvent' /\ Enabled' /\ Pending' = Pending /\ Settled' = Settled
  BY <1>2, <1>4 DEF OneEvent, Enabled, Pending, Settled, Cast
<1> DEFINE Arrives(c) ==
      /\ ReceiveFSM(c) /\ ring' = <<>> /\ rx' = rx
      /\ \/ /\ c.part = "head" /\ wire.kind = None /\ wire' = c.frame
            /\ c.frame.kind \in {"good", "bad", "long"}
            /\ c.frame.kind = "good" /\ Addressed(c.frame.addr)
                 => c.frame.id = NextId
            /\ spoilt' = (spoilt \/ ~Settled)
         \/ /\ c.part = "tail" /\ wire.kind # None /\ wire' = NoFrame
            /\ c.frame = wire
            /\ Abreast \/ c.frame.kind = "bad" \/ eRcvState # "RCV"
            /\ spoilt' = spoilt
<1>6. PICK c : Arrives(c)
  <2>1. ASSUME NEW f \in Frames, NEW p \in {"head", "tail"},
               Receive(Put(ring, Char(f, p)))
        PROVE  ReceiveFSM(Char(f, p)) /\ ring' = <<>> /\ rx' = rx
    <3>1. Char(f, p) \in Characters
      BY CharType
    <3>2. Receive(<<Char(f, p)>>)
      BY <2>1, <3>1, PutAlone DEF Hearing
    <3>3. Head(<<Char(f, p)>>) = Char(f, p) /\ Tail(<<Char(f, p)>>) = <<>>
      OBVIOUS
    <3> QED BY <1>3, <3>2, <3>3 DEF Receive
  <2>2. CASE FrameHead
    <3>1. PICK a \in Addrs, k \in Kinds :
            LET f == [id |-> IdFor(a), addr |-> a, kind |-> k] IN
            /\ Needs(HeadFaults \cup If(k = "max", "max"))
            /\ wire' = f
            /\ Receive(Put(ring, Char(f, "head")))
      BY <2>2 DEF FrameHead
    <3>2. /\ wire' = [id |-> IdFor(a), addr |-> a, kind |-> k]
          /\ wire' \in Frames
      BY <3>1, OnTheBus
    <3>3. HeadFaults \cup If(k = "max", "max") \subseteq Line
      BY <3>1, NeedsClean
    <3>4. k \in {"good", "bad", "long"} /\ (Settled \/ spoilt)
      BY <3>3 DEF Kinds, HeadFaults, If, Line
    <3>5. /\ ReceiveFSM(Char(wire', "head")) /\ ring' = <<>> /\ rx' = rx
      BY <2>1, <3>1, <3>2
    <3>6. /\ Char(wire', "head").part = "head"
          /\ Char(wire', "head").frame = wire'
      BY DEF Char
    <3>7. wire.kind = None
      BY <2>2 DEF FrameHead, LineFree
    <3>8. Addressed(wire'.addr) => wire'.id = NextId
      BY <3>2 DEF IdFor
    <3>9. spoilt' = (spoilt \/ ~Settled)
      BY <2>2, <3>4 DEF FrameHead, TypeOK
    <3> QED BY <3>2, <3>4, <3>5, <3>6, <3>7, <3>8, <3>9
  <2>3. CASE NoiseHead
    <3>1. Noise \in Frames /\ Noise.kind = "bad"
      BY SlaveAssumption DEF Noise, Frames, FrameKinds, Addrs
    <3>2. /\ wire' = Noise /\ Receive(Put(ring, Char(Noise, "head")))
          /\ wire.kind = None /\ spoilt' = (spoilt \/ ~Settled)
      BY <2>3 DEF NoiseHead, LineFree
    <3>3. /\ Char(Noise, "head").part = "head"
          /\ Char(Noise, "head").frame = Noise
      BY DEF Char
    <3>4. ReceiveFSM(Char(Noise, "head")) /\ ring' = <<>> /\ rx' = rx
      BY <2>1, <3>1, <3>2
    <3> QED BY <3>1, <3>2, <3>3, <3>4
  <2>4. CASE FrameTail
    <3>1. /\ wire \in Frames /\ wire.kind # None /\ wire' = NoFrame
          /\ Receive(Put(ring, Char(wire, "tail")))
          /\ spoilt' = spoilt
      BY <2>4 DEF FrameTail, TypeOK
    <3>2. ReceiveFSM(Char(wire, "tail")) /\ ring' = <<>> /\ rx' = rx
      BY <2>1, <3>1
    <3>3. Char(wire, "tail").part = "tail" /\ Char(wire, "tail").frame = wire
      BY DEF Char
    <3>4. Abreast \/ wire.kind = "bad" \/ eRcvState # "RCV"
      <4>1. CASE wire = Noise
        BY <4>1 DEF Noise
      <4>2. CASE wire # Noise /\ eRcvState = "RCV"
        <5>1. Ahead \subseteq Line
          BY <2>4, <4>2, NeedsClean DEF FrameTail
        <5> QED BY <5>1, AheadClean
      <4> QED BY <4>1, <4>2
    <3> QED BY <3>1, <3>2, <3>3, <3>4
  <2>5. ~FrameAtOnce
    <3>1. ~Needs(HeadFaults \cup {"burst"})
      BY NeedsClean DEF Line
    <3> QED BY <3>1 DEF FrameAtOnce
  <2> QED BY <2>2, <2>3, <2>4, <2>5 DEF BusStep
<1>7. /\ halted' = halted
      /\ \/ /\ eRcvState \in {"INIT", "ERROR"}
            /\ UNCHANGED <<eRcvState, ucRTUBuf, pdu>>
         \/ /\ eRcvState = "IDLE"
            /\ ucRTUBuf' = Begun(c)
            /\ eRcvState' = "RCV"
            /\ UNCHANGED pdu
         \/ /\ eRcvState = "RCV"
            /\ ucRTUBuf' = Appended(c)
            /\ pdu' = IF Appended(c).kind = "good" THEN c.frame.id ELSE 0
            /\ eRcvState' = IF c.part = "tail" /\ c.frame.kind = "long"
                              THEN "ERROR" ELSE "RCV"
  BY <1>3, <1>6 DEF ReceiveFSM
<1>8. /\ c.part \in {"head", "tail"}
      /\ c.frame.kind \in {"good", "bad", "long"}
      /\ c.frame.kind = "good" /\ Addressed(c.frame.addr)
           => c.frame.id = NextId
  <2>1. wire.kind \in {"good", "bad", "long", None}
    BY DEF TypeOK, Frames, FrameKinds, Hearing
  <2> QED BY <1>6, <2>1 DEF Hearing
<1>9. /\ Begun(c).kind \in {"part", "bad"}
      /\ c.part = "tail" => Begun(c).kind = "bad"
  BY <1>8 DEF Begun
<1>10. /\ Appended(c).kind \in {"good", "bad", "long"}
       /\ Appended(c).kind # "bad" =>
            /\ c.part = "tail" /\ Appended(c).kind = c.frame.kind
            /\ ucRTUBuf.kind = "part"
            /\ Appended(c).id = c.frame.id /\ Appended(c).addr = c.frame.addr
  BY <1>8 DEF Appended, TypeOK, None
<1>11. NextId' = NextId
  BY <1>4 DEF NextId
<1>12. Hearing'
  <2>1. ~halted' /\ ring' = <<>> /\ rx' = "on"
    BY <1>3, <1>6, <1>7 DEF Hearing
  <2>2. wire'.kind # "max" /\ (wire'.kind # None => c.part = "head")
    BY <1>6, <1>8 DEF NoFrame, None
  <2>3. ucRTUBuf'.kind # "max"
    BY <1>7, <1>9, <1>10 DEF Hearing
  <2>4. wire'.kind # None \/ eRcvState' \in {"INIT", "ERROR"}
          => ucRTUBuf'.kind \in {"bad", "long", "part"}
    BY <1>7, <1>8, <1>9, <1>10, <2>2 DEF Hearing
  <2>5. eRcvState' \in {"INIT", "ERROR"} => ucRTUBuf'.kind # "part"
    BY <1>7, <1>9, <1>10 DEF Hearing
  <2>6. wire'.kind = "good" /\ Addressed(wire'.addr) => wire'.id = NextId'
    BY <1>6, <1>8, <1>11 DEF NoFrame, None
  <2>7. eRcvState' = "RCV" /\ ucRTUBuf'.kind = "good"
          /\ Addressed(ucRTUBuf'.addr)
            => ucRTUBuf'.id = NextId' /\ pdu' = NextId'
    BY <1>7, <1>8, <1>9, <1>10, <1>11
  <2> QED BY <2>1, <2>2, <2>3, <2>4, <2>5, <2>6, <2>7 DEF Hearing, Addressed
<1>13. ASSUME ~Abreast
       PROVE  /\ eRcvState \in {"IDLE", "RCV"} => ucRTUBuf'.kind # "good"
              /\ eRcvState = "RCV" => pdu' = 0
  BY <1>6, <1>7, <1>8, <1>9, <1>10, <1>13
<1>14. Waits => Waits'
  <2>1. "FRAME_RECEIVED" \in Pending => ~Abreast
    BY DEF Pending, Abreast
  <2> QED BY <1>4, <1>5, <1>7, <1>13, <2>1 DEF Waits, Addressed
<1>15. Disturbed => Disturbed'
  <2>1. Disturbed => ~Abreast
    BY DEF Disturbed, Pending, Abreast
  <2> QED BY <1>4, <1>5, <1>7, <1>13, <2>1 DEF Disturbed
<1>16. Stage'
  <2>1. CASE spoilt
    <3>1. spoilt'
      BY <1>6, <2>1
    <3> QED BY <1>1, <1>4, <1>14, <1>15, <2>1, <3>1 DEF Stage, Spoilt
  <2>2. CASE ~spoilt /\ Done
    <3>1. ~spoilt'
      BY <1>6, <2>2 DEF Done
    <3> QED BY <1>1, <1>4, <1>5, <1>14, <2>2, <3>1 DEF Stage, Done
  <2>3. CASE ~spoilt /\ (Unserved \/ Unanswered)
    <3>1. ucRTUBuf.kind \in {"good", "answer"} /\ eRcvState = "IDLE"
      BY <2>3 DEF Unserved, Unanswered, InBuffer
    <3>2. c.part = "head" /\ spoilt'
      BY <1>6, <2>3, <3>1, Owing DEF Hearing
    <3>3. /\ ucRTUBuf'.kind = "part" /\ eRcvState' = "RCV" /\ pdu' = pdu
      BY <1>7, <3>1, <3>2 DEF Begun
    <3>4. Waits' \/ Disturbed'
      <4>1. CASE Unserved
        BY <1>4, <1>5, <3>3, <4>1 DEF Unserved, InBuffer, Waits, Disturbed
      <4>2. CASE Unanswered
        BY <1>1, <1>4, <3>3, <4>2 DEF Unanswered, Disturbed
      <4> QED BY <2>3, <4>1, <4>2
    <3> QED BY <1>1, <1>4, <3>2, <3>4 DEF Stage, Spoilt
  <2> QED BY <2>1, <2>2, <2>3 DEF Stage
<1>17. Simulates
  <2>1. UNCHANGED <<heard.id, Cast, served>>
    BY <1>4 DEF Cast
  <2>2. CASE spoilt' = spoilt
    BY <2>1, <2>2 DEF Simulates, Server!vars
  <2>3. CASE spoilt' # spoilt
    <3>1. ~spoilt /\ spoilt' = TRUE /\ ~Settled
      BY <1>6, <2>3 DEF TypeOK
    <3> QED BY <2>1, <3>1 DEF Simulates, Server!Next, Server!Spoil, Settled
  <2> QED BY <2>2, <2>3
<1> QED BY <1>5, <1>12, <1>16, <1>17

LEMMA PromisePoll ==
  ASSUME IInv, Promise, ~strained', PollStep
  PROVE  Promise' /\ Simulates
<1> USE DEF IInv, Promise
<1>1. ~halted /\ ~transStart /\ trans = "loop"
  BY DEF PollStep, PollCanRun, Start, EventGet, PollUndefined, PollNothing,
     PollFrameReceived, PollExecute, PollSend, Handles
<1>2. ASSUME UNCHANGED <<rcvVars, wire, heard>>, ~halted',
             rx' = rx, transStart' = transStart, poll # "start"
      PROVE  Hearing'
  BY <1>2 DEF Hearing, rcvVars, NextId
<1>3. ASSUME UNCHANGED <<heard, served, spoilt>>
      PROVE  Simulates /\ Settled' = Settled
  BY <1>3 DEF Simulates, Server!vars, Settled, Cast
<1>4. CASE Start
  <2>1. {"boot"} \subseteq Line => FALSE
    BY DEF Line
  <2>2. eMBState' = "ENABLED" /\ poll' = "get" /\ eRcvState' = "INIT"
        /\ rx' = "on"
    BY <1>4, <2>1, NeedsClean DEF Start
  <2>3. /\ UNCHANGED <<pollEv, xSlaveOsEvent, ucRTUBuf, pdu, ring, trans,
                       transStart, wire, heard, served, spoilt, halted>>
        /\ poll = "start"
    BY <1>4 DEF Start, history
  <2>4. OneEvent' /\ Enabled' /\ Pending' = {}
    BY <2>2, <2>3 DEF OneEvent, Enabled, Pending
  <2>5. Hearing'
    BY <2>2, <2>3 DEF Hearing, NextId, Enabled, None
  <2>6. ~spoilt /\ Settled
    BY <2>3 DEF Unserved, Unanswered, Enabled, Stage, Done
  <2>7. Stage'
    BY <1>1, <1>3, <2>2, <2>3, <2>4, <2>6 DEF Done, Waits, Stage
  <2> QED BY <1>3, <2>3, <2>4, <2>5, <2>7
<1>5. CASE EventGet
  <2>1. /\ UNCHANGED <<eMBState, ucRcvAddress, rcvVars, sndVars, transVars,
                       timerOn, wire, history, halted>>
        /\ poll = "get" /\ poll' \in {"blocked", "handle"}
        /\ \/ /\ xSlaveOsEvent = {} /\ poll' = "blocked"
              /\ UNCHANGED <<pollEv, xSlaveOsEvent>>
           \/ /\ xSlaveOsEvent # {} /\ poll' = "handle"
              /\ pollEv' = xSlaveOsEvent /\ xSlaveOsEvent' = {}
    BY <1>5 DEF EventGet, Enabled, Take
  <2>2. OneEvent' /\ Enabled' /\ Pending' = Pending
    BY <2>1 DEF OneEvent, Enabled, Pending
  <2>3. Hearing'
    BY <1>1, <1>2, <2>1 DEF transVars, history
  <2>4. UNCHANGED <<heard, served, spoilt, ucRTUBuf, pdu, eRcvState, transStart>>
    BY <2>1 DEF history, rcvVars, transVars
  <2>5. Stage'
    <3>1. /\ Waits => Waits'
          /\ Disturbed => Disturbed'
      BY <2>1, <2>2, <2>4 DEF Waits, Disturbed
    <3>2. ~Unanswered
      BY <1>1, <2>1 DEF Unanswered
    <3>3. Unserved => Unserved'
      BY <2>1, <2>2, <2>4 DEF Unserved, InBuffer
    <3> QED BY <1>1, <1>3, <2>4, <3>1, <3>2, <3>3 DEF Stage, Spoilt, Done
  <2> QED BY <1>3, <2>2, <2>3, <2>4, <2>5
<1>6. ~PollUndefined
  <2>1. ASSUME NEW e PROVE Cardinality({e}) = 1
    BY FS_Singleton
  <2> QED BY <2>1 DEF PollUndefined, OneEvent
<1>7. CASE PollNothing
  <2>1. /\ UNCHANGED <<eMBState, ucRcvAddress, xSlaveOsEvent, rcvVars, sndVars,
                       transVars, timerOn, wire, history, halted>>
        /\ poll' = "get" /\ pollEv' = {} /\ poll = "handle"
        /\ Pending \in {{"READY"}, {"FRAME_SENT"}}
    BY <1>7 DEF PollNothing, Handles, Pending
  <2>2. OneEvent' /\ Enabled' /\ Pending' = {}
    BY <2>1 DEF OneEvent, Enabled, Pending
  <2>3. Hearing'
    BY <1>1, <1>2, <2>1 DEF transVars, history
  <2>4. UNCHANGED <<heard, served, spoilt, transStart>>
    BY <2>1 DEF history, transVars
  <2>5. spoilt \/ Settled
    BY <2>1 DEF Unserved, Unanswered, Stage, Done
  <2>6. Stage'
    BY <1>1, <1>3, <2>1, <2>2, <2>4, <2>5 DEF Stage, Spoilt, Done, Waits
  <2> QED BY <1>3, <2>2, <2>3, <2>4, <2>6
<1>8. CASE PollFrameReceived
  <2>1. /\ UNCHANGED <<eMBState, rcvVars, sndVars, transVars, timerOn, wire,
                       history>>
        /\ poll' = "get" /\ pollEv' = {} /\ poll = "handle"
        /\ Pending = {"FRAME_RECEIVED"}
        /\ halted' = (ucRTUBuf.kind = "max")
    BY <1>8 DEF PollFrameReceived, Handles, Pending
  <2>2. ~halted'
    BY <2>1 DEF Hearing
  <2>3. Hearing'
    BY <1>2, <2>1, <2>2 DEF transVars, history
  <2>4. UNCHANGED <<heard, served, spoilt, ucRTUBuf, pdu, eRcvState,
                    transStart>>
    BY <2>1 DEF history, rcvVars, transVars
  <2>5. CASE ucRTUBuf.kind = "good" /\ Addressed(ucRTUBuf.addr)
    <3>1. xSlaveOsEvent' = {"EXECUTE"} /\ ucRcvAddress' = ucRTUBuf.addr
      BY <1>8, <2>1, <2>5 DEF PollFrameReceived, OneEvent, If
    <3>2. OneEvent' /\ Enabled' /\ Pending' = {"EXECUTE"}
      BY <2>1, <3>1 DEF OneEvent, Enabled, Pending, Events
    <3>3. ~spoilt /\ Unserved
      BY <2>1, <2>5 DEF Stage, Spoilt, Unanswered, Done, Waits, Disturbed
    <3>4. Unserved'
      BY <2>1, <2>4, <3>1, <3>2, <3>3 DEF Unserved, InBuffer
    <3> QED BY <1>3, <2>3, <2>4, <3>2, <3>3, <3>4 DEF Stage
  <2>6. CASE ~(ucRTUBuf.kind = "good" /\ Addressed(ucRTUBuf.addr))
    <3>1. xSlaveOsEvent' = {}
      BY <1>8, <2>1, <2>6 DEF PollFrameReceived, OneEvent, If
    <3>2. OneEvent' /\ Enabled' /\ Pending' = {}
      BY <2>1, <3>1 DEF OneEvent, Enabled, Pending
    <3>3. spoilt \/ Settled
      BY <2>1, <2>6 DEF Unserved, Unanswered, InBuffer, TypeOK, Addressed,
         Stage, Done
    <3>4. Stage'
      BY <1>1, <1>3, <2>1, <2>4, <3>2, <3>3 DEF Stage, Spoilt, Done, Waits
    <3> QED BY <1>3, <2>3, <2>4, <3>2, <3>4
  <2> QED BY <2>5, <2>6
<1>9. CASE PollExecute
  <2>1. /\ UNCHANGED <<eMBState, xSlaveOsEvent, eRcvState, pdu, ring, sndVars,
                       transVars, wire, heard, spoilt, halted>>
        /\ pollEv' = {} /\ poll = "handle" /\ Pending = {"EXECUTE"}
        /\ poll' = IF Answers THEN "send" ELSE "get"
    BY <1>9 DEF PollExecute, Handles, Pending
  <2>2. xSlaveOsEvent' = {} /\ Pending' = {}
    BY <2>1 DEF OneEvent, Pending, Answers
  <2>3. OneEvent' /\ Enabled'
    BY <2>1, <2>2 DEF OneEvent, Enabled, Answers
  <2>4. served' = <<Server!Did("execute", pdu)>> /\ pdu \in {0, heard.id}
    <3>1. served = <<>> /\ pdu \in {0, heard.id}
      BY <2>1 DEF Stage, Spoilt, Waits, Disturbed, Unserved, Unanswered, Done,
         InBuffer
    <3> QED BY <1>9, <3>1 DEF PollExecute, Log, Server!Did
  <2>5. CASE spoilt
    <3>1. Disturbed
      BY <2>1, <2>5 DEF Stage, Spoilt, Waits
    <3>2. /\ ucRTUBuf'.kind = ucRTUBuf.kind /\ ucRTUBuf'.id = ucRTUBuf.id
          /\ ucRTUBuf'.addr = ucRTUBuf.addr
      BY <1>9, <3>1 DEF PollExecute, TypeOK, Disturbed
    <3>3. Hearing'
      BY <1>1, <2>1, <3>2 DEF Hearing, NextId, transVars
    <3>4. Stage'
      BY <1>1, <2>1, <2>2, <2>5, <3>1 DEF Stage, Spoilt, Disturbed, Waits,
         Answers, transVars
    <3>5. Server!Grope
      <4>1. served = <<>>
        BY <2>1, <3>1 DEF Disturbed
      <4>2. UNCHANGED <<heard.id, Cast, spoilt>>
        BY <2>1 DEF Cast
      <4> QED BY <2>4, <2>5, <4>1, <4>2 DEF Server!Grope
    <3> QED BY <2>3, <3>3, <3>4, <3>5 DEF Simulates, Server!Next
  <2>6. CASE ~spoilt
    <3>1. Unserved
      BY <2>1, <2>6 DEF Stage, Unanswered, Done, Waits
    <3>2. /\ ucRTUBuf.kind = "good" /\ ucRTUBuf.id = heard.id
          /\ eRcvState = "IDLE" /\ ucRcvAddress = heard.addr
          /\ served = <<>> /\ heard.id # 0 /\ pdu = heard.id
      BY <2>1, <3>1 DEF Unserved, InBuffer
    <3>3. InBuffer("answer")'
      BY <1>9, <2>1, <3>1, <3>2 DEF PollExecute, Unserved, InBuffer
    <3>4. Hearing'
      <4>1. ucRTUBuf'.kind = "answer"
        BY <3>3 DEF InBuffer
      <4>2. wire.kind = None
        BY <3>2 DEF Hearing
      <4> QED BY <1>1, <2>1, <3>2, <4>1, <4>2
              DEF Hearing, NextId, transVars, None
    <3>5. Server!Serve
      <4> DEFINE due == Server!Due(heard.id, Cast)
      <4>1. Cast \in BOOLEAN
        BY DEF Cast
      <4>2. Len(due) > 0 /\ due[1] = Server!Did("execute", heard.id)
        BY <3>2, <4>1, DueFacts
      <4> HIDE DEF due
      <4>3. Len(served) = 0 /\ served' = Append(served, due[Len(served) + 1])
        BY <2>4, <3>2, <4>2
      <4>4. UNCHANGED <<heard.id, Cast, spoilt>>
        BY <2>1 DEF Cast
      <4> QED BY <2>6, <4>2, <4>3, <4>4 DEF Server!Serve, due
    <3>6. CASE Answers
      <4>1. heard.addr = Own /\ poll' = "send"
        BY <2>1, <3>2, <3>6 DEF Answers, TypeOK
      <4>2. Unanswered'
        BY <1>1, <2>1, <2>2, <2>4, <3>2, <3>3, <4>1 DEF Unanswered, transVars
      <4> QED BY <2>1, <2>3, <2>6, <3>4, <3>5, <4>2
              DEF Simulates, Server!Next, Stage
    <3>7. CASE ~Answers
      <4>1. heard.addr = 0 /\ poll' = "get"
        BY <2>1, <3>2, <3>7 DEF Answers
      <4>2. Cast' = TRUE
        BY <2>1, <3>2, <4>1 DEF Cast
      <4>3. /\ heard'.id = heard.id
            /\ Server!Due(heard.id, TRUE) = <<Server!Did("execute", heard.id)>>
        BY <2>1, <3>2, DueFacts
      <4>4. Settled'
        BY <2>4, <3>2, <4>2, <4>3 DEF Settled
      <4>5. Done'
        BY <1>1, <2>1, <2>2, <4>1, <4>4 DEF Done, Waits, transVars
      <4> QED BY <2>1, <2>3, <2>6, <3>4, <3>5, <4>5
              DEF Simulates, Server!Next, Stage
    <3> QED BY <3>6, <3>7
  <2> QED BY <2>5, <2>6
<1>10. CASE PollSend
  <2>1. /\ poll = "send" /\ poll' = "get"
        /\ UNCHANGED <<eMBState, pollEv, xSlaveOsEvent, eRcvState, ucRTUBuf,
                       pdu, ring, wire, heard, served, spoilt, halted>>
    BY <1>10 DEF PollSend, rcvVars, history
  <2>2. OneEvent' /\ Enabled' /\ Pending' = {}
    BY <2>1 DEF OneEvent, Enabled, Pending
  <2>3. CASE spoilt
    <3>1. eRcvState # "IDLE"
      BY <2>1, <2>3 DEF Stage, Spoilt, Waits, Disturbed
    <3>2. UNCHANGED <<rx, transStart>>
      BY <1>10, <3>1 DEF PollSend, RcvRests
    <3>3. Hearing'
      BY <2>1, <3>2 DEF Hearing, NextId
    <3>4. Stage'
      BY <1>1, <2>1, <2>2, <2>3, <3>2 DEF Stage, Spoilt, Waits
    <3> QED BY <1>3, <2>1, <2>2, <3>3, <3>4
  <2>4. CASE ~spoilt
    <3>1. Unanswered
      BY <2>1, <2>4 DEF Stage, Unserved, Done, Waits
    <3>2. usSndBufferCount' = FrameLen /\ rx' = "off" /\ transStart' = TRUE
      BY <1>10, <3>1 DEF PollSend, RcvRests, Unanswered
    <3>3. Hearing'
      BY <2>1, <3>2 DEF Hearing, NextId
    <3>4. FrameLen > 0
      BY SlaveAssumption
    <3>5. Unanswered'
      BY <2>1, <2>2, <3>1, <3>2, <3>4 DEF Unanswered, InBuffer
    <3> QED BY <1>3, <2>1, <2>2, <2>4, <3>3, <3>5 DEF Stage
  <2> QED BY <2>3, <2>4
<1> QED BY <1>4, <1>5, <1>6, <1>7, <1>8, <1>9, <1>10 DEF PollStep

LEMMA PromiseTrans ==
  ASSUME IInv, Promise, ~strained', TransStep
  PROVE  Promise' /\ Simulates
<1> USE DEF IInv, Promise
<1>1. ASSUME UNCHANGED <<heard, served, spoilt>>
      PROVE  Simulates /\ Settled' = Settled
  BY <1>1 DEF Simulates, Server!vars, Settled, Cast
<1>2. ~halted /\ poll # "start"
  BY DEF TransStep, TransByte, TransTurn, TransDone, TransCanRun, Enabled
<1>3. CASE TransByte
  <2>1. /\ UNCHANGED <<eMBState, poll, pollEv, ucRcvAddress, xSlaveOsEvent,
                       eRcvState, ucRTUBuf, pdu, ring, trans, transStart, rx,
                       timerOn, wire, heard, spoilt, halted>>
        /\ transStart /\ usSndBufferCount > 0
        /\ usSndBufferCount' = usSndBufferCount - 1
    BY <1>3 DEF TransByte, pollVars, rcvVars, transVars
  <2>2. ~spoilt /\ Unanswered
    BY <2>1 DEF Stage, Spoilt, Unserved, Done, TypeOK
  <2>3. OneEvent' /\ Enabled' /\ Pending' = {}
    BY <1>2, <2>1, <2>2 DEF OneEvent, Enabled, Pending, Unanswered
  <2>4. Hearing'
    BY <2>1 DEF Hearing, NextId
  <2>5. CASE usSndBufferCount = 1
    <3>1. pdu = heard.id
      BY <2>2 DEF Unanswered, InBuffer
    <3>2. /\ served = <<Server!Did("execute", heard.id)>>
          /\ served' = Append(served, Server!Did("answer", heard.id))
      BY <1>3, <2>2, <2>5, <3>1 DEF TransByte, Unanswered, Log, Server!Did
    <3>3. Cast = FALSE /\ heard.id # 0
      BY <2>2, SlaveAssumption DEF Unanswered, Cast
    <3>4. Server!Due(heard.id, Cast) = <<Server!Did("execute", heard.id),
                                         Server!Did("answer", heard.id)>>
      <4>1. Server!Due(heard.id, FALSE)
              = <<Server!Did("execute", heard.id), Server!Did("answer", heard.id)>>
        BY <3>3, DueFacts
      <4> QED BY <3>3, <4>1
    <3>5. Settled'
      BY <2>1, <3>2, <3>4 DEF Settled, Cast
    <3>6. Done'
      BY <2>1, <2>2, <2>3, <2>5, <3>5 DEF Done, Waits, Unanswered
    <3>7. Server!Serve
      <4> DEFINE due == Server!Due(heard.id, Cast)
      <4>1. /\ Len(served) = 1 /\ Len(due) = 2
            /\ due[2] = Server!Did("answer", heard.id)
        BY <3>2, <3>4
      <4>2. heard'.id = heard.id /\ Cast' = Cast /\ ~spoilt /\ spoilt' = spoilt
        BY <2>1, <2>2 DEF Cast
      <4> HIDE DEF due
      <4>3. served' = Append(served, due[Len(served) + 1])
        BY <3>2, <4>1
      <4> QED BY <4>1, <4>2, <4>3 DEF Server!Serve, due
    <3> QED BY <2>1, <2>2, <2>3, <2>4, <3>6, <3>7
            DEF Simulates, Server!Next, Stage
  <2>6. CASE usSndBufferCount # 1
    <3>1. served' = served
      BY <1>3, <2>6 DEF TransByte
    <3>2. usSndBufferCount' > 0
      BY <2>1, <2>6 DEF TypeOK
    <3>3. Unanswered'
      BY <2>1, <2>2, <2>3, <3>1, <3>2 DEF Unanswered, InBuffer
    <3> QED BY <1>1, <2>1, <2>2, <2>3, <2>4, <3>1, <3>3 DEF Stage
  <2> QED BY <2>5, <2>6
<1>4. CASE TransTurn
  <2>1. /\ UNCHANGED <<eMBState, ucRcvAddress, eRcvState, ucRTUBuf, pdu, ring,
                       timerOn, wire, heard, served, spoilt>>
        /\ transStart /\ usSndBufferCount = 0 /\ ~transStart'
        /\ rx' = "on" /\ halted' = (rx = "held") /\ Post("FRAME_SENT")
    BY <1>4 DEF TransTurn, rcvVars, history
  <2>2. ~spoilt /\ Done
    BY <2>1 DEF Stage, Spoilt, Unserved, Unanswered
  <2>3. poll = "get" /\ xSlaveOsEvent = {}
    BY <2>1, <2>2 DEF Done, Pending
  <2>4. xSlaveOsEvent' = {"FRAME_SENT"} /\ UNCHANGED <<poll, pollEv>>
    BY <2>1, <2>3 DEF Post
  <2>5. OneEvent' /\ Enabled' /\ Pending' = {"FRAME_SENT"}
    BY <2>1, <2>3, <2>4 DEF OneEvent, Enabled, Pending, Events
  <2>6. Hearing'
    <3>1. ~halted'
      BY <2>1 DEF Hearing
    <3> QED BY <2>1, <2>3, <3>1 DEF Hearing, NextId
  <2>7. Stage'
    BY <1>1, <2>1, <2>2, <2>4, <2>5 DEF Stage, Done, Waits
  <2> QED BY <1>1, <2>1, <2>5, <2>6, <2>7
<1>5. CASE TransDone
  <2>1. UNCHANGED <<eMBState, poll, pollEv, ucRcvAddress, xSlaveOsEvent,
                    eRcvState, ucRTUBuf, pdu, ring, transStart, rx, timerOn,
                    usSndBufferCount, wire, heard, served, spoilt, halted>>
    BY <1>5 DEF TransDone, pollVars, rcvVars, history
  <2>2. OneEvent' /\ Enabled' /\ Pending' = Pending
    BY <1>2, <2>1 DEF OneEvent, Enabled, Pending
  <2>3. Hearing'
    BY <2>1 DEF Hearing, NextId
  <2>4. Stage'
    <3>1. UNCHANGED <<Unserved, Unanswered, Waits, Disturbed>>
      BY <2>1, <2>2 DEF Unserved, Unanswered, InBuffer, Waits, Disturbed
    <3> QED BY <1>1, <2>1, <2>2, <3>1 DEF Stage, Spoilt, Done
  <2> QED BY <1>1, <2>1, <2>2, <2>3, <2>4
<1> QED BY <1>3, <1>4, <1>5 DEF TransStep

(* One step, and the whole invariant.                                      *)
LEMMA PromiseStep ==
  ASSUME IInv, [Next]_vars, ~strained'
  PROVE  Promise' /\ Simulates
<1>1. ~strained
  BY DEF Next, PollStep, Start, EventGet, PollUndefined, PollNothing,
     PollFrameReceived, PollExecute, PollSend, TransStep, TransByte,
     TransTurn, TransDone, BusStep, FrameHead, NoiseHead, FrameTail,
     FrameAtOnce, TimerExpired, Reinit, Needs, vars, faultVars
<1>2. Promise
  BY <1>1 DEF IInv
<1>3. CASE UNCHANGED vars
  <2>1. UNCHANGED <<OneEvent, Hearing, Enabled>>
    BY <1>3 DEF vars, pollVars, rcvVars, sndVars, transVars, history,
       faultVars, OneEvent, Hearing, Enabled, NextId
  <2>2. UNCHANGED <<Unserved, Unanswered, Done>>
    BY <1>3 DEF vars, pollVars, rcvVars, sndVars, transVars, history,
       faultVars, Unserved, Unanswered, Done, Waits, InBuffer, Pending,
       Settled, Cast
  <2>3. UNCHANGED <<Spoilt, spoilt>>
    BY <1>3 DEF vars, pollVars, rcvVars, sndVars, transVars, history,
       faultVars, Spoilt, Waits, Disturbed, Pending
  <2>4. Simulates
    BY <1>3 DEF vars, pollVars, history, Cast, Simulates, Server!vars
  <2> QED BY <1>2, <2>1, <2>2, <2>3, <2>4 DEF Promise, Stage
<1>4. ~Reinit
  <2>1. ~Needs({"reinit"})
    BY NeedsClean DEF Line
  <2> QED BY <2>1 DEF Reinit
<1> QED BY <1>2, <1>3, <1>4, PromisePoll, PromiseTrans, PromiseBus,
        PromiseTimer DEF Next

LEMMA IInvInvariant == Spec => []IInv
<1>1. Init => strained \/ Promise
  <2> SUFFICES ASSUME Init PROVE Promise
    OBVIOUS
  <2>1. OneEvent /\ Enabled /\ Pending = {}
    BY DEF Init, OneEvent, Enabled, Pending, NoFrame
  <2>2. Hearing
    BY DEF Init, Hearing, NoFrame, None
  <2>3. ~spoilt /\ Done
    BY <2>1 DEF Init, Done, Waits, Settled, Cast, Server!Due
  <2> QED BY <2>1, <2>2, <2>3 DEF Promise, Stage
<1>2. TypeOK /\ Sender /\ Watched /\ (strained \/ Promise) /\ [Next]_vars
        => (strained \/ Promise)'
  BY PromiseStep DEF IInv
<1> QED BY <1>1, <1>2, TypeCorrect, SenderInvariant, ReceiverWatched, PTL
        DEF Spec, IInv

(* No assertion of the slave fails, as long as only the line is at fault   *)
(* and no byte falls into the window of "early": until then noise finds    *)
(* the transmitter idle, and an answer finds the receiver at rest.         *)
THEOREM SlaveAsserts == Spec => []AssertsHold
<1>1. IInv => AssertsHold
  BY DEF IInv, Promise, Hearing, AssertsHold
<1> QED BY <1>1, IInvInvariant, PTL

(* eMBPoll is never given two events at once, as long as only the line is  *)
(* at fault: each event is handled before the bus can cause the next.      *)
THEOREM SlaveSingleEvent == Spec => []SingleEvent
<1>1. IInv => SingleEvent
  <2> SUFFICES ASSUME IInv, ~strained PROVE Cardinality(pollEv) <= 1
    BY DEF SingleEvent
  <2>1. pollEv = {} \/ \E e : pollEv = {e}
    BY DEF IInv, Promise, OneEvent
  <2>2. Cardinality({}) = 0
    BY FS_EmptySet
  <2>3. ASSUME NEW e PROVE Cardinality({e}) = 1
    BY FS_Singleton
  <2> QED BY <2>1, <2>2, <2>3
<1> QED BY <1>1, IInvInvariant, PTL

(* The slave implements MbServer, as long as only the line is at fault:    *)
(* what it heard it carries out once and answers once, from the buffer     *)
(* that request and answer share, before it hears the next request.  Noise *)
(* while modbus-s checks, carries out or is about to answer the request is *)
(* included: eMBRTUSend then refuses, so that what has been carried out,   *)
(* once and perhaps from an overwritten PDU, is never answered.            *)
THEOREM SlaveImplementsServer == Spec => ImplementsServer
<1>1. Init => Server!Init
  BY DEF Init, Server!Init, Cast
<1>2. IInv /\ [Next]_vars => [Server!Next \/ strained']_(Server!vars)
  BY PromiseStep, Zenon DEF Simulates
<1> QED BY <1>1, <1>2, IInvInvariant, PTL DEF Spec, ImplementsServer
=============================================================================
