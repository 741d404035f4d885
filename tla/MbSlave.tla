------------------------------- MODULE MbSlave ------------------------------
(***************************************************************************)
(* The Modbus RTU slave of the controller: the polling thread "modbus-s",  *)
(* the thread "slave trans" that plays the transmit interrupt, the receive *)
(* interrupt with the ring of the serial driver, the t3.5 timer, the bus   *)
(* with its master, and the menu, which calls eMBInit while all of them    *)
(* run.                                                                    *)
(*                                                                         *)
(* Request and answer share the buffer ucRTUBuf, whose first byte is the   *)
(* address.  A PDU is the number of the request it belongs to, 0 when it   *)
(* is garbage; a frame is its head and its tail, one received character    *)
(* each, of which the head fills the address and the tail the rest.        *)
(***************************************************************************)
EXTENDS Integers, Sequences, FiniteSets

CONSTANTS
  Own,       \* ucMBAddress; 0 is the broadcast
  Others,    \* addresses of other slaves on the bus
  NumIds,    \* BOUND: requests are numbered 1..NumIds, cyclically
  FrameLen,  \* BOUND: number of bytes the transmitter sends for an answer
  RingSize,  \* BOUND: RT_SERIAL_RB_BUFSZ
  Faults,    \* what the bus, the scheduler and the user may do
  MaxFaults  \* BOUND: how often

(***************************************************************************)
(* "corrupt": a frame may fail the CRC or be too long                      *)
(* "stall":   a pause of t3.5 may occur inside a frame                     *)
(* "noise":   bytes may appear on an idle line, whatever the slave does    *)
(* "outrun":  modbus-s may be kept from the events it has for as long as a *)
(*            frame or t3.5 takes, by threads of higher priority           *)
(* "hurry":   the master may send again before it has the answer           *)
(* "early":   a byte, of noise too, may arrive while an answer is sent and *)
(*            until the transmitter is idle again                          *)
(* "max":     a frame may have MB_SER_PDU_SIZE_MAX bytes                   *)
(* "burst":   two characters may be received before the interrupt is served*)
(* "reinit":  the menu may change the settings of the port                 *)
(* "boot":    modbus-s may start before the settings are loaded, or with   *)
(*            the ASCII format                                             *)
(***************************************************************************)
Line      == {"corrupt", "stall", "noise"}
AllFaults == Line \cup {"outrun", "hurry", "early", "max", "burst", "reinit",
                        "boot"}

ASSUME SlaveAssumption ==
  /\ Own \in Nat \ {0}
  /\ Others \subseteq Nat \ {0, Own}
  /\ NumIds \in Nat \ {0, 1}
  /\ FrameLen \in Nat \ {0}
  /\ RingSize \in Nat \ {0, 1}
  /\ Faults \subseteq AllFaults
  /\ MaxFaults \in Nat

None  == "none"
Addrs == {0, Own} \cup Others

-----------------------------------------------------------------------------
VARIABLES
  eMBState,
  xSlaveOsEvent,
  poll,         \* where modbus-s is in its loop and in eMBPoll
  pollEv,       \* the events rt_event_recv gave it
  ucRcvAddress,
  eRcvState,
  ucRTUBuf,     \* the frame, or the answer, in the buffer
  pdu,          \* whose PDU follows the address byte of the buffer
  ring,         \* characters in the receive FIFO of serial3
  eSndState,
  usSndBufferCount,
  trans,        \* where "slave trans" is in xMBRTUTransmitFSM
  transStart,   \* EVENT_SERIAL_TRANS_START in event_serial
  rx,           \* the receive interrupt: on, off, or off with a byte in DR
  timerOn,
  wire,         \* the frame whose head, not its tail, has been on the line
  heard,        \* history: the last request received whole, and its address
  served,       \* history: what has been done since, in order
  spoilt,       \* history: noise has come before all of it was done
  halted,       \* assert_failed, or rt_timer_check, loops forever
  strained,     \* history: a fault that is not one of the line has occurred
  faultsLeft

pollVars  == <<eMBState, poll, pollEv, ucRcvAddress>>
rcvVars   == <<eRcvState, ucRTUBuf, pdu, ring>>
sndVars   == <<eSndState, usSndBufferCount>>
transVars == <<trans, transStart, rx>>
history   == <<heard, served, spoilt>>
faultVars == <<strained, faultsLeft>>

vars == <<pollVars, xSlaveOsEvent, rcvVars, sndVars, transVars, timerOn,
          wire, history, halted, faultVars>>

Events == {"READY", "FRAME_RECEIVED", "EXECUTE", "FRAME_SENT"}
FrameKinds == {"good", "bad", "long", "max"}
Frames     == [id : 0..NumIds, addr : Addrs, kind : FrameKinds \cup {None}]
NoFrame    == [id |-> 0, addr |-> 0, kind |-> None]
Characters == [frame : Frames, part : {"head", "tail"}]

If(cond, f) == IF cond THEN {f} ELSE {}

(* A step that needs the faults in fs: none is the ordinary case, any      *)
(* other is one of the MaxFaults.                                          *)
Needs(fs) ==
  /\ fs \subseteq Faults
  /\ fs # {} => faultsLeft > 0
  /\ faultsLeft' = faultsLeft - (IF fs = {} THEN 0 ELSE 1)
  /\ strained' = (strained \/ ~(fs \subseteq Line))

(* What is done about a request.                                           *)
Log(what, id) == served' = Append(served, [what |-> what, id |-> id])

(* Priorities: slave trans 10, modbus-s 12.                                *)
TransCanRun == ~halted
PollCanRun  == ~halted /\ ~transStart /\ trans = "loop"

PostUnnoticed(e) ==                  \* mutated: no thread is resumed
  /\ xSlaveOsEvent' = xSlaveOsEvent \cup {e}
  /\ UNCHANGED <<poll, pollEv>>

(* xMBPortEventPost: rt_event_send hands the bit to the suspended thread.  *)
Post(e) ==
  IF poll = "blocked"
    THEN poll' = "handle" /\ pollEv' = {e} /\ UNCHANGED xSlaveOsEvent
    ELSE /\ xSlaveOsEvent' = xSlaveOsEvent \cup {e}
         /\ UNCHANGED <<poll, pollEv>>

(* rt_event_recv with RT_EVENT_FLAG_OR | RT_EVENT_FLAG_CLEAR.              *)
TakeKeeps == pollEv' = xSlaveOsEvent /\ UNCHANGED xSlaveOsEvent \* mutated
Take      == pollEv' = xSlaveOsEvent /\ xSlaveOsEvent' = {}

(* vMBPortTimersEnable                                                     *)
TimersUnchanged == UNCHANGED timerOn                             \* mutated
TimersEnable    == timerOn' = TRUE

-----------------------------------------------------------------------------
(* The thread modbus-s.                                                    *)

(* modbus_s_thread_entry: eMBInit and eMBEnable, or, when eMBInit refuses  *)
(* the address 0 or the ASCII mode, a loop on an eMBPoll that only returns *)
(* MB_EILLSTATE.                                                           *)
Start ==
  /\ poll = "start"
  /\ PollCanRun
  /\ \/ /\ eMBState' = "ENABLED"
        /\ poll' = "get"
        /\ eRcvState' = "INIT"
        /\ rx' = "on"
        /\ TimersEnable
        /\ Needs({})
     \/ /\ Needs({"boot"})
        /\ poll' = "spin"
        /\ UNCHANGED <<eMBState, eRcvState, rx, timerOn>>
  /\ UNCHANGED <<pollEv, ucRcvAddress, xSlaveOsEvent, ucRTUBuf, pdu, ring,
                 sndVars, trans, transStart, wire, history, halted>>

(* The entry of eMBPoll, and xMBPortEventGet.                              *)
EventGet ==
  /\ poll = "get"
  /\ PollCanRun
  /\ \/ /\ eMBState # "ENABLED"
        /\ poll' = "spin"
        /\ UNCHANGED <<pollEv, xSlaveOsEvent>>
     \/ /\ eMBState = "ENABLED" /\ xSlaveOsEvent = {}
        /\ poll' = "blocked"
        /\ UNCHANGED <<pollEv, xSlaveOsEvent>>
     \/ /\ eMBState = "ENABLED" /\ xSlaveOsEvent # {}
        /\ poll' = "handle"
        /\ Take
  /\ UNCHANGED <<eMBState, ucRcvAddress, rcvVars, sndVars, transVars,
                 timerOn, wire, history, halted, faultVars>>

Handles(e) == poll = "handle" /\ pollEv = {e} /\ PollCanRun

(* Several bits at once have no case in the switch of xMBPortEventGet: the *)
(* local eEvent of eMBPoll keeps whatever its stack slot holds.            *)
PollUndefined ==
  /\ poll = "handle" /\ Cardinality(pollEv) > 1
  /\ PollCanRun
  /\ \/ \E e \in Events : pollEv' = {e} /\ UNCHANGED poll
     \/ pollEv' = {} /\ poll' = "get"
  /\ UNCHANGED <<eMBState, ucRcvAddress, xSlaveOsEvent, rcvVars, sndVars,
                 transVars, timerOn, wire, history, halted, faultVars>>

(* EV_READY and EV_FRAME_SENT: nothing to do.                              *)
PollNothing ==
  /\ Handles("READY") \/ Handles("FRAME_SENT")
  /\ poll' = "get" /\ pollEv' = {}
  /\ UNCHANGED <<eMBState, ucRcvAddress, xSlaveOsEvent, rcvVars, sndVars,
                 transVars, timerOn, wire, history, halted, faultVars>>

(* EV_FRAME_RECEIVED: eMBRTUReceive asserts a position below 256, checks   *)
(* length and CRC; then the address.                                       *)
Addressed(a) == a \in {Own, 0}

PollFrameReceived ==
  /\ Handles("FRAME_RECEIVED")
  /\ poll' = "get" /\ pollEv' = {}
  /\ halted' = (ucRTUBuf.kind = "max")
  /\ IF ucRTUBuf.kind = "good"
       THEN /\ ucRcvAddress' = ucRTUBuf.addr
            /\ xSlaveOsEvent' =
                 xSlaveOsEvent \cup If(Addressed(ucRTUBuf.addr), "EXECUTE")
       ELSE UNCHANGED <<ucRcvAddress, xSlaveOsEvent>>
  /\ UNCHANGED <<eMBState, rcvVars, sndVars, transVars, timerOn, wire,
                 history, faultVars>>

Answers    == ucRcvAddress # 0

(* EV_EXECUTE: the function handler reads the PDU where it was received    *)
(* and writes the answer, or the exception, over it.  No CRC is checked    *)
(* any more: what has come since is read too.                              *)
PollExecute ==
  /\ Handles("EXECUTE")
  /\ pollEv' = {}
  /\ poll' = IF Answers THEN "send" ELSE "get"
  /\ Log("execute", pdu)
  /\ ucRTUBuf' = [ucRTUBuf EXCEPT
                    !.kind = IF eRcvState = "IDLE" THEN "answer" ELSE @]
  /\ UNCHANGED <<eMBState, ucRcvAddress, xSlaveOsEvent, eRcvState, pdu, ring,
                 sndVars, transVars, timerOn, wire, heard, spoilt, halted,
                 faultVars>>

NotAsked == TRUE                     \* mutated: the receiver may be busy
RcvRests == eRcvState = "IDLE"

(* eMBRTUSend: refused, unnoticed by eMBPoll, when the receiver has begun  *)
(* on something new; otherwise address and CRC are put around the PDU.     *)
PollSend ==
  /\ poll = "send"
  /\ PollCanRun
  /\ poll' = "get"
  /\ IF RcvRests
       THEN /\ usSndBufferCount' = FrameLen
            /\ eSndState' = "XMIT"
            /\ rx' = "off"
            /\ transStart' = TRUE
       ELSE UNCHANGED <<sndVars, rx, transStart>>
  /\ UNCHANGED <<eMBState, pollEv, ucRcvAddress, xSlaveOsEvent, rcvVars,
                 trans, timerOn, wire, history, halted, faultVars>>

-----------------------------------------------------------------------------
(* The thread slave trans: xMBRTUTransmitFSM while the start event is set. *)
(* TransmitEntry below says that its assertion on eRcvState holds and that *)
(* STATE_TX_IDLE is never met, so neither is an action here.               *)

TransByteBelow ==                    \* mutated: a count of 0 is not seen
  /\ trans = "loop" /\ transStart
  /\ eSndState = "XMIT"
  /\ TransCanRun
  /\ usSndBufferCount' = usSndBufferCount - 1
  /\ UNCHANGED <<pollVars, xSlaveOsEvent, rcvVars, eSndState, transVars,
                 timerOn, wire, history, halted, faultVars>>

TransByte ==
  /\ trans = "loop" /\ transStart
  /\ eSndState = "XMIT" /\ usSndBufferCount > 0
  /\ TransCanRun
  /\ usSndBufferCount' = usSndBufferCount - 1
  /\ IF usSndBufferCount = 1
       THEN Log("answer", pdu)
       ELSE UNCHANGED served
  /\ UNCHANGED <<pollVars, xSlaveOsEvent, rcvVars, eSndState, transVars,
                 timerOn, wire, heard, spoilt, halted, faultVars>>

(* No byte left: EV_FRAME_SENT is posted and the line turned round; a byte *)
(* that the receiver has held meanwhile interrupts at once, and            *)
(* assert_param( eSndState == STATE_TX_IDLE ) fails.                       *)
TransTurn ==
  /\ trans = "loop" /\ transStart
  /\ eSndState = "XMIT" /\ usSndBufferCount = 0
  /\ TransCanRun
  /\ Post("FRAME_SENT")
  /\ rx' = "on"
  /\ transStart' = FALSE
  /\ trans' = "turned"
  /\ halted' = (rx = "held")
  /\ UNCHANGED <<eMBState, ucRcvAddress, rcvVars, sndVars, timerOn, wire,
                 history, faultVars>>

TransDoneXmit ==                     \* mutated: STATE_TX_XMIT is not left
  /\ trans = "turned"
  /\ TransCanRun
  /\ trans' = "loop"
  /\ UNCHANGED <<pollVars, xSlaveOsEvent, rcvVars, sndVars, transStart, rx,
                 timerOn, wire, history, halted, faultVars>>

(* ... and only then STATE_TX_IDLE is entered.                             *)
TransDone ==
  /\ trans = "turned"
  /\ TransCanRun
  /\ trans' = "loop"
  /\ eSndState' = "IDLE"
  /\ UNCHANGED <<pollVars, xSlaveOsEvent, rcvVars, usSndBufferCount,
                 transStart, rx, timerOn, wire, history, halted, faultVars>>

-----------------------------------------------------------------------------
(* The receive interrupt.                                                  *)

(* rt_hw_serial_isr: a character enters the FIFO; when the put index meets *)
(* the get index the oldest one is discarded.                              *)
Put(r, c) ==
  LET longer == Append(r, c) IN
  IF Len(longer) = RingSize THEN Tail(longer) ELSE longer

(* STATE_RX_IDLE: the first byte of a frame.                               *)
Begun(c) == [id   |-> c.frame.id,
             addr |-> c.frame.addr,
             kind |-> IF c.part = "head" THEN "part" ELSE "bad"]

(* STATE_RX_RCV: a byte is appended.                                       *)
Appended(c) ==
  [ucRTUBuf EXCEPT !.kind =
     IF c.part = "tail" /\ @ = "part" /\ ucRTUBuf.id = c.frame.id
                        /\ ucRTUBuf.addr = c.frame.addr
       THEN IF c.frame.kind = None THEN "bad" ELSE c.frame.kind
       ELSE "bad"]

(* xMBRTUReceiveFSM on the character it reads.                             *)
ReceiveFSM(c) ==
  IF eSndState # "IDLE"
    THEN halted' = TRUE /\ UNCHANGED <<eRcvState, ucRTUBuf, pdu, timerOn>>
    ELSE /\ TimersEnable
         /\ UNCHANGED halted
         /\ \/ /\ eRcvState \in {"INIT", "ERROR"}
               /\ UNCHANGED <<eRcvState, ucRTUBuf, pdu>>
            \/ /\ eRcvState = "IDLE"
               /\ ucRTUBuf' = Begun(c)
               /\ eRcvState' = "RCV"
               /\ UNCHANGED pdu
            \/ /\ eRcvState = "RCV"
               /\ ucRTUBuf' = Appended(c)
               /\ pdu' = IF Appended(c).kind = "good" THEN c.frame.id ELSE 0
               /\ eRcvState' = IF c.part = "tail" /\ c.frame.kind = "long"
                                 THEN "ERROR" ELSE "RCV"

(* One interrupt: the characters that have arrived enter the FIFO, then    *)
(* serial_rx_ind reads one.                                                *)
Receive(filled) ==
  IF rx = "on"
    THEN /\ ReceiveFSM(Head(filled))
         /\ ring' = Tail(filled)
         /\ UNCHANGED rx
    ELSE /\ rx' = "held"
         /\ UNCHANGED <<eRcvState, ucRTUBuf, pdu, timerOn, halted, ring>>

Char(f, p) == [frame |-> f, part |-> p]

RxUnchanged ==
  UNCHANGED <<pollVars, xSlaveOsEvent, sndVars, trans, transStart, heard,
              served>>

-----------------------------------------------------------------------------
(* The bus.  Timing assumptions are the guards that name a fault.          *)

Cast   == heard.id # 0 /\ heard.addr = 0
Server == INSTANCE MbServer WITH req <- heard.id, cast <- Cast

(* All that the last request asks for has been done.                       *)
Settled == served = Server!Due(heard.id, Cast)

(* modbus-s has handled every event it was given.                          *)
Abreast == poll \notin {"handle", "send"} /\ xSlaveOsEvent = {}

(* What it takes for t3.5, or a whole frame, to pass modbus-s; for a byte  *)
(* to be on the line; for a frame to begin: the master waits for an answer *)
(* as long as noise has not cost it the answer.                            *)
Ahead      == If(~Abreast, "outrun")
ByteFaults == If(transStart \/ trans = "turned", "early")
HeadFaults == ByteFaults \cup If(~Settled /\ ~spoilt, "hurry")

LineFree == ~halted /\ poll # "start" /\ wire.kind = None

(* The numbers of requests to the own address and to all.                  *)
NextId   == IF heard.id = NumIds THEN 1 ELSE heard.id + 1
IdFor(a) == IF Addressed(a) THEN NextId ELSE 0

Kinds == {"good"} \cup {k \in {"bad", "long"} : "corrupt" \in Faults}
                  \cup (Faults \cap {"max"})

(* A frame of the master, or the answer of another slave, begins.          *)
FrameHead ==
  /\ LineFree
  /\ \E a \in Addrs, k \in Kinds :
       LET f == [id |-> IdFor(a), addr |-> a, kind |-> k] IN
       /\ Needs(HeadFaults \cup If(k = "max", "max"))
       /\ wire' = f
       /\ Receive(Put(ring, Char(f, "head")))
  /\ UNCHANGED spoilt
  /\ RxUnchanged

(* Stray bytes.  They may come while modbus-s checks, carries out or is    *)
(* about to answer a request: that request is spoilt.                      *)
Noise == [id |-> 0, addr |-> 0, kind |-> "bad"]

NoiseHead ==
  /\ LineFree
  /\ Needs({"noise"} \cup ByteFaults)
  /\ wire' = Noise
  /\ Receive(Put(ring, Char(Noise, "head")))
  /\ spoilt' = (spoilt \/ ~Settled)
  /\ RxUnchanged

(* With this the whole frame has passed, unless t3.5 came in between.      *)
FrameTail ==
  /\ ~halted
  /\ wire.kind # None
  /\ Needs(ByteFaults \cup
            IF wire # Noise /\ eRcvState = "RCV" THEN Ahead ELSE {})
  /\ wire' = NoFrame
  /\ Receive(Put(ring, Char(wire, "tail")))
  /\ UNCHANGED spoilt
  /\ RxUnchanged

(* Two characters of a frame are there when the interrupt is served.       *)
FrameAtOnce ==
  /\ LineFree
  /\ \E a \in Addrs :
       LET f == [id |-> IdFor(a), addr |-> a, kind |-> "good"] IN
       /\ Needs(HeadFaults \cup {"burst"})
       /\ Receive(Put(Put(ring, Char(f, "head")), Char(f, "tail")))
  /\ UNCHANGED <<wire, spoilt>>
  /\ RxUnchanged

-----------------------------------------------------------------------------
(* The timer interrupt: xMBRTUTimerT35Expired.                             *)
TimerExpired ==
  /\ ~halted
  /\ timerOn
  /\ Needs(Ahead \cup If(wire.kind # None, "stall"))
  /\ \/ /\ eRcvState = "INIT"
        /\ Post("READY")
        /\ UNCHANGED history
     \/ /\ eRcvState = "RCV"
        /\ Post("FRAME_RECEIVED")
        /\ IF ucRTUBuf.kind = "good" /\ Addressed(ucRTUBuf.addr)
             THEN /\ heard' = [id |-> ucRTUBuf.id, addr |-> ucRTUBuf.addr]
                  /\ served' = <<>>
                  /\ spoilt' = FALSE
             ELSE UNCHANGED history
     \/ /\ eRcvState \in {"ERROR", "IDLE"}
        /\ UNCHANGED <<poll, pollEv, xSlaveOsEvent, history>>
  /\ halted' = (eRcvState = "IDLE")     \* assert_param of the default case
  /\ timerOn' = FALSE
  /\ eRcvState' = "IDLE"
  /\ UNCHANGED <<eMBState, ucRcvAddress, ucRTUBuf, pdu, ring, sndVars,
                 transVars, wire>>

-----------------------------------------------------------------------------
(* The menu stores a setting of the port and calls eMBInit, never          *)
(* eMBEnable, in the main thread.  xMBPortTimersInit initialises a timer   *)
(* that may be in the list, from which rt_timer_check then cannot remove   *)
(* it; xMBPortEventInit forgets the thread suspended on the event; and     *)
(* eMBState becomes STATE_DISABLED.  Restarting slave trans while it sends *)
(* is left out.                                                            *)
Reinit ==
  /\ ~halted
  /\ poll # "start"
  /\ ~transStart /\ trans = "loop"
  /\ Needs({"reinit"})
  /\ eMBState' = "DISABLED"
  /\ xSlaveOsEvent' = {}
  /\ poll' = IF poll = "blocked" THEN "orphan" ELSE poll
  /\ halted' = timerOn
  /\ timerOn' = FALSE
  /\ UNCHANGED <<pollEv, ucRcvAddress, rcvVars, sndVars, transVars, wire,
                 history>>

-----------------------------------------------------------------------------
Init ==
  /\ eMBState = "NOT_INITIALIZED"
  /\ xSlaveOsEvent = {}
  /\ poll = "start" /\ pollEv = {}
  /\ ucRcvAddress = 0
  /\ eRcvState = "INIT"
  /\ ucRTUBuf = [id |-> 0, addr |-> 0, kind |-> "bad"] /\ pdu = 0
  /\ ring = <<>>
  /\ eSndState = "IDLE" /\ usSndBufferCount = 0
  /\ trans = "loop" /\ transStart = FALSE
  /\ rx = "off"
  /\ timerOn = FALSE
  /\ wire = NoFrame
  /\ heard = [id |-> 0, addr |-> 0] /\ served = <<>> /\ spoilt = FALSE
  /\ halted = FALSE /\ strained = FALSE
  /\ faultsLeft = MaxFaults

PollStep == \/ Start
            \/ EventGet
            \/ PollUndefined
            \/ PollNothing
            \/ PollFrameReceived
            \/ PollExecute
            \/ PollSend

TransStep == TransByte \/ TransTurn \/ TransDone

BusStep == FrameHead \/ NoiseHead \/ FrameTail \/ FrameAtOnce

Next == PollStep \/ TransStep \/ BusStep \/ TimerExpired \/ Reinit

Spec == Init /\ [][Next]_vars

(* The scheduler runs a thread that stays the highest ready one, a frame   *)
(* that began ends, and the timer interrupt comes.                         *)
Fairness == /\ WF_vars(PollStep)
            /\ WF_vars(TransStep)
            /\ WF_vars(FrameTail)
            /\ WF_vars(TimerExpired)

-----------------------------------------------------------------------------
FairSpec == Spec /\ Fairness

(* Types, and what a buffer may hold.                                      *)
TypeOK ==
  /\ eMBState \in {"NOT_INITIALIZED", "ENABLED", "DISABLED"}
  /\ xSlaveOsEvent \subseteq Events /\ pollEv \subseteq Events
  /\ poll \in {"start", "get", "blocked", "handle", "send", "orphan", "spin"}
  /\ ucRcvAddress \in Addrs
  /\ eRcvState \in {"INIT", "IDLE", "RCV", "ERROR"}
  /\ ucRTUBuf \in [id : 0..NumIds, addr : Addrs,
                  kind : FrameKinds \cup {"part", "answer"}]
  /\ pdu \in 0..NumIds
  /\ ring \in Seq(Characters)
  /\ eSndState \in {"IDLE", "XMIT"}
  /\ usSndBufferCount \in 0..FrameLen
  /\ trans \in {"loop", "turned"} /\ transStart \in BOOLEAN
  /\ rx \in {"on", "off", "held"}
  /\ timerOn \in BOOLEAN
  /\ wire \in Frames
  /\ heard \in [id : 0..NumIds, addr : {0, Own}]
  /\ served \in Seq([what : {"execute", "answer"}, id : 0..NumIds])
  /\ spoilt \in BOOLEAN
  /\ halted \in BOOLEAN /\ strained \in BOOLEAN
  /\ faultsLeft \in 0..MaxFaults

(* No assertion fails, and rt_timer_check ends, as long as only the line   *)
(* is at fault: the receiver rests when an answer starts and the timer     *)
(* expires only for a receiver that waits for it, in every order of the    *)
(* two threads and the two interrupts.  Not included is a byte, be it only *)
(* noise, in the window of "early", for which xMBRTUReceiveFSM does fail.  *)
AssertsHold == halted => strained

(* Once enabled, the timer runs exactly while the receiver is not idle,    *)
(* whatever the faults: otherwise a frame would never be handed over, or   *)
(* xMBRTUTimerT35Expired would meet a state it asserts never to meet.      *)
Watched ==
  ~halted /\ eMBState = "ENABLED" => (timerOn <=> eRcvState # "IDLE")

(* Whenever slave trans may run xMBRTUTransmitFSM it has an answer to send *)
(* and its assertion on the receiver holds, whatever faults occur: only    *)
(* the test of eMBRTUSend keeps a frame that has begun meanwhile out.      *)
TransmitEntry ==
  transStart => /\ trans = "loop" /\ eSndState = "XMIT"
                /\ eRcvState = "IDLE" /\ rx # "on"

(* eMBPoll never gets two events at once, which it would both lose, as     *)
(* long as only the line is at fault.                                      *)
SingleEvent == Cardinality(pollEv) <= 1 \/ strained

(* The slave implements MbServer as long as only the line is at fault: it  *)
(* carries out what it heard at most once, though request and answer share *)
(* one buffer, answers it once and in time, and never answers a broadcast. *)
(* Only noise that comes before the answer may cost the answer, or have    *)
(* garbage carried out; and then nothing is sent.                          *)
ImplementsServer ==
  Server!Init /\ [][Server!Next \/ strained']_(Server!vars)

(* Under fairness every request is carried out and answered, as long as    *)
(* only the line is at fault and no noise comes before the answer.         *)
RequestServed == ~Settled ~> Settled \/ spoilt \/ strained
=============================================================================
