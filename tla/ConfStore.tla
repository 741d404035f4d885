----------------------------- MODULE ConfStore ------------------------------
(***************************************************************************)
(* The settings in the FRAM: a two-byte marker, a block that a factory     *)
(* restore leaves alone and a block that it overwrites ("unprotected").    *)
(* The chip takes one byte after the other, and the power may fail between *)
(* any two.  global_init reads the marker and redoes what was interrupted. *)
(*                                                                         *)
(* Only the main thread touches the chip: global_init when it starts, the  *)
(* menu afterwards.                                                        *)
(***************************************************************************)
EXTENDS Integers

CONSTANTS
  Last,      \* last address of the settings, sizeof(c_FactorySetting) - 1
  Unprot,    \* EE_UNPROTECTED(), the first address a restore overwrites
  Settings,  \* what the menu edits, as [from, to] ranges of addresses
  Password,  \* the one setting longer than a byte that has a range check
  Loaded,    \* the settings global_init reads back
  Values,    \* what the user may enter
  MaxLosses  \* BOUND: number of power failures

Marker    == 0..1
Protected == 2..(Unprot - 1)
Unprotected == Unprot..Last
Cells     == Protected \cup Unprotected

Of(s) == s.from..s.to

ASSUME StoreAssumption ==
  /\ Last \in Nat /\ Unprot \in Nat
  /\ 2 < Unprot /\ Unprot <= Last
  /\ Settings \subseteq [from : Cells, to : Cells]
  /\ \A s \in Settings : /\ s.from <= s.to
                         /\ \/ Of(s) \subseteq Protected
                            \/ Of(s) \subseteq Unprotected
  /\ Password \in Settings /\ Of(Password) \subseteq Protected
  /\ Loaded \subseteq Settings
  /\ {"factory", "junk", "unset"} \cap Values = {}
  /\ MaxLosses \in Nat

(* conf_store.h, low byte first: the values differ in so few bytes that    *)
(* most changes of the marker are one byte long.                           *)
FullIng   == <<102,  96>>   \* EE_FULL_RECOVERY_ING   0x6066
FullOver  == <<182,  96>>   \* EE_FULL_RECOVERY_OVER  0x60B6
ResetIng  == << 22, 101>>   \* EE_RESET_FACTORY_ING   0x6516
ResetOver == << 22, 106>>   \* EE_RESET_FACTORY_OVER  0x6A16
Markers   == {FullIng, FullOver, ResetIng, ResetOver}
Blank     == {<<0, 0>>, <<255, 255>>}   \* a chip that was never written
Bytes     == {0, 22, 96, 101, 102, 106, 182, 255}

Data == Values \cup {"factory", "junk"}

VARIABLES
  magic,   \* the marker
  data,    \* the settings in the chip
  pc,      \* "off", "boot", the three writes of a reset, "load", "run"
  job,     \* what is being written: a full reset, a restore, one setting
  at, to,  \* the next address and the last one
  value,   \* the bytes written
  ret,     \* where the program goes on afterwards
  ram,     \* the copies in struct global
  was,     \* history: the settings when the user last had them
  losses

vars == <<magic, data, pc, job, at, to, value, ret, ram, was, losses>>

chip   == <<magic, data>>
writer == <<job, at, to, value, ret>>

-----------------------------------------------------------------------------
(* full_reset_eeprom and restore_factory_settings begin with the marker of *)
(* a reset in progress.                                                    *)
StartReset(j, next) ==
  /\ pc'  = "ing"
  /\ job' = j
  /\ at'  = 0 /\ to' = 1
  /\ value' = "factory"
  /\ ret' = next

StartWrite(s, v, next) ==
  /\ pc'  = "data"
  /\ job' = "set"
  /\ at'  = s.from /\ to' = s.to
  /\ value' = v
  /\ ret' = next

FirstOfUnprot(j) == Unprot          \* mutated: a full reset is a restore

FirstOf(j) == IF j = "full" THEN 2 ELSE Unprot

PowerUp ==
  /\ pc = "off"
  /\ pc' = "boot"
  /\ ram' = [c \in Cells |-> "unset"]
  /\ UNCHANGED <<chip, writer, was, losses>>

(* global_init: default_init, then the switch over the marker.             *)
ReadMarkerTrusting ==               \* mutated: no default case
  /\ pc = "boot"
  /\ \/ /\ magic \notin {FullIng, ResetIng}
        /\ pc' = "load"
        /\ UNCHANGED writer
     \/ magic = ResetIng /\ StartReset("restore", "load")
     \/ magic = FullIng  /\ StartReset("full", "load")
  /\ UNCHANGED <<chip, ram, was, losses>>

ReadMarker ==
  /\ pc = "boot"
  /\ \/ /\ magic \in {FullOver, ResetOver}
        /\ pc' = "load"
        /\ UNCHANGED writer
     \/ magic = ResetIng /\ StartReset("restore", "load")
     \/ /\ magic \notin {FullOver, ResetOver, ResetIng}
        /\ StartReset("full", "load")
  /\ UNCHANGED <<chip, ram, was, losses>>

MarkerOf(j, stage) ==
  CASE j = "full" /\ stage = "ing"  -> FullIng
    [] j = "full" /\ stage = "over" -> FullOver
    [] j # "full" /\ stage = "ing"  -> ResetIng
    [] OTHER                        -> ResetOver

WriteMarker ==
  /\ pc \in {"ing", "over"}
  /\ magic' = IF at = 0 THEN <<MarkerOf(job, pc)[1], magic[2]>>
                        ELSE <<magic[1], MarkerOf(job, pc)[2]>>
  /\ \/ /\ at < to
        /\ at' = at + 1
        /\ UNCHANGED <<pc, to>>
     \/ /\ at = to /\ pc = "ing"
        /\ pc' = "data"
        /\ at' = FirstOf(job) /\ to' = Last
     \/ /\ at = to /\ pc = "over"
        /\ pc' = ret
        /\ UNCHANGED <<at, to>>
  /\ UNCHANGED <<data, job, value, ret, ram, was, losses>>

WriteDataPast ==                    \* mutated: at <= to
  /\ pc = "data"
  /\ data' = [data EXCEPT ![at] = value]
  /\ was' = IF job = "set" THEN data' ELSE was
  /\ \/ /\ at <= to
        /\ at' = at + 1
        /\ UNCHANGED <<pc, to>>
     \/ /\ at = to /\ job = "set"
        /\ pc' = ret
        /\ UNCHANGED <<at, to>>
     \/ /\ at = to /\ job # "set"
        /\ pc' = "over"
        /\ at' = 0 /\ to' = 1
  /\ UNCHANGED <<magic, job, value, ret, ram, losses>>

WriteData ==
  /\ pc = "data"
  /\ data' = [data EXCEPT ![at] = value]
  /\ was' = IF job = "set" THEN data' ELSE was
  /\ \/ /\ at < to
        /\ at' = at + 1
        /\ UNCHANGED <<pc, to>>
     \/ /\ at = to /\ job = "set"
        /\ pc' = ret
        /\ UNCHANGED <<at, to>>
     \/ /\ at = to /\ job # "set"
        /\ pc' = "over"
        /\ at' = 0 /\ to' = 1
  /\ UNCHANGED <<magic, job, value, ret, ram, losses>>

LoadedCells == UNION {Of(s) : s \in Loaded}

Torn(s) == \E c, d \in Of(s) : data[c] # data[d]

(* A whole password is in range, one that was torn may be, junk may be.    *)
InRange(s) == \A c \in Of(s) : data[c] # "junk"

(* global_init: range checks and copies.                                   *)
LoadIntoRam ==
  /\ pc = "load"
  /\ pc' = "run"
  /\ ram' = [c \in Cells |-> IF c \in LoadedCells THEN data[c] ELSE ram[c]]
  /\ was' = data
  /\ UNCHANGED <<chip, writer, losses>>

(* The password is above 999999: it becomes 10000, the factory setting.    *)
RepairFirstByte ==                  \* mutated: one byte is written back
  /\ pc = "load"
  /\ Torn(Password) \/ ~InRange(Password)
  /\ StartWrite([Password EXCEPT !.to = Password.from], "factory", "load")
  /\ UNCHANGED <<chip, ram, was, losses>>

Repair ==
  /\ pc = "load"
  /\ Torn(Password) \/ ~InRange(Password)
  /\ StartWrite(Password, "factory", "load")
  /\ UNCHANGED <<chip, ram, was, losses>>

-----------------------------------------------------------------------------
(* The menu: a setting is edited, or the factory settings are restored.    *)
EditRamUnchanged(s, v) ==           \* mutated: the copy is not updated
  /\ pc = "run"
  /\ StartWrite(s, v, "run")
  /\ UNCHANGED <<chip, ram, was, losses>>

Edit(s, v) ==
  /\ pc = "run"
  /\ ram' = [c \in Cells |-> IF c \in Of(s) THEN v ELSE ram[c]]
  /\ StartWrite(s, v, "run")
  /\ UNCHANGED <<chip, was, losses>>

(* menu_reset_factory: the restore, then NVIC_SystemReset.                 *)
MenuRestoreUnmarked ==              \* mutated: the marker is not set first
  /\ pc = "run"
  /\ pc'  = "data"
  /\ job' = "restore"
  /\ at'  = Unprot /\ to' = Last
  /\ value' = "factory"
  /\ ret' = "off"
  /\ UNCHANGED <<chip, ram, was, losses>>

MenuRestore ==
  /\ pc = "run"
  /\ StartReset("restore", "off")
  /\ UNCHANGED <<chip, ram, was, losses>>

PowerLoss ==
  /\ pc # "off"
  /\ losses < MaxLosses
  /\ losses' = losses + 1
  /\ pc' = "off"
  /\ UNCHANGED <<chip, writer, ram, was>>

-----------------------------------------------------------------------------
Init ==
  /\ magic \in Blank
  /\ data = [c \in Cells |-> "junk"]
  /\ pc = "off"
  /\ job = "full" /\ at = 0 /\ to = 1 /\ value = "factory" /\ ret = "load"
  /\ ram = [c \in Cells |-> "unset"]
  /\ was = data
  /\ losses = 0

Firmware == ReadMarker \/ WriteMarker \/ WriteData \/ LoadIntoRam \/ Repair

User == MenuRestore \/ \E s \in Settings, v \in Values : Edit(s, v)

Next == PowerUp \/ Firmware \/ User \/ PowerLoss

Spec == Init /\ [][Next]_vars

(* The power returns, and the program goes on while it has power.  Nothing *)
(* obliges the user to do anything.                                        *)
FairSpec == Spec /\ WF_vars(PowerUp) /\ WF_vars(Firmware)

-----------------------------------------------------------------------------
TypeOK ==
  /\ magic \in Bytes \X Bytes
  /\ data \in [Cells -> Data]
  /\ pc \in {"off", "boot", "ing", "data", "over", "load", "run"}
  /\ job \in {"full", "restore", "set"}
  /\ at \in 0..Last /\ to \in 0..Last
  /\ value \in Values \cup {"factory"}
  /\ ret \in {"load", "run", "off"}
  /\ ram \in [Cells -> Data \cup {"unset"}]
  /\ was \in [Cells -> Data]
  /\ losses \in 0..MaxLosses

Is(S, d) == \A c \in S : data[c] = d

(* The program never runs on a chip that was not initialised: "if all data *)
(* in the eeprom is 0xff or 0x00 then it will be initialized with          *)
(* factory-setting" (conf_store.h), however often the power failed during  *)
(* the initialisation.                                                     *)
Initialised == pc = "run" => \A c \in Cells : data[c] # "junk"

(* A reset is all or nothing: when the program runs again after any        *)
(* number of failures, the settings are those the user had, or these with  *)
(* the whole unprotected block restored, or the factory settings.          *)
ResetIsAtomic ==
  pc = "load" =>
    \/ data = was
    \/ /\ \A c \in Protected : data[c] = was[c]
       /\ Is(Unprotected, "factory")
    \/ Is(Cells, "factory")

(* The settings the program uses are those it will find after a restart.   *)
CopiesMatch ==
  pc = "run" => \A c \in LoadedCells : ram[c] = data[c]

(* "//unprotected" in conf_store.h: what stands before that line survives  *)
(* a factory restore, whether it is interrupted or not.                    *)
ProtectedSurvive ==
  pc = "load" => \A c \in Protected : was[c] # "junk" => data[c] = was[c]

(* However often the power fails, a controller that keeps its power runs   *)
(* in the end: no marker makes it reset itself for ever.                   *)
StartsUp == (pc # "run") ~> (pc = "run")

-----------------------------------------------------------------------------
(* ConfStore implements SettingsStore.  What the chip holds is read as     *)
(* global_init will read it: a reset that has its marker is as good as     *)
(* done.                                                                   *)
Asking  == pc = "ing" /\ job = "restore" /\ magic # ResetIng
Editing == pc = "data" /\ ret = "run"

StateOf == IF pc = "run" THEN "up"
           ELSE IF Editing THEN "editing"
           ELSE IF Asking THEN "restoring"
           ELSE "down"

ContentsOf ==
  [c \in Cells |->
     IF magic \in {FullOver, ResetOver} \/ Asking THEN data[c]
     ELSE IF magic = ResetIng /\ c \in Protected THEN data[c]
     ELSE "factory"]

Ideal == INSTANCE SettingsStore
           WITH state <- StateOf, contents <- ContentsOf,
                left <- IF Editing THEN at..to ELSE {},
                new  <- IF Editing THEN value ELSE "factory"

(* The three-step resets with their markers, cut short and redone any      *)
(* number of times, look to the user like one atomic reset.                *)
ImplementsIdeal == Ideal!Spec
=============================================================================
