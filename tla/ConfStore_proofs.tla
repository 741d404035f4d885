-------------------------- MODULE ConfStore_proofs --------------------------
(***************************************************************************)
(* Proofs about ConfStore for every layout of the settings, every value a  *)
(* user may enter and any number of power failures: the program never runs *)
(* on junk, a reset is all or nothing, the copies in memory match the      *)
(* chip, and ConfStore implements SettingsStore.  What stands before       *)
(* "//unprotected" is lost in one state of the marker only.                *)
(***************************************************************************)
EXTENDS ConfStore, TLAPS

Over   == {FullOver, ResetOver}
NoJunk == \A c \in Cells : data[c] # "junk"

Atomic ==
  \/ data = was
  \/ /\ \A c \in Protected : data[c] = was[c]
     /\ \A c \in Unprotected : data[c] = "factory"
  \/ \A c \in Cells : data[c] = "factory"

(* What a marker in the chip says of the settings in it, in every state.   *)
ChipInv ==
  /\ magic \in Over \cup {ResetIng} => NoJunk
  /\ magic \in Over => Atomic
  /\ magic = ResetIng => \A c \in Protected : data[c] = was[c]

(* Where the writer is, and what it has written.                           *)
FullInv ==
  job = "full" =>
    /\ ret = "load" /\ value = "factory"
    /\ pc = "ing"  => /\ at \in 0..1 /\ to = 1
                      /\ magic \notin Over \cup {ResetIng}
                      /\ at = 1 => magic[1] = 102
    /\ pc = "data" => /\ magic = FullIng
                      /\ at \in Cells /\ to = Last
                      /\ \A c \in Cells : c < at => data[c] = "factory"
    /\ pc = "over" => /\ at \in 0..1 /\ to = 1
                      /\ magic = IF at = 0 THEN FullIng ELSE FullOver
                      /\ \A c \in Cells : data[c] = "factory"

RestoreInv ==
  job = "restore" =>
    /\ ret \in {"load", "off"} /\ value = "factory"
    /\ pc = "ing"  => /\ at \in 0..1 /\ to = 1
                      /\ at = 0 => magic \in Over \cup {ResetIng}
                      /\ at = 1 => magic \in {<<22, 96>>, ResetOver, ResetIng}
                      /\ magic # ResetIng => data = was
                      /\ NoJunk
    /\ pc = "data" => /\ magic = ResetIng
                      /\ at \in Unprotected /\ to = Last
                      /\ \A c \in Unprotected : c < at => data[c] = "factory"
    /\ pc = "over" => /\ at \in 0..1 /\ to = 1
                      /\ magic = ResetIng
                      /\ \A c \in Unprotected : data[c] = "factory"

SetInv ==
  job = "set" =>
    /\ ret \in {"load", "run"}
    /\ ret = "load" => value = "factory" /\ to = Password.to
    /\ pc \notin {"ing", "over"}
    /\ pc = "data" =>
         /\ magic \in Over
         /\ at <= to
         /\ \E s \in Settings : s.from <= at /\ to = s.to
         /\ ret = "load" => Password.from <= at

RunInv ==
  /\ pc \in {"load", "run"} => magic \in Over
  /\ pc = "run" \/ Editing => data = was
  /\ pc = "run" => \A c \in LoadedCells : ram[c] = data[c]
  /\ Editing => /\ job = "set"
                /\ \A c \in LoadedCells :
                     ram[c] = IF c \in at..to THEN value ELSE data[c]

StoreInv == TypeOK /\ ChipInv /\ FullInv /\ RestoreInv /\ SetInv /\ RunInv

-----------------------------------------------------------------------------
(* The four markers and the half-written ones are pairs of known bytes.    *)
LEMMA MarkerFacts ==
  /\ FullIng \in Bytes \X Bytes /\ FullOver \in Bytes \X Bytes
  /\ ResetIng \in Bytes \X Bytes /\ ResetOver \in Bytes \X Bytes
  /\ FullIng \notin Over \cup {ResetIng}
  /\ ResetIng \notin Over
  /\ <<22, 96>> \notin Over \cup {ResetIng, FullIng}
  /\ \A x : <<102, x>> \notin Over \cup {ResetIng}
  BY DEF FullIng, FullOver, ResetIng, ResetOver, Bytes, Over

LEMMA MarkerOfType ==
  \A j, s : MarkerOf(j, s) \in {FullIng, FullOver, ResetIng, ResetOver}
  BY DEF MarkerOf

(* The addresses: the two blocks are the whole of the settings.            *)
LEMMA LayoutFacts ==
  /\ Cells = 2..Last
  /\ Last \in Cells /\ 2 \in Cells /\ Unprot \in Cells
  /\ Cells \subseteq 0..Last
  /\ \A s \in Settings : /\ s.from \in Cells /\ s.to \in Cells
                         /\ s.from <= s.to
                         /\ Of(s) \subseteq Cells
  BY StoreAssumption DEF Cells, Protected, Unprotected, Of

LEMMA InitTypes == Init => TypeOK
  BY LayoutFacts, StoreAssumption DEF Init, TypeOK, Blank, Bytes, Data

(* One byte of the marker leaves it a pair of known bytes.                 *)
LEMMA MarkerWriteType ==
  ASSUME TypeOK, WriteMarker
  PROVE  magic' \in Bytes \X Bytes
<1>1. MarkerOf(job, pc) \in Bytes \X Bytes
  BY MarkerOfType, MarkerFacts
<1>. QED
  BY <1>1 DEF TypeOK, WriteMarker

LEMMA TypesPreserved == TypeOK /\ [Next]_vars => TypeOK'
<1>. SUFFICES ASSUME TypeOK, [Next]_vars PROVE TypeOK'
  OBVIOUS
<1>. USE LayoutFacts, StoreAssumption
<1>1. CASE PowerUp
  BY <1>1 DEF TypeOK, PowerUp, chip, writer
<1>2. CASE ReadMarker
  BY <1>2 DEF TypeOK, ReadMarker, StartReset, chip, writer
<1>3. CASE WriteMarker
  <2>1. magic' \in Bytes \X Bytes
    BY <1>3, MarkerWriteType
  <2>2. at' \in 0..Last /\ to' \in 0..Last
    BY <1>3 DEF TypeOK, WriteMarker, FirstOf
  <2>. QED
    BY <1>3, <2>1, <2>2 DEF TypeOK, WriteMarker
<1>4. CASE WriteData
  <2>1. data' \in [Cells -> Data] /\ was' \in [Cells -> Data]
    BY <1>4 DEF TypeOK, WriteData, Data
  <2>2. at' \in 0..Last /\ to' \in 0..Last
    BY <1>4 DEF TypeOK, WriteData
  <2>. QED
    BY <1>4, <2>1, <2>2 DEF TypeOK, WriteData
<1>5. CASE LoadIntoRam
  BY <1>5 DEF TypeOK, LoadIntoRam, chip, writer
<1>6. CASE Repair
  BY <1>6 DEF TypeOK, Repair, StartWrite, chip, writer
<1>7. CASE MenuRestore
  BY <1>7 DEF TypeOK, MenuRestore, StartReset, chip, writer
<1>8. CASE \E s \in Settings, v \in Values : Edit(s, v)
  BY <1>8 DEF TypeOK, Edit, StartWrite, chip, Data
<1>9. CASE PowerLoss
  BY <1>9 DEF TypeOK, PowerLoss, chip, writer
<1>10. CASE UNCHANGED vars
  BY <1>10 DEF TypeOK, vars, chip, writer
<1>. QED
  BY <1>1, <1>2, <1>3, <1>4, <1>5, <1>6, <1>7, <1>8, <1>9, <1>10
     DEF Next, Firmware, User

(* Type correctness of the settings store: every address that is written   *)
(* lies in the chip, the marker holds bytes of the markers only.           *)
THEOREM StoreTypeCorrect == Spec => []TypeOK
  BY InitTypes, TypesPreserved, PTL DEF Spec

-----------------------------------------------------------------------------
(* StoreInv is inductive.                                                  *)
LEMMA InitStoreInv == Init => StoreInv
<1>. SUFFICES ASSUME Init PROVE StoreInv
  OBVIOUS
<1>1. magic \notin Over \cup {ResetIng}
  BY DEF Init, Blank, Over, FullOver, ResetOver, ResetIng
<1>. QED
  BY <1>1, InitTypes
     DEF Init, StoreInv, ChipInv, FullInv, RestoreInv, SetInv, RunInv, Editing

(* Steps that leave the chip and the writer's job alone.                   *)
LEMMA QuietPreserves ==
  ASSUME StoreInv, TypeOK', PowerUp \/ PowerLoss
  PROVE  StoreInv'
  BY DEF StoreInv, PowerUp, PowerLoss, ChipInv, FullInv, RestoreInv, SetInv,
         RunInv, Editing, Atomic, NoJunk, chip, writer

LEMMA LoadPreserves ==
  ASSUME StoreInv, TypeOK', LoadIntoRam
  PROVE  StoreInv'
<1>1. ChipInv'
  BY DEF StoreInv, LoadIntoRam, ChipInv, Atomic, NoJunk, chip
<1>2. RunInv'
  <2>1. LoadedCells \subseteq Cells
    BY LayoutFacts, StoreAssumption DEF LoadedCells
  <2>. QED
    BY <2>1 DEF StoreInv, LoadIntoRam, RunInv, Editing, LoadedCells, Of, chip
<1>. QED
  BY <1>1, <1>2
     DEF StoreInv, LoadIntoRam, FullInv, RestoreInv, SetInv, chip, writer

LEMMA ReadMarkerPreserves ==
  ASSUME StoreInv, TypeOK', ReadMarker
  PROVE  StoreInv'
<1>1. ChipInv'
  BY DEF StoreInv, ReadMarker, ChipInv, Atomic, NoJunk, chip
<1>. QED
  BY <1>1, MarkerFacts
     DEF StoreInv, ReadMarker, StartReset, ChipInv, FullInv, RestoreInv,
         SetInv, RunInv, Editing, NoJunk, Over, chip, writer

LEMMA RepairPreserves ==
  ASSUME StoreInv, TypeOK', Repair
  PROVE  StoreInv'
<1>1. ChipInv'
  BY DEF StoreInv, Repair, ChipInv, Atomic, NoJunk, chip
<1>2. /\ Password \in Settings
     /\ Password.from \in Int /\ Password.to \in Int
     /\ Password.from <= Password.to
  BY LayoutFacts, StoreAssumption
<1>. QED
  BY <1>1, <1>2
     DEF StoreInv, Repair, StartWrite, FullInv, RestoreInv, SetInv, RunInv,
         Editing, chip

LEMMA EditPreserves ==
  ASSUME StoreInv, TypeOK', NEW s \in Settings, NEW v \in Values, Edit(s, v)
  PROVE  StoreInv'
<1>1. ChipInv'
  BY DEF StoreInv, Edit, ChipInv, Atomic, NoJunk, chip
<1>2. s.from \in Int /\ s.to \in Int /\ s.from <= s.to
  BY LayoutFacts, StoreAssumption
<1>3. RunInv'
  <2>1. LoadedCells \subseteq Cells
    BY LayoutFacts, StoreAssumption DEF LoadedCells
  <2>. QED
    BY <2>1 DEF StoreInv, Edit, StartWrite, RunInv, Editing, LoadedCells, Of,
                chip
<1>. QED
  BY <1>1, <1>2, <1>3
     DEF StoreInv, Edit, StartWrite, FullInv, RestoreInv, SetInv, RunInv, chip

LEMMA MenuRestorePreserves ==
  ASSUME StoreInv, TypeOK', MenuRestore
  PROVE  StoreInv'
<1>1. ChipInv'
  BY DEF StoreInv, MenuRestore, ChipInv, Atomic, NoJunk, chip
<1>. QED
  BY <1>1
     DEF StoreInv, MenuRestore, StartReset, ChipInv, FullInv, RestoreInv,
         SetInv, RunInv, Editing, NoJunk, chip

LEMMA WriteMarkerPreserves ==
  ASSUME StoreInv, TypeOK', WriteMarker
  PROVE  StoreInv'
<1>. USE LayoutFacts, StoreAssumption, MarkerFacts
<1>1. job # "set"
  BY DEF StoreInv, SetInv, WriteMarker
<1>2. PICK a \in Bytes, b \in Bytes : magic = <<a, b>>
  BY DEF StoreInv, TypeOK
<1>3. CASE job = "full" /\ pc = "ing"
  <2>1. magic' = IF at = 0 THEN <<102, b>> ELSE <<102, 96>>
    BY <1>2, <1>3 DEF StoreInv, FullInv, WriteMarker, MarkerOf, FullIng
  <2>2. magic' \notin Over \cup {ResetIng}
    BY <2>1, MarkerFacts
  <2>3. at = 1 => magic' = FullIng
    BY <2>1 DEF FullIng
  <2>4. magic'[1] = 102
    BY <2>1
  <2>. QED
    BY <1>3, <2>2, <2>3, <2>4
       DEF StoreInv, WriteMarker, ChipInv, FullInv, RestoreInv, SetInv,
           RunInv, Editing, FirstOf
<1>4. CASE job = "full" /\ pc = "over"
  <2>1. magic' = FullOver
    BY <1>2, <1>4
       DEF StoreInv, FullInv, WriteMarker, MarkerOf, FullIng, FullOver
  <2>2. \A c \in Cells : data'[c] = "factory"
    BY <1>4 DEF StoreInv, FullInv, WriteMarker
  <2>3. ChipInv'
    BY <2>1, <2>2 DEF ChipInv, NoJunk, Atomic, Over
  <2>. QED
    BY <1>4, <2>1, <2>2, <2>3
       DEF StoreInv, WriteMarker, FullInv, RestoreInv, SetInv, RunInv,
           Editing, Over
<1>5. CASE job = "restore" /\ pc = "ing"
  <2>1. at = 0 => magic' = <<22, b>>
    BY <1>2, <1>5 DEF StoreInv, RestoreInv, WriteMarker, MarkerOf, ResetIng
  <2>2. at = 0 => magic' \in {<<22, 96>>, ResetOver, ResetIng}
    BY <1>2, <1>5, <2>1
       DEF StoreInv, RestoreInv, Over, FullOver, ResetOver, ResetIng
  <2>3. at = 1 => magic' = ResetIng
    BY <1>2, <1>5
       DEF StoreInv, RestoreInv, WriteMarker, MarkerOf, ResetIng, ResetOver
  <2>4. magic' = magic \/ data' = was'
    <3>1. CASE magic = ResetIng
      BY <1>2, <1>5, <2>1, <2>3, <3>1
         DEF StoreInv, RestoreInv, WriteMarker, ResetIng
    <3>2. CASE magic # ResetIng
      BY <1>5, <3>2 DEF StoreInv, RestoreInv, WriteMarker
    <3>. QED
      BY <3>1, <3>2
  <2>5. NoJunk'
    BY <1>5 DEF StoreInv, RestoreInv, WriteMarker, NoJunk
  <2>6. ChipInv'
    BY <2>4, <2>5 DEF StoreInv, ChipInv, Atomic, WriteMarker
  <2>7. magic' # ResetIng => data' = was'
    BY <1>2, <1>5, <2>1, <2>3 DEF StoreInv, RestoreInv, WriteMarker, ResetIng
  <2>. QED
    BY <1>5, <2>2, <2>3, <2>5, <2>6, <2>7
       DEF StoreInv, WriteMarker, FullInv, RestoreInv, SetInv, RunInv,
           Editing, FirstOf, Unprotected
<1>6. CASE job = "restore" /\ pc = "over"
  <2>1. magic' = IF at = 0 THEN ResetIng ELSE ResetOver
    BY <1>2, <1>6
       DEF StoreInv, RestoreInv, WriteMarker, MarkerOf, ResetIng, ResetOver
  <2>2. ChipInv'
    BY <1>6, <2>1
       DEF StoreInv, RestoreInv, ChipInv, WriteMarker, NoJunk, Atomic, Over
  <2>. QED
    BY <1>6, <2>1, <2>2
       DEF StoreInv, WriteMarker, FullInv, RestoreInv, SetInv, RunInv,
           Editing, Over
<1>. QED
  BY <1>1, <1>3, <1>4, <1>5, <1>6 DEF StoreInv, TypeOK, WriteMarker

(* One byte of the settings: the last of a setting, or of a reset's block, *)
(* ends the write.                                                         *)
LEMMA WriteDataPreserves ==
  ASSUME StoreInv, TypeOK', WriteData
  PROVE  StoreInv'
<1>. USE LayoutFacts, StoreAssumption, MarkerFacts
<1>1. data' = [data EXCEPT ![at] = value]
  BY DEF WriteData
<1>2. CASE job = "full"
  <2>1. at \in Cells /\ magic = FullIng /\ value = "factory" /\ to = Last
    BY <1>2 DEF StoreInv, FullInv, WriteData
  <2>2. \A c \in Cells : c <= at => data'[c] = "factory"
    BY <1>1, <1>2, <2>1 DEF StoreInv, TypeOK, FullInv, WriteData
  <2>3. at = Last => \A c \in Cells : data'[c] = "factory"
    BY <2>2
  <2>4. ChipInv'
    BY <2>1 DEF WriteData, ChipInv
  <2>. QED
    BY <1>2, <2>1, <2>2, <2>3, <2>4
       DEF StoreInv, WriteData, FullInv, RestoreInv, SetInv, RunInv, Editing
<1>3. CASE job = "restore"
  <2>1. /\ at \in Unprotected /\ magic = ResetIng
        /\ value = "factory" /\ to = Last
    BY <1>3 DEF StoreInv, RestoreInv, WriteData
  <2>2. \A c \in Unprotected : c <= at => data'[c] = "factory"
    BY <1>1, <1>3, <2>1
       DEF StoreInv, TypeOK, RestoreInv, WriteData, Cells, Unprotected
  <2>3. at = Last => \A c \in Unprotected : data'[c] = "factory"
    BY <2>2 DEF Unprotected
  <2>4. \A c \in Protected : data'[c] = data[c]
    BY <1>1, <2>1 DEF StoreInv, TypeOK, Protected, Unprotected, Cells
  <2>5. NoJunk'
    BY <1>1, <2>1 DEF StoreInv, TypeOK, ChipInv, NoJunk
  <2>6. ChipInv'
    BY <1>3, <2>1, <2>4, <2>5 DEF StoreInv, WriteData, ChipInv
  <2>. QED
    BY <1>3, <2>1, <2>2, <2>3, <2>6
       DEF StoreInv, WriteData, FullInv, RestoreInv, SetInv, RunInv, Editing,
           Unprotected
<1>4. CASE job = "set"
  <2>1. /\ magic \in Over /\ at <= to /\ at \in Int /\ to \in Int
        /\ at \in Cells
    BY <1>4 DEF StoreInv, TypeOK, SetInv, WriteData
  <2>2. data' = was'
    BY <1>4 DEF WriteData
  <2>3. NoJunk'
    BY <1>1, <2>1 DEF StoreInv, TypeOK, ChipInv, NoJunk
  <2>4. ChipInv'
    BY <1>4, <2>1, <2>2, <2>3 DEF WriteData, ChipInv, Atomic
  <2>5. SetInv'
    BY <1>4, <2>1 DEF StoreInv, SetInv, WriteData
  <2>6. RunInv'
    <3>1. LoadedCells \subseteq Cells
      BY DEF LoadedCells
    <3>2. ASSUME ret = "run", NEW c \in LoadedCells
          PROVE  ram[c] = IF c \in (at + 1)..to THEN value ELSE data'[c]
      BY <1>1, <1>4, <2>1, <3>1, <3>2
         DEF StoreInv, TypeOK, RunInv, Editing, WriteData
    <3>3. at = to => \A c : c \notin (at + 1)..to
      BY <2>1
    <3>. QED
      BY <1>4, <2>1, <2>2, <3>2, <3>3
         DEF StoreInv, SetInv, RunInv, Editing, WriteData
  <2>. QED
    BY <1>4, <2>4, <2>5, <2>6 DEF StoreInv, WriteData, FullInv, RestoreInv
<1>. QED
  BY <1>2, <1>3, <1>4 DEF StoreInv, TypeOK

LEMMA StoreInvPreserved == StoreInv /\ [Next]_vars => StoreInv'
<1>. SUFFICES ASSUME StoreInv, [Next]_vars PROVE StoreInv'
  OBVIOUS
<1>1. TypeOK'
  BY TypesPreserved DEF StoreInv
<1>2. CASE UNCHANGED vars
  BY <1>2 DEF vars, StoreInv, TypeOK, ChipInv, FullInv, RestoreInv, SetInv,
              RunInv, Editing, Atomic, NoJunk
<1>. QED
  BY <1>1, <1>2, QuietPreserves, LoadPreserves, ReadMarkerPreserves,
     RepairPreserves, EditPreserves, MenuRestorePreserves,
     WriteMarkerPreserves, WriteDataPreserves
     DEF Next, Firmware, User

(* What every marker, the writer and the copies say, at every instant.     *)
THEOREM StoreConsistent == Spec => []StoreInv
  BY InitStoreInv, StoreInvPreserved, PTL DEF Spec

(* global_init never starts the program on a chip that was not             *)
(* initialised, however often full_reset_eeprom was cut short.             *)
THEOREM AlwaysInitialised == Spec => []Initialised
<1>1. StoreInv => Initialised
  BY DEF StoreInv, RunInv, ChipInv, NoJunk, Initialised
<1>. QED
  BY <1>1, StoreConsistent, PTL

(* full_reset_eeprom and restore_factory_settings are all or nothing.      *)
THEOREM ResetsAreAtomic == Spec => []ResetIsAtomic
<1>1. StoreInv => ResetIsAtomic
  BY DEF StoreInv, RunInv, ChipInv, Atomic, ResetIsAtomic, Is
<1>. QED
  BY <1>1, StoreConsistent, PTL

(* What the program runs with is what the next start will load.            *)
THEOREM CopiesAlwaysMatch == Spec => []CopiesMatch
<1>1. StoreInv => CopiesMatch
  BY DEF StoreInv, RunInv, CopiesMatch
<1>. QED
  BY <1>1, StoreConsistent, PTL

-----------------------------------------------------------------------------
(* ConfStore implements SettingsStore.  A repair of the password rewrites  *)
(* it from its first byte, and is begun only when its bytes differ: so     *)
(* every byte it changes differs from another one.                         *)
MendInv ==
  pc = "data" /\ ret = "load" /\ job = "set" =>
    /\ \A c \in Of(Password) : c < at => data[c] = "factory"
    /\ at = Password.from => \E c \in Of(Password) : data[c] # data[at]

LEMMA MendInvPreserved ==
  ASSUME StoreInv, MendInv, [Next]_vars
  PROVE  MendInv'
<1>. USE LayoutFacts, StoreAssumption
<1>1. /\ Password.from \in Int /\ Password.to \in Int
      /\ Password.from <= Password.to
      /\ Of(Password) \subseteq Cells
      /\ Password.from \in Of(Password)
  BY DEF Of
<1>2. CASE WriteData
  <2>. SUFFICES ASSUME pc' = "data", ret = "load", job = "set"
                PROVE  MendInv'
    BY <1>2 DEF MendInv, WriteData
  <2>1. /\ value = "factory" /\ at \in Cells /\ at' = at + 1
        /\ Password.from <= at
        /\ data' = [data EXCEPT ![at] = "factory"]
    BY <1>2 DEF StoreInv, TypeOK, SetInv, WriteData
  <2>2. \A c \in Of(Password) : c < at + 1 => data'[c] = "factory"
    BY <1>1, <1>2, <2>1 DEF StoreInv, TypeOK, MendInv, WriteData, Of
  <2>. QED
    BY <1>1, <1>2, <2>1, <2>2 DEF MendInv, WriteData
<1>3. CASE Repair
  <2>1. InRange(Password)
    BY <1>1, <1>3 DEF StoreInv, RunInv, ChipInv, NoJunk, InRange, Repair
  <2>2. Torn(Password) /\ at' = Password.from /\ UNCHANGED data
    BY <1>3, <2>1 DEF Repair, StartWrite, chip
  <2>3. \E c \in Of(Password) : data[c] # data[Password.from]
    BY <1>1, <2>2 DEF Torn
  <2>4. \A c \in Of(Password) : ~(c < Password.from)
    BY <1>1 DEF Of
  <2>. QED
    BY <2>2, <2>3, <2>4 DEF MendInv
<1>4. CASE WriteMarker
  BY <1>4 DEF StoreInv, SetInv, WriteMarker, MendInv
<1>5. CASE UNCHANGED vars
  BY <1>5 DEF vars, chip, writer, MendInv
<1>. QED
  BY <1>2, <1>3, <1>4, <1>5
     DEF Next, Firmware, User, PowerUp, ReadMarker, StartReset, LoadIntoRam,
         MenuRestore, Edit, StartWrite, PowerLoss, MendInv

(* The contents, as global_init will read them, by the marker; and what    *)
(* the user is about, by the writer.                                       *)
Mapped ==
  /\ magic \in Over \/ Asking => ContentsOf = [c \in Cells |-> data[c]]
  /\ magic = ResetIng =>
       ContentsOf = [c \in Cells |-> IF c \in Protected THEN data[c]
                                                        ELSE "factory"]
  /\ magic \notin Over \cup {ResetIng} /\ ~Asking =>
       ContentsOf = [c \in Cells |-> "factory"]

LEMMA MappingKnown == Mapped
  BY MarkerFacts DEF Mapped, ContentsOf, Asking, Over, Cells

Left == IF Editing THEN at..to ELSE {}
New  == IF Editing THEN value ELSE "factory"

LEMMA IdealKept ==
  ASSUME UNCHANGED <<StateOf, ContentsOf, Left, New>>
  PROVE  UNCHANGED Ideal!vars
  BY DEF Ideal!vars, Left, New

(* The user sees nothing of a step from a state that is down to another    *)
(* one that leaves the contents as they are read.                          *)
LEMMA DownUnseen ==
  ASSUME pc # "run", ~Editing, ~Asking, pc' # "run", ~Editing', ~Asking',
         UNCHANGED ContentsOf
  PROVE  UNCHANGED Ideal!vars
  BY IdealKept DEF StateOf, Left, New

LEMMA MarkerRefines ==
  ASSUME StoreInv, StoreInv', Mapped, Mapped', WriteMarker
  PROVE  [Ideal!Next]_(Ideal!vars)
<1>. USE MarkerFacts
<1>1. PICK a \in Bytes, b \in Bytes : magic = <<a, b>>
  BY DEF StoreInv, TypeOK
<1>2. /\ pc # "run" /\ ~Editing /\ UNCHANGED <<data, job, ret>>
      /\ job # "set" /\ ret # "run" /\ pc' # "run" /\ ~Editing'
  BY DEF StoreInv, TypeOK, FullInv, RestoreInv, SetInv, WriteMarker, Editing
<1>3. CASE job = "full"
  <2>1. ~Asking /\ ~Asking'
    BY <1>2, <1>3 DEF Asking
  <2>2. CASE pc = "ing"
    <3>1. magic \notin Over \cup {ResetIng}
      BY <1>3, <2>2 DEF StoreInv, FullInv, WriteMarker
    <3>2. magic' \notin Over \cup {ResetIng}
      BY <1>2, <1>3, <2>2 DEF StoreInv, FullInv, WriteMarker, MarkerOf,
         FullIng, FullOver, ResetIng, ResetOver, Over
    <3>3. UNCHANGED ContentsOf
      BY <2>1, <3>1, <3>2 DEF Mapped
    <3>. QED
      BY <1>2, <2>1, <3>3, DownUnseen
  <2>3. CASE pc = "over"
    <3>1. ContentsOf = [c \in Cells |-> "factory"]
      BY <1>3, <2>1, <2>3 DEF StoreInv, FullInv, WriteMarker, Mapped, Over
    <3>2. magic' \in Over
      BY <1>1, <1>3, <2>3 DEF StoreInv, FullInv, WriteMarker, MarkerOf,
         FullIng, FullOver, Over
    <3>3. ContentsOf' = [c \in Cells |-> "factory"]
      BY <1>2, <1>3, <2>3, <3>2 DEF StoreInv, FullInv, WriteMarker, Mapped
    <3>. QED
      BY <1>2, <2>1, <3>1, <3>3, DownUnseen
  <2>. QED
    BY <2>2, <2>3 DEF WriteMarker
<1>4. CASE job = "restore" /\ pc = "ing"
  <2>1. CASE magic = ResetIng
    <3>1. magic' = ResetIng
      BY <1>1, <1>4, <2>1 DEF StoreInv, RestoreInv, WriteMarker, MarkerOf,
         ResetIng
    <3>2. ~Asking /\ ~Asking' /\ UNCHANGED ContentsOf
      BY <1>2, <2>1, <3>1 DEF Asking, Mapped
    <3>. QED
      BY <1>2, <3>2, DownUnseen
  <2>2. CASE magic # ResetIng /\ at = 0
    <3>1. magic' # ResetIng /\ pc' = "ing"
      BY <1>1, <1>4, <2>2 DEF StoreInv, RestoreInv, WriteMarker, MarkerOf,
         ResetIng, ResetOver, FullOver, Over
    <3>2. Asking /\ Asking'
      BY <1>2, <1>4, <2>2, <3>1 DEF Asking
    <3>3. UNCHANGED ContentsOf
      BY <1>2, <3>2 DEF Mapped
    <3>. QED
      BY <1>2, <3>1, <3>2, <3>3, IdealKept DEF StateOf, Left, New
  <2>3. CASE magic # ResetIng /\ at = 1
    <3>1. magic' = ResetIng
      BY <1>1, <1>4, <2>3 DEF StoreInv, RestoreInv, WriteMarker, MarkerOf,
         ResetIng, ResetOver
    <3>2. Asking /\ ~Asking'
      BY <1>4, <2>3, <3>1 DEF Asking
    <3>3. ContentsOf' = [c \in Cells |-> IF c \in Unprotected THEN "factory"
                                                            ELSE ContentsOf[c]]
      BY <1>2, <3>1, <3>2, StoreAssumption
         DEF Mapped, Protected, Unprotected, Cells
    <3>4. Ideal!Restore
      BY <1>2, <3>2, <3>3 DEF Ideal!Restore, Ideal!Factory, Ideal!Cells,
         StateOf, Cells
    <3>. QED
      BY <3>4 DEF Ideal!Next
  <2>. QED
    BY <1>4, <2>1, <2>2, <2>3 DEF StoreInv, RestoreInv
<1>5. CASE job = "restore" /\ pc = "over"
  <2>1. ~Asking /\ ~Asking'
    BY <1>5 DEF StoreInv, RestoreInv, WriteMarker, Asking
  <2>2. magic = ResetIng /\ magic' \in {ResetIng, ResetOver}
    BY <1>1, <1>5 DEF StoreInv, RestoreInv, WriteMarker, MarkerOf, ResetIng,
       ResetOver
  <2>3. \A c \in Unprotected : data[c] = "factory"
    BY <1>5 DEF StoreInv, RestoreInv
  <2>4. UNCHANGED ContentsOf
    BY <1>2, <2>1, <2>2, <2>3 DEF Mapped, Over, Cells
  <2>. QED
    BY <1>2, <2>1, <2>4, DownUnseen
<1>. QED
  BY <1>2, <1>3, <1>4, <1>5 DEF StoreInv, TypeOK, WriteMarker

LEMMA DataRefines ==
  ASSUME StoreInv, StoreInv', MendInv, Mapped, Mapped', WriteData
  PROVE  [Ideal!Next]_(Ideal!vars)
<1>. USE LayoutFacts, StoreAssumption
<1>1. data' = [data EXCEPT ![at] = value] /\ UNCHANGED <<magic, job, ret>>
  BY DEF WriteData
<1>2. ~Asking
  BY DEF WriteData, Asking
<1>3. CASE job = "full"
  <2>1. /\ magic = FullIng /\ ret = "load"
        /\ pc' # "run" /\ ~Asking' /\ ~Editing /\ ~Editing'
    BY <1>1, <1>3 DEF StoreInv, FullInv, WriteData, Asking, Editing
  <2>2. UNCHANGED ContentsOf
    BY <1>1, <1>2, <2>1, MarkerFacts DEF Mapped
  <2>. QED
    BY <1>2, <2>1, <2>2, DownUnseen DEF WriteData
<1>4. CASE job = "restore"
  <2>1. /\ magic = ResetIng /\ ret # "run" /\ at \in Unprotected
        /\ pc' # "run" /\ ~Asking' /\ ~Editing /\ ~Editing'
    BY <1>1, <1>4 DEF StoreInv, RestoreInv, WriteData, Asking, Editing
  <2>2. \A c \in Protected : data'[c] = data[c]
    BY <1>1, <2>1 DEF StoreInv, TypeOK, Protected, Unprotected, Cells
  <2>3. UNCHANGED ContentsOf
    BY <1>1, <1>2, <2>1, <2>2 DEF Mapped, Cells
  <2>. QED
    BY <1>2, <2>1, <2>3, DownUnseen DEF WriteData
<1>5. CASE job = "set"
  <2>1. /\ magic \in Over /\ at <= to /\ at \in Cells /\ to \in Int
        /\ ~Asking'
    BY <1>1, <1>5 DEF StoreInv, TypeOK, SetInv, WriteData, Asking
  <2>2. /\ ContentsOf = [c \in Cells |-> data[c]]
        /\ ContentsOf' = [ContentsOf EXCEPT ![at] = value]
    BY <1>1, <2>1 DEF Mapped, StoreInv, TypeOK
  <2>3. CASE ret = "run"
    <3>1. Editing
      BY <2>3 DEF Editing, WriteData
    <3>2. at \in Left /\ \A d \in Left : at <= d
      BY <2>1, <3>1 DEF Left
    <3>3. CASE at = to
      <4>1. pc' = "run" /\ Left = {at}
        BY <1>5, <2>1, <2>3, <3>1, <3>3 DEF WriteData, Left
      <4>. QED
        BY <2>2, <3>1, <3>2, <4>1
           DEF Ideal!Next, Ideal!Write, Ideal!rest, StateOf, Editing, Left
    <3>4. CASE at < to
      <4>1. /\ pc' = "data" /\ at' = at + 1
            /\ UNCHANGED <<to, value, ret>>
        BY <2>1, <3>4 DEF WriteData
      <4>2. Editing'
        BY <2>3, <4>1 DEF Editing
      <4>3. (at + 1)..to = at..to \ {at} /\ to \in at..to
        <5>1. at \in Int /\ to \in Int
          BY <2>1
        <5>. QED
          BY <3>4, <5>1
      <4>4. Left = at..to /\ Left' = (at + 1)..to
        BY <3>1, <4>1, <4>2 DEF Left
      <4>5. Left' = Left \ {at} /\ Left # {at}
        <5>1. to # at
          BY <2>1, <3>4
        <5>. QED
          BY <4>3, <4>4, <5>1
      <4>6. /\ StateOf = "editing" /\ StateOf' = "editing"
            /\ New = value /\ New' = value
        BY <3>1, <4>1, <4>2 DEF StateOf, New, Editing
      <4>. QED
        BY <2>2, <3>2, <4>5, <4>6 DEF Ideal!Next, Ideal!Write, Left, New
    <3>. QED
      BY <2>1, <3>3, <3>4
  <2>4. CASE ret # "run"
    <3>1. /\ ret = "load" /\ value = "factory" /\ at \in Of(Password)
          /\ ~Editing /\ ~Editing' /\ pc' # "run"
      BY <1>1, <1>5, <2>1, <2>4
         DEF StoreInv, SetInv, WriteData, Editing, Of
    <3>2. CASE data[at] = "factory"
      <4>1. UNCHANGED ContentsOf
        BY <2>2, <3>1, <3>2
      <4>. QED
        BY <1>2, <2>1, <3>1, <4>1, DownUnseen DEF WriteData
    <3>3. CASE data[at] # "factory"
      <4>1. PICK d \in Of(Password) : data[d] # data[at]
        <5>1. CASE at = Password.from
          BY <1>5, <3>1, <5>1 DEF MendInv, WriteData
        <5>2. CASE at # Password.from
          <6>1. Password.from \in Of(Password) /\ Password.from < at
            BY <3>1, <5>2 DEF Of
          <6>. QED
            BY <1>5, <3>1, <3>3, <6>1 DEF MendInv, WriteData
        <5>. QED
          BY <5>1, <5>2
      <4>2. ContentsOf[d] # ContentsOf[at]
        BY <2>1, <2>2, <4>1
      <4>3. ContentsOf' = [c \in Cells |-> IF c \in {at} THEN "factory"
                                                        ELSE ContentsOf[c]]
        BY <2>2, <3>1
      <4>4. StateOf = "down" /\ StateOf' = "down" /\ UNCHANGED <<Left, New>>
        BY <1>2, <2>1, <3>1 DEF StateOf, Left, New, WriteData
      <4>5. Ideal!Mend
        BY <3>1, <4>1, <4>2, <4>3, <4>4
           DEF Ideal!Mend, Ideal!Of, Ideal!Factory, Ideal!Cells, Of, Cells,
               Left, New
      <4>. QED
        BY <4>5 DEF Ideal!Next
    <3>. QED
      BY <3>2, <3>3
  <2>. QED
    BY <2>3, <2>4
<1>. QED
  BY <1>3, <1>4, <1>5 DEF StoreInv, TypeOK

LEMMA StepRefines ==
  ASSUME StoreInv, StoreInv', MendInv, Mapped, Mapped', [Next]_vars
  PROVE  [Ideal!Next]_(Ideal!vars)
<1>1. ASSUME UNCHANGED <<magic, data>>, ~Asking, ~Asking'
      PROVE  UNCHANGED ContentsOf
  BY <1>1, MarkerFacts DEF Mapped, ContentsOf, Cells
<1>2. CASE PowerUp \/ ReadMarker \/ Repair
  <2>1. /\ pc # "run" /\ ~Editing /\ ~Asking
        /\ pc' # "run" /\ ~Editing' /\ ~Asking'
    BY <1>2 DEF PowerUp, ReadMarker, StartReset, Repair, StartWrite, Editing,
       Asking, chip, writer
  <2>2. UNCHANGED ContentsOf
    BY <1>1, <1>2, <2>1 DEF PowerUp, ReadMarker, Repair, chip
  <2>. QED
    BY <2>1, <2>2, DownUnseen
<1>3. CASE LoadIntoRam
  <2>1. ~Asking /\ ~Asking' /\ ~Editing /\ ~Editing'
    BY <1>3 DEF LoadIntoRam, Asking, Editing
  <2>2. UNCHANGED ContentsOf
    BY <1>1, <1>3, <2>1 DEF LoadIntoRam, chip
  <2>3. Ideal!Start
    BY <1>3, <2>1, <2>2 DEF Ideal!Start, StateOf, LoadIntoRam
  <2>. QED
    BY <2>3 DEF Ideal!Next
<1>4. CASE MenuRestore
  <2>1. magic \in Over /\ UNCHANGED <<magic, data>>
    BY <1>4 DEF MenuRestore, StoreInv, RunInv, chip
  <2>2. /\ pc = "run" /\ Asking' /\ ~Editing /\ ~Editing' /\ pc' # "run"
    BY <1>4, <2>1, MarkerFacts DEF MenuRestore, StartReset, Asking, Editing
  <2>3. UNCHANGED ContentsOf
    BY <2>1, <2>2 DEF Mapped
  <2>4. Ideal!AskRestore
    BY <2>2, <2>3 DEF Ideal!AskRestore, StateOf
  <2>. QED
    BY <2>4 DEF Ideal!Next
<1>5. ASSUME NEW s \in Settings, NEW v \in Values, Edit(s, v)
      PROVE  Ideal!Next
  <2>1. /\ pc = "run" /\ ~Asking /\ ~Asking' /\ Editing' /\ pc' # "run"
        /\ at' = s.from /\ to' = s.to /\ value' = v
    BY <1>5 DEF Edit, StartWrite, Asking, Editing
  <2>2. UNCHANGED ContentsOf
    BY <1>1, <1>5, <2>1 DEF Edit, chip
  <2>3. Ideal!Edit
    BY <2>1, <2>2 DEF Ideal!Edit, Ideal!Of, StateOf
  <2>. QED
    BY <2>3 DEF Ideal!Next
<1>6. CASE PowerLoss
  <2>1. /\ UNCHANGED <<magic, data>>
        /\ pc' = "off" /\ ~Editing' /\ ~Asking'
    BY <1>6 DEF PowerLoss, chip, Editing, Asking
  <2>2. CASE ~Asking \/ magic \in Over
    <3>1. UNCHANGED ContentsOf
      BY <1>1, <2>1, <2>2 DEF Mapped
    <3>2. Ideal!Fail
      BY <2>1, <3>1 DEF Ideal!Fail, Ideal!rest, StateOf
    <3>. QED
      BY <3>2 DEF Ideal!Next
  <2>3. CASE Asking /\ magic \notin Over
    <3>1. ContentsOf' = [c \in Cells |-> "factory"]
      BY <2>1, <2>3 DEF Mapped, Asking
    <3>2. /\ StateOf = "restoring" /\ StateOf' = "down"
          /\ ~Editing
      BY <2>1, <2>3 DEF StateOf, Asking, Editing
    <3>3. Ideal!FailRestoring
      BY <2>1, <3>1, <3>2
         DEF Ideal!FailRestoring, Ideal!Factory, Ideal!Cells, Cells
    <3>. QED
      BY <3>3 DEF Ideal!Next
  <2>. QED
    BY <2>2, <2>3
<1>7. CASE UNCHANGED vars
  <2>1. UNCHANGED <<magic, data, pc, job, at, to, value, ret>>
    BY <1>7 DEF vars, chip, writer
  <2>2. UNCHANGED <<StateOf, ContentsOf, Left, New>>
    BY <2>1 DEF StateOf, ContentsOf, Left, New, Editing, Asking
  <2>. QED
    BY <2>2, IdealKept
<1>. QED
  BY <1>2, <1>3, <1>4, <1>5, <1>6, <1>7, MarkerRefines, DataRefines
     DEF Next, Firmware, User

(* The resets with their markers, three writes each, cut short and redone  *)
(* any number of times, look to the user like one atomic reset, and the    *)
(* settings like contents that only an edit changes byte by byte.          *)
THEOREM IdealImplemented == Spec => ImplementsIdeal
<1>1. Init => Ideal!Init
  <2>. SUFFICES ASSUME Init PROVE Ideal!Init
    OBVIOUS
  <2>1. magic \notin Over \cup {ResetIng} /\ ~Asking /\ ~Editing
    BY DEF Init, Blank, Over, FullOver, ResetOver, ResetIng, Asking, Editing
  <2>2. ContentsOf = [c \in Cells |-> "factory"]
    BY <2>1, MappingKnown DEF Mapped
  <2>. QED
    BY <2>1, <2>2 DEF Init, Ideal!Init, Ideal!Cells, Cells, StateOf
<1>2. Init => MendInv
  BY DEF Init, MendInv
<1>3. StoreInv /\ MendInv /\ [Next]_vars => MendInv'
  BY MendInvPreserved
<1>4. StoreInv /\ StoreInv' /\ MendInv /\ Mapped /\ Mapped' /\ [Next]_vars
      => [Ideal!Next]_(Ideal!vars)
  BY StepRefines
<1>. QED
  BY <1>1, <1>2, <1>3, <1>4, MappingKnown, StoreConsistent, PTL
     DEF Spec, ImplementsIdeal, Ideal!Spec

-----------------------------------------------------------------------------
(* What stands before "//unprotected" in conf_store.h is changed by an edit*)
(* of that byte, by the repair of a half-written password, and by one more *)
(* thing: the power fails when restore_factory_settings has written the    *)
(* low byte of EE_RESET_FACTORY_ING over that of EE_FULL_RECOVERY_OVER and *)
(* not yet the high byte, and global_init takes that for a blank chip.     *)
HalfAsked == <<22, 96>>

ProtectedChange ==
  \A c \in Protected : ContentsOf'[c] # ContentsOf[c] =>
    \/ Editing /\ c = at
    \/ /\ c \in Of(Password)
       /\ \E d \in Of(Password) : ContentsOf[d] # ContentsOf[c]
    \/ Asking /\ magic = HalfAsked /\ PowerLoss

(* For every layout and any number of power failures, no reset touches a   *)
(* protected byte while the marker is any other than the half-written one. *)
THEOREM ProtectedLostOnlyHalfAsked == Spec => [][ProtectedChange]_vars
<1>1. ASSUME StoreInv, StoreInv', MendInv, Mapped, Mapped', [Next]_vars
      PROVE  [ProtectedChange]_vars
  <2>. SUFFICES ASSUME Next, NEW c \in Protected,
                       ContentsOf'[c] # ContentsOf[c]
                PROVE  \/ Editing /\ c = at
                       \/ /\ c \in Of(Password)
                          /\ \E d \in Of(Password) :
                               ContentsOf[d] # ContentsOf[c]
                       \/ Asking /\ magic = HalfAsked /\ PowerLoss
    BY <1>1 DEF ProtectedChange
  <2>1. c \in Cells /\ c \notin Unprotected
    BY StoreAssumption DEF Cells, Protected, Unprotected
  <2>2. CASE ~Asking
    <3>1. StateOf # "restoring"
      BY <2>2 DEF StateOf
    <3>2. Ideal!Next
      <4>1. [Ideal!Next]_(Ideal!vars)
        BY <1>1, StepRefines
      <4>. QED
        BY <4>1 DEF Ideal!vars
    <3>3. CASE Ideal!Write
      <4>1. Editing
        BY <3>3, <2>2 DEF Ideal!Write, StateOf
      <4>2. PICK e \in at..to : /\ \A d \in at..to : e <= d
                                /\ ContentsOf' = [ContentsOf EXCEPT ![e] = value]
        BY <3>3, <4>1 DEF Ideal!Write
      <4>3. e = at
        <5>1. at \in Int /\ to \in Int
          BY <1>1 DEF StoreInv, TypeOK
        <5>. QED
          BY <4>2, <5>1
      <4>4. c = at
        BY <2>1, <4>2, <4>3 DEF ContentsOf
      <4>. QED
        BY <4>1, <4>4
    <3>4. CASE Ideal!Mend
      <4>1. PICK e \in Of(Password) :
              /\ \E d \in Of(Password) : ContentsOf[d] # ContentsOf[e]
              /\ ContentsOf' = [d \in Cells |-> IF d \in {e} THEN "factory"
                                                       ELSE ContentsOf[d]]
        BY <3>4 DEF Ideal!Mend, Ideal!Of, Of, Ideal!Factory, Ideal!Cells, Cells
      <4>2. c = e
        BY <2>1, <4>1
      <4>. QED
        BY <4>1, <4>2
    <3>. QED
      BY <3>1, <3>2, <3>3, <3>4 DEF Ideal!Next, Ideal!Start, Ideal!Edit,
         Ideal!AskRestore, Ideal!Restore, Ideal!Fail, Ideal!FailRestoring
  <2>3. CASE Asking
    <3>1. ContentsOf = [d \in Cells |-> data[d]]
      BY <1>1, <2>3 DEF Mapped
    <3>2. /\ magic # ResetIng /\ job = "restore" /\ pc = "ing"
          /\ magic \in Over \cup {HalfAsked, ResetOver}
      BY <1>1, <2>3
         DEF Asking, StoreInv, TypeOK, RestoreInv, HalfAsked
    <3>3. CASE WriteMarker
      <4>1. UNCHANGED <<data, job>> /\ magic' \in {HalfAsked, ResetOver, ResetIng}
        <5>1. PICK a \in Bytes, b \in Bytes : magic = <<a, b>>
          BY <1>1 DEF StoreInv, TypeOK
        <5>. QED
          BY <1>1, <3>2, <3>3, <5>1
             DEF WriteMarker, MarkerOf, StoreInv, RestoreInv, HalfAsked,
                 ResetIng, ResetOver, FullOver, Over
      <4>2. Asking' \/ magic' = ResetIng
        <5>1. magic' # ResetIng => pc' = "ing"
          BY <1>1, <3>2, <3>3 DEF WriteMarker, StoreInv, RestoreInv, MarkerOf,
             ResetIng, ResetOver
        <5>. QED
          BY <3>2, <4>1, <5>1 DEF Asking
      <4>3. ContentsOf'[c] = data'[c]
        BY <1>1, <2>1, <4>2 DEF Mapped
      <4>. QED
        BY <2>1, <3>1, <4>1, <4>3
    <3>4. CASE PowerLoss
      <4>1. UNCHANGED <<magic, data>>
        BY <3>4 DEF PowerLoss, chip
      <4>2. magic \in Over => ContentsOf' = [d \in Cells |-> data'[d]]
        BY <1>1, <4>1 DEF Mapped
      <4>3. magic = HalfAsked
        BY <2>1, <3>1, <3>2, <4>1, <4>2 DEF Over
      <4>. QED
        BY <2>3, <3>4, <4>3
    <3>. QED
      BY <3>2, <3>3, <3>4 DEF Next, Firmware, User, PowerUp, ReadMarker,
         WriteData, LoadIntoRam, Repair, MenuRestore, Edit
  <2>. QED
    BY <2>2, <2>3
<1>2. Init => MendInv
  BY DEF Init, MendInv
<1>3. StoreInv /\ MendInv /\ [Next]_vars => MendInv'
  BY MendInvPreserved
<1>. QED
  BY <1>1, <1>2, <1>3, MappingKnown, StoreConsistent, PTL DEF Spec
=============================================================================
