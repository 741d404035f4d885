--------------------------- MODULE SettingsStore ----------------------------
(***************************************************************************)
(* What the settings store promises: contents that only an edit changes    *)
(* byte by byte; a factory restore takes effect at one instant, whatever   *)
(* happens to the power, and a chip that was never written holds the       *)
(* factory settings.  One exception is stated here because the code makes  *)
(* it: a power failure while a restore is being requested may turn it into *)
(* a full reset.                                                           *)
(***************************************************************************)
EXTENDS Integers

CONSTANTS Protected, Unprotected, Settings, Password, Values

Cells == Protected \cup Unprotected
Of(s) == s.from..s.to

VARIABLES
  state,     \* "up", "editing", "restoring", "down"
  contents,  \* of every cell
  left,      \* while a setting is edited: the bytes not written yet
  new        \* and what is written

vars == <<state, contents, left, new>>
rest == left' = {} /\ new' = "factory"

Init == /\ state = "down"
        /\ contents = [c \in Cells |-> "factory"]
        /\ left = {} /\ new = "factory"

Factory(S) == [c \in Cells |-> IF c \in S THEN "factory" ELSE contents[c]]

Start == /\ state = "down"
         /\ state' = "up"
         /\ UNCHANGED <<contents, left, new>>

Edit == /\ state = "up"
        /\ state' = "editing"
        /\ \E s \in Settings, v \in Values : left' = Of(s) /\ new' = v
        /\ UNCHANGED contents

(* The bytes are written in the order of their addresses.                  *)
Write == /\ state = "editing"
         /\ \E c \in left :
              /\ \A d \in left : c <= d
              /\ contents' = [contents EXCEPT ![c] = new]
              /\ IF left = {c}
                   THEN state' = "up" /\ rest
                   ELSE left' = left \ {c} /\ UNCHANGED <<state, new>>

AskRestore == /\ state = "up"
              /\ state' = "restoring"
              /\ UNCHANGED <<contents, left, new>>

Restore == /\ state = "restoring"
           /\ state' = "down"
           /\ contents' = Factory(Unprotected)
           /\ UNCHANGED <<left, new>>

(* A password that a failure left half written may be replaced.            *)
Mend == /\ state = "down"
        /\ \E c \in Of(Password) :
             /\ \E d \in Of(Password) : contents[d] # contents[c]
             /\ contents' = Factory({c})
        /\ UNCHANGED <<state, left, new>>

Fail == /\ state' = "down"
        /\ rest
        /\ UNCHANGED contents

FailRestoring == /\ state = "restoring"
                 /\ state' = "down"
                 /\ contents' = Factory(Cells)
                 /\ UNCHANGED <<left, new>>

Next == \/ Start \/ Edit \/ Write \/ AskRestore \/ Restore \/ Mend
        \/ Fail \/ FailRestoring

Spec == Init /\ [][Next]_vars
=============================================================================
