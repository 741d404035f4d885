------------------------------ MODULE MenuTree ------------------------------
(* What the menu of the controller promises its user: a walk over a tree.  *)
(* An item is named by its path, <<0, 2, 1>> for "0.2.1".  The main        *)
(* display is the item <<0>>; its children are the user's menu, and those  *)
(* of <<1>>, which is not an item itself, the manufacturer's menu behind a *)
(* password.  At any time one item is selected in the list of its          *)
(* siblings, or its function has the display and the keys.                 *)
EXTENDS Naturals, FiniteSets, Sequences

CONSTANTS Items,    \* the paths of the items
          Leaves    \* those that have a function

VARIABLES at,       \* the selected item
          mode      \* "list", "open" (its function runs) or "password"

vars == <<at, mode>>

Parent(p) == SubSeq(p, 1, Len(p) - 1)
Children(p) == {q \in Items : Len(q) > 1 /\ Parent(q) = p}
Main == <<0>>

Init == at = Main /\ mode = "open"

\* UP and DOWN go round the list of the siblings.
Siblings == Cardinality(Children(Parent(at)))
Number == at[Len(at)]
Move(number) ==
  /\ mode = "list"
  /\ at' = [at EXCEPT ![Len(at)] = number]
  /\ UNCHANGED mode
Up == Move(IF Number = 0 THEN Siblings - 1 ELSE Number - 1)
Down == Move(IF Number = Siblings - 1 THEN 0 ELSE Number + 1)

\* OK opens the list below an item, from its first entry on,
\* or else hands over to the function of the item, if it has one.
Enter ==
  /\ \/ at = Main /\ mode = "open"
     \/ mode = "list" /\ at \notin Leaves
  /\ Children(at) # {}
  /\ at' = Append(at, 0) /\ mode' = "list"
Open == mode = "list" /\ at \in Leaves /\ mode' = "open" /\ UNCHANGED at
Ignore == mode = "list" /\ at \notin Leaves /\ Children(at) = {} /\ UNCHANGED vars
Close == at # Main /\ mode = "open" /\ mode' = "list" /\ UNCHANGED at

\* MENU returns to the item whose list this is, or to the main display.
Leave ==
  /\ mode = "list"
  /\ IF Len(at) = 2 THEN at' = Main /\ mode' = "open"
                    ELSE at' = Parent(at) /\ UNCHANGED mode

AskPassword ==
  at = Main /\ mode = "open" /\ mode' = "password" /\ UNCHANGED at
Accept == mode = "password" /\ at' = <<1, 0>> /\ mode' = "list"
Refuse == mode = "password" /\ mode' = "open" /\ UNCHANGED at

Restart == at' = Main /\ mode' = "open"

Next == \/ Up \/ Down \/ Enter \/ Open \/ Close \/ Leave
        \/ AskPassword \/ Accept \/ Refuse \/ Restart

Spec == Init /\ [][Next]_vars
=============================================================================
