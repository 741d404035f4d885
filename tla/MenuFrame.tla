----------------------------- MODULE MenuFrame ------------------------------
(***************************************************************************)
(* The menu (menu_frame.c): one flat table of items, whose tree is in      *)
(* their index strings.  menu_main hands each key either to node_proc,     *)
(* which moves through the list of the current level, or to the function   *)
(* of the current item.  The list is an array of pointers that is filled   *)
(* anew at each change of level and keeps what it held further on; the way *)
(* back is a stack of items and one of display lines.  The display is not  *)
(* drawn from the list but from the items next to the current one in the   *)
(* table.  An index string is the sequence of its numbers, a pointer the   *)
(* position in the table, 0 for NULL.  sscanf's "%3d" into num1 writes     *)
(* three bytes beyond it, of the same word of the stack, which nobody uses.*)
(***************************************************************************)
EXTENDS Integers, FiniteSets, Sequences

CONSTANTS
  s_Menu,      \* the items with an index string: [pIndex |-> path, pFunc |->
               \* the name of the function or "NULL"]
  STAGE_MAX, INDEX_MAX, LINE_MAX,
  Garbage      \* BOUND: the values of an uninitialised byte

Items     == 1..Len(s_Menu)
Path(i)   == s_Menu[i].pIndex
Above(p)  == SubSeq(p, 1, Len(p) - 1)
Number(p) == p[Len(p)]
HasFunc(i) == s_Menu[i].pFunc # "NULL"

\* The items of which a path is the index string without its last number.
Paths == {Path(i) : i \in Items}
Leaves == {Path(i) : i \in {j \in Items : HasFunc(j)}}
Lists == Paths \cup {<<1>>}
Below == [p \in Lists |->
            {i \in Items : Len(Path(i)) > 1 /\ Above(Path(i)) = p}]

(* The table: the main display comes first and has a function; the entries *)
(* of each list follow one another, numbered from 0; no list is too long   *)
(* and no item too deep; an item that has a list has no function, and one  *)
(* may have neither; there is a user's and a manufacturer's menu.          *)
WellFormed ==
  /\ s_Menu \in Seq([pIndex : Seq(Nat), pFunc : STRING])
  /\ Len(s_Menu) > 0
  /\ LINE_MAX \in Nat \ {0} /\ INDEX_MAX \in 1..255 /\ STAGE_MAX \in Nat
  /\ Garbage \subseteq 0..255
  /\ Path(1) = <<0>> /\ HasFunc(1)
  /\ \A i \in Items \ {1} :
       /\ Len(Path(i)) \in 2..STAGE_MAX
       /\ Above(Path(i)) \in (Lists \ Leaves) \cup {<<0>>}
       /\ \A k \in 0..Number(Path(i)) :
            /\ i - k > 1
            /\ Path(i - k) = Append(Above(Path(i)), Number(Path(i)) - k)
  /\ \A i, j \in Items : Path(i) = Path(j) => i = j
  /\ \A p \in Lists : /\ Cardinality(Below[p]) <= INDEX_MAX
                       /\ {Number(Path(i)) : i \in Below[p]}
                            = 0..Cardinality(Below[p]) - 1
  /\ Below[<<0>>] # {} /\ Below[<<1>>] # {}

ASSUME MenuAssumption == WellFormed

VARIABLES
  s_MenuStatus,      \* "NODE" or "LEAF"
  reload,            \* s_FuncReload.reload: pass_proc has the keys
  psMenuCurr,        \* the current item
  s_CurrNodeList,    \* the entries of the current list
  s_nSubNode,        \* how many they are
  s_CurrIndex,       \* which of them is the current item
  s_CurrLine,        \* the line of the display it is shown on
  s_IndexPtrStack, s_LineStack

place == <<psMenuCurr, s_CurrIndex, s_CurrLine>>
level == <<s_CurrNodeList, s_nSubNode, s_IndexPtrStack, s_LineStack>>
menu  == <<s_MenuStatus, reload, place, level>>

-----------------------------------------------------------------------------
Least(a, b) == IF a < b THEN a ELSE b

\* update_node_list: the list p and how many entries it has.
NodeList(p) ==
  [k \in 0..INDEX_MAX - 1 |->
     IF \E i \in Below[p] : Number(Path(i)) = k
     THEN CHOOSE i \in Below[p] : Number(Path(i)) = k
     ELSE s_CurrNodeList[k]]

update_node_list(p) ==
  /\ s_CurrNodeList' = NodeList(p)
  /\ s_nSubNode' = IF Below[p] = {} THEN s_nSubNode ELSE Cardinality(Below[p])

push(stack, x) == IF Len(stack) < STAGE_MAX THEN Append(stack, x) ELSE stack

\* jump2menu: the list p, from its first entry on, if there is one.
jump2menu(p) ==
  /\ s_MenuStatus' = "NODE" /\ reload' = FALSE
  /\ update_node_list(p)
  /\ IF Below[p] = {}
     THEN UNCHANGED <<place, s_IndexPtrStack, s_LineStack>>
     ELSE /\ s_IndexPtrStack' = push(s_IndexPtrStack, psMenuCurr)
          /\ s_LineStack' = push(s_LineStack, s_CurrLine)
          /\ s_CurrIndex' = 0 /\ s_CurrLine' = 0
          /\ psMenuCurr' = s_CurrNodeList'[0]

menu_default == jump2menu(Path(psMenuCurr))

Select(index, line) ==
  /\ s_CurrIndex' = index /\ s_CurrLine' = line
  /\ psMenuCurr' = s_CurrNodeList[index]
  /\ UNCHANGED <<s_MenuStatus, reload, level>>

-----------------------------------------------------------------------------
(* node_proc, by key                                                       *)

BottomLineLast == LINE_MAX - 1        \* mutated: of a short list, too
BottomLine == (IF s_nSubNode < 4 THEN s_nSubNode ELSE LINE_MAX) - 1
LineAbove  == IF s_CurrLine > 0 THEN s_CurrLine - 1 ELSE 0
LineBelow  == IF s_CurrLine < LINE_MAX - 1 /\ s_CurrLine < s_nSubNode - 1
              THEN s_CurrLine + 1 ELSE s_CurrLine

KeyUp ==
  /\ s_MenuStatus = "NODE"
  /\ IF s_CurrIndex = 0 /\ s_CurrLine = 0
     THEN Select(s_nSubNode - 1, BottomLine)
     ELSE Select(s_CurrIndex - 1, LineAbove)

KeyDown ==
  /\ s_MenuStatus = "NODE"
  /\ IF s_CurrIndex = s_nSubNode - 1
     THEN Select(0, 0)
     ELSE Select(IF s_CurrIndex < s_nSubNode - 1 THEN s_CurrIndex + 1
                                                 ELSE s_CurrIndex, LineBelow)

KeyOk ==
  /\ s_MenuStatus = "NODE"
  /\ IF HasFunc(psMenuCurr) /\ s_IndexPtrStack # <<>>
     THEN s_MenuStatus' = "LEAF" /\ UNCHANGED <<reload, place, level>>
     ELSE menu_default

Top(stack) == stack[Len(stack)]
Popped(stack) == SubSeq(stack, 1, Len(stack) - 1)

BackToKeepsList(i) ==                 \* mutated: does not fill the list
  /\ s_MenuStatus' = IF Len(Path(i)) = 1 THEN "LEAF" ELSE s_MenuStatus
  /\ s_CurrIndex' = Number(Path(i))
  /\ UNCHANGED <<s_CurrNodeList, s_nSubNode>>

\* menu_back: to the main display, or to the list the item is in.
BackTo(i) ==
  IF Len(Path(i)) = 1
  THEN /\ s_MenuStatus' = "LEAF"
       /\ s_CurrNodeList' = [s_CurrNodeList EXCEPT ![0] = i]
       /\ s_nSubNode' = 1
       /\ s_CurrIndex' \in Garbage
  ELSE /\ update_node_list(Above(Path(i)))
       /\ s_CurrIndex' = Number(Path(i))
       /\ UNCHANGED s_MenuStatus

KeyMenu ==
  /\ s_MenuStatus = "NODE" /\ s_IndexPtrStack # <<>>
  /\ psMenuCurr' = Top(s_IndexPtrStack)
  /\ s_IndexPtrStack' = Popped(s_IndexPtrStack)
  /\ s_CurrLine' = Top(s_LineStack)
  /\ s_LineStack' = Popped(s_LineStack)
  /\ BackTo(psMenuCurr')
  /\ UNCHANGED reload

-----------------------------------------------------------------------------
(* The functions of the items                                              *)

Running == s_MenuStatus = "LEAF" /\ ~reload

\* menu_main_disp: OK opens the user's menu, MENU with OK asks the password.
MainOk == Running /\ Path(psMenuCurr) = <<0>> /\ menu_default
MainMenuAndOk ==
  /\ Running /\ Path(psMenuCurr) = <<0>>
  /\ reload' = TRUE
  /\ UNCHANGED <<s_MenuStatus, place, level>>

\* pass_proc, when MENU ends the entry: the password was right, or not.
PasswordRight == s_MenuStatus = "LEAF" /\ reload /\ jump2menu(<<1>>)
PasswordWrong ==
  /\ s_MenuStatus = "LEAF" /\ reload
  /\ reload' = FALSE
  /\ UNCHANGED <<s_MenuStatus, place, level>>

\* leaf_exit, from the function of any other item.
LeafExit ==
  /\ Running /\ Path(psMenuCurr) # <<0>>
  /\ s_MenuStatus' = "NODE"
  /\ UNCHANGED <<reload, place, level>>

NoList == [k \in 0..INDEX_MAX - 1 |-> 0]

MenuInit ==
  /\ s_MenuStatus = "LEAF" /\ reload = FALSE
  /\ psMenuCurr = 1 /\ s_CurrIndex = 0 /\ s_CurrLine = 0
  /\ s_nSubNode = 0 /\ s_CurrNodeList = NoList
  /\ s_IndexPtrStack = <<>> /\ s_LineStack = <<>>

\* menu_var_init, after the controller was off.
menu_var_init ==
  /\ s_MenuStatus' = "LEAF" /\ reload' = FALSE
  /\ psMenuCurr' = 1 /\ s_CurrIndex' = 0 /\ s_CurrLine' = 0
  /\ s_nSubNode' = 0 /\ s_CurrNodeList' = NoList
  /\ s_IndexPtrStack' = <<>> /\ s_LineStack' = <<>>

Walk == \/ KeyUp \/ KeyDown \/ KeyOk \/ KeyMenu
        \/ MainOk \/ MainMenuAndOk \/ PasswordRight \/ PasswordWrong

MenuNext == Walk \/ LeafExit \/ menu_var_init
MenuSpec == MenuInit /\ [][MenuNext]_menu

-----------------------------------------------------------------------------
(* Properties                                                              *)

\* disp_node: the position in the table of the item shown on each line.
Rows == [r \in 0..Least(s_nSubNode, LINE_MAX) - 1 |->
           psMenuCurr + (r - s_CurrLine)]

(* Every variable keeps its range; the two stacks go together and never    *)
(* overflow.                                                               *)
MenuTypeOK ==
  /\ s_MenuStatus \in {"NODE", "LEAF"} /\ reload \in BOOLEAN
  /\ psMenuCurr \in Items
  /\ s_CurrNodeList \in [0..INDEX_MAX - 1 -> 0..Len(s_Menu)]
  /\ s_nSubNode \in 0..INDEX_MAX
  /\ s_CurrIndex \in 0..255 /\ s_CurrLine \in 0..LINE_MAX - 1
  /\ s_IndexPtrStack \in Seq(Items) /\ s_LineStack \in Seq(0..LINE_MAX - 1)
  /\ Len(s_IndexPtrStack) = Len(s_LineStack)
  /\ Len(s_IndexPtrStack) < STAGE_MAX

(* The display shows the list one moves in.  disp_node counts on from the  *)
(* current item through the table, node_proc moves through s_CurrNodeList, *)
(* menu_back takes the line from a stack and the index from the string: on *)
(* whatever way the user came, each line shows the entry that is that far  *)
(* from the current one, none is beyond the ends of the list, and no line  *)
(* stays empty while there are entries to show.                            *)
Shown ==
  s_MenuStatus = "NODE" =>
    /\ s_CurrLine \in DOMAIN Rows /\ s_CurrIndex < s_nSubNode
    /\ psMenuCurr = s_CurrNodeList[s_CurrIndex]
    /\ \A r \in DOMAIN Rows :
         /\ s_CurrIndex + (r - s_CurrLine) \in 0..s_nSubNode - 1
         /\ Rows[r] = s_CurrNodeList[s_CurrIndex + (r - s_CurrLine)]

(* The menu is a walk over the tree of the index strings: each key does    *)
(* there what MenuTree says, whatever the list, the stacks and the         *)
(* uninitialised index hold and on whatever way the user came.             *)
Tree == INSTANCE MenuTree WITH
  Items <- Paths,
  at    <- Path(psMenuCurr),
  mode  <- IF s_MenuStatus = "NODE" THEN "list"
           ELSE IF reload THEN "password" ELSE "open"
KeyByKey ==
  menu' # menu =>
  /\ KeyUp => Tree!Up
  /\ KeyDown => Tree!Down
  /\ KeyOk => Tree!Enter \/ Tree!Open \/ Tree!Ignore
  /\ KeyMenu => Tree!Leave
  /\ MainOk => Tree!Enter
  /\ MainMenuAndOk => Tree!AskPassword
  /\ PasswordRight => Tree!Accept
  /\ PasswordWrong => Tree!Refuse
  /\ LeafExit => Tree!Close
  /\ menu_var_init => Tree!Restart
ImplementsTree == Tree!Init /\ [][KeyByKey]_menu
=============================================================================
