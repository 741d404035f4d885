-------------------------- MODULE MenuFrame_proofs --------------------------
(***************************************************************************)
(* The menu shows the list one moves in, and walks the tree of the index   *)
(* strings, for every well-formed table, however deep and long, and for    *)
(* every value of the uninitialised index.  node_proc has a 4 where it     *)
(* means LINE_MAX, so the theorems about lines assume that LINE_MAX is 4.  *)
(***************************************************************************)
EXTENDS MenuFrame, FiniteSetTheorems, SequenceTheorems, TLAPS

-----------------------------------------------------------------------------
(* Sequences                                                               *)

\* The last number of a path can be split off, and put back.
LEMMA SplitLast ==
  ASSUME NEW S, NEW s \in Seq(S), Len(s) > 0
  PROVE  /\ Above(s) \in Seq(S) /\ Len(Above(s)) = Len(s) - 1
         /\ Number(s) \in S
         /\ s = Append(Above(s), Number(s))
  <1>1. Len(s) \in Nat /\ \A i \in 1..Len(s) : s[i] \in S
    BY LenProperties, ElementOfSeq
  <1>2. Above(s) \in Seq(S) /\ Len(Above(s)) = Len(s) - 1
        /\ \A i \in 1..Len(s) - 1 : Above(s)[i] = s[i]
    <2>1. \A i \in 1..Len(s) - 1 : s[i] \in S
      BY <1>1
    <2> DEFINE n == Len(s) - 1
    <2>2. n \in Int /\ 1 \in Int /\ \A i \in 1..n : s[i] \in S
      BY <1>1, <2>1
    <2> HIDE DEF n
    <2>3. /\ SubSeq(s, 1, n) \in Seq(S)
          /\ Len(SubSeq(s, 1, n)) = IF 1 <= n THEN n - 1 + 1 ELSE 0
          /\ \A i \in 1..n - 1 + 1 : SubSeq(s, 1, n)[i] = s[1 + i - 1]
      BY <2>2, SubSeqProperties
    <2>4. n = Len(s) - 1
      BY DEF n
    <2> QED BY <1>1, <2>3, <2>4 DEF Above
  <1>3. Number(s) \in S
    BY <1>1 DEF Number
  <1>4. s = Append(Above(s), Number(s))
    <2> DEFINE t == Append(Above(s), Number(s))
    <2>1. /\ t \in Seq(S) /\ Len(t) = Len(s)
          /\ \A i \in 1..Len(s) - 1 : t[i] = Above(s)[i]
          /\ t[Len(s)] = Number(s)
      BY <1>1, <1>2, <1>3, AppendProperties
    <2>2. \A i \in 1..Len(s) : s[i] = t[i]
      BY <1>1, <1>2, <2>1 DEF Number
    <2> QED BY <2>1, <2>2, SeqEqual
  <1> QED BY <1>2, <1>3, <1>4

\* A number put behind a path is what SplitLast finds.
LEMMA AppendSplit ==
  ASSUME NEW S, NEW s \in Seq(S), NEW x \in S
  PROVE  /\ Append(s, x) \in Seq(S) /\ Len(Append(s, x)) = Len(s) + 1
         /\ Above(Append(s, x)) = s /\ Number(Append(s, x)) = x
  <1>1. Len(s) \in Nat /\ Append(s, x) \in Seq(S)
        /\ Len(Append(s, x)) = Len(s) + 1
        /\ Number(Append(s, x)) = x
    BY LenProperties, AppendProperties DEF Number
  <1>2. Append(s, x) = Append(Above(Append(s, x)), Number(Append(s, x)))
        /\ Above(Append(s, x)) \in Seq(S)
    <2>1. Len(Append(s, x)) > 0
      BY <1>1
    <2> QED BY <1>1, <2>1, SplitLast
  <1> QED BY <1>1, <1>2, AppendInjective

\* What is in front of the last number stays in front.
LEMMA Prefixes ==
  ASSUME NEW S, NEW s \in Seq(S), NEW x \in S, NEW d \in 1..Len(s)
  PROVE  SubSeq(Append(s, x), 1, d) = SubSeq(s, 1, d)
  <1>1. Len(s) \in Nat /\ <<x>> \in Seq(S) /\ Append(s, x) = s \o <<x>>
    BY LenProperties, AppendIsConcat
  <1>2. 1 \in 1..Len(s)
    BY <1>1
  <1> QED BY <1>1, <1>2, SubSeqOfConcat1

\* The prefixes of a path are those of the path above it.
LEMMA PrefixOfAbove ==
  ASSUME NEW S, NEW s \in Seq(S), Len(s) > 0, NEW d \in 1..Len(s) - 1
  PROVE  SubSeq(Above(s), 1, d) = SubSeq(s, 1, d)
  BY SplitLast, Prefixes

\* The last number of a path is replaced.
LEMMA ReplaceLast ==
  ASSUME NEW S, NEW s \in Seq(S), NEW x \in S, NEW y \in S
  PROVE  [Append(s, x) EXCEPT ![Len(Append(s, x))] = y] = Append(s, y)
  <1> DEFINE a == Append(s, x)
             b == Append(s, y)
             c == [a EXCEPT ![Len(a)] = y]
  <1>1. /\ Len(s) \in Nat
        /\ a \in Seq(S) /\ Len(a) = Len(s) + 1
        /\ \A i \in 1..Len(s) : a[i] = s[i]
        /\ b \in Seq(S) /\ Len(b) = Len(s) + 1
        /\ \A i \in 1..Len(s) : b[i] = s[i]
        /\ b[Len(s) + 1] = y
    BY LenProperties, AppendProperties
  <1>2. Len(a) \in 1..Len(a)
    BY <1>1
  <1> HIDE DEF a, b
  <1>3. /\ c \in Seq(S) /\ Len(c) = Len(a)
        /\ \A i \in 1..Len(a) : c[i] = IF i = Len(a) THEN y ELSE a[i]
    BY <1>1, <1>2, ExceptSeq
  <1> HIDE DEF c
  <1>4. \A i \in 1..Len(c) : c[i] = b[i]
    BY <1>1, <1>3
  <1>5. c = b
    BY <1>1, <1>3, <1>4, SeqEqual
  <1> QED BY <1>5 DEF a, b, c

-----------------------------------------------------------------------------
(* The table                                                               *)

Size(p) == Cardinality(Below[p])

\* The parts of the assumption about the table, with the types of its paths.
LEMMA Table ==
  /\ Len(s_Menu) \in Nat \ {0} /\ Items = 1..Len(s_Menu) /\ 1 \in Items
  /\ LINE_MAX \in Nat \ {0} /\ INDEX_MAX \in 1..255 /\ STAGE_MAX \in Nat
  /\ Garbage \subseteq 0..255
  /\ \A i \in Items : Path(i) \in Seq(Nat)
  /\ Path(1) = <<0>> /\ Len(Path(1)) = 1 /\ HasFunc(1)
  /\ \A i, j \in Items : Path(i) = Path(j) => i = j
  /\ <<0>> \in Paths /\ Paths \subseteq Lists /\ <<1>> \in Lists
  /\ <<0>> \in Lists
  /\ \A i \in Items : Path(i) \in Paths
  <1>1. s_Menu \in Seq([pIndex : Seq(Nat), pFunc : STRING]) /\ Len(s_Menu) > 0
    BY MenuAssumption DEF WellFormed
  <1>2. Len(s_Menu) \in Nat \ {0} /\ Items = 1..Len(s_Menu) /\ 1 \in Items
    BY <1>1, LenProperties DEF Items
  <1>3. \A i \in Items : s_Menu[i] \in [pIndex : Seq(Nat), pFunc : STRING]
    BY <1>1, <1>2, ElementOfSeq
  <1>4. \A i \in Items : Path(i) \in Seq(Nat)
    BY <1>3 DEF Path
  <1>5. /\ LINE_MAX \in Nat \ {0} /\ INDEX_MAX \in 1..255 /\ STAGE_MAX \in Nat
        /\ Garbage \subseteq 0..255
        /\ Path(1) = <<0>> /\ HasFunc(1)
        /\ \A i, j \in Items : Path(i) = Path(j) => i = j
    BY MenuAssumption DEF WellFormed
  <1>6. \A i \in Items : Path(i) \in Paths
    BY DEF Paths
  <1>7. Len(<<0>>) = 1
    OBVIOUS
  <1>8. <<0>> \in Paths
    BY <1>2, <1>5, <1>6
  <1> QED BY <1>2, <1>4, <1>5, <1>6, <1>7, <1>8 DEF Lists

\* Every item but the main display is an entry of the list above it.
LEMMA ItemPath ==
  ASSUME NEW i \in Items, i # 1
  PROVE  /\ Len(Path(i)) \in 2..STAGE_MAX
         /\ Above(Path(i)) \in Seq(Nat) /\ Len(Above(Path(i))) = Len(Path(i)) - 1
         /\ Number(Path(i)) \in Nat
         /\ Path(i) = Append(Above(Path(i)), Number(Path(i)))
         /\ Above(Path(i)) \in Lists
         /\ Above(Path(i)) \in Leaves => Above(Path(i)) = <<0>>
         /\ i \in Below[Above(Path(i))]
  <1>1. /\ Len(Path(i)) \in 2..STAGE_MAX
        /\ Above(Path(i)) \in (Lists \ Leaves) \cup {<<0>>}
    BY MenuAssumption DEF WellFormed
  <1>2. Above(Path(i)) \in Lists
    BY <1>1, Table
  <1>3. Path(i) \in Seq(Nat) /\ Len(Path(i)) > 1 /\ Len(Path(i)) > 0
    BY <1>1, Table
  <1>4. i \in Below[Above(Path(i))]
    BY <1>2, <1>3 DEF Below
  <1> QED BY <1>1, <1>2, <1>3, <1>4, SplitLast

\* The main display is the only item at the top.
LEMMA Root ==
  ASSUME NEW i \in Items
  PROVE  /\ i = 1 => Len(Path(i)) = 1
         /\ i # 1 => Len(Path(i)) > 1
         /\ Len(Path(i)) > 1 => i # 1
         /\ Len(Path(i)) = 1 => i = 1
  <1>1. i = 1 => Len(Path(i)) = 1
    BY Table
  <1>2. i # 1 => Len(Path(i)) > 1
    <2>1. i # 1 => Len(Path(i)) \in 2..STAGE_MAX
      BY ItemPath
    <2> QED BY <2>1, Table
  <1>3. Len(Path(i)) > 1 => Len(Path(i)) # 1
    <2>1. Len(Path(i)) \in Nat
      BY Table, LenProperties
    <2>2. \A n \in Nat : n > 1 => n # 1
      OBVIOUS
    <2> QED BY <2>1, <2>2, Zenon
  <1> QED BY <1>1, <1>2, <1>3, Zenon

\* The entries of a list are numbered without gaps.
LEMMA Entries ==
  ASSUME NEW p \in Lists
  PROVE  /\ p \in Seq(Nat) /\ Size(p) \in 0..INDEX_MAX
         /\ Below[p] \subseteq Items \ {1}
         /\ \A i \in Below[p] : /\ Above(Path(i)) = p
                                /\ Number(Path(i)) \in 0..Size(p) - 1
                                /\ Path(i) = Append(p, Number(Path(i)))
         /\ \A k \in 0..Size(p) - 1 : \E i \in Below[p] : Number(Path(i)) = k
         /\ \A i, j \in Below[p] : Number(Path(i)) = Number(Path(j)) => i = j
         /\ Below[p] = {} => Size(p) = 0
  <1>1. Below[p] = {i \in Items : Len(Path(i)) > 1 /\ Above(Path(i)) = p}
    BY DEF Below
  <1>2. Below[p] \subseteq Items \ {1}
    <2>1. ASSUME NEW i \in Below[p] PROVE i \in Items \ {1}
      <3>1. i \in Items /\ Len(Path(i)) > 1
        BY <1>1
      <3>2. i # 1
        BY <3>1, Root, Zenon
      <3> QED BY <3>1, <3>2
    <2> QED BY <2>1
  <1>3. IsFiniteSet(Below[p]) /\ Size(p) \in Nat
    <2>1. IsFiniteSet(Items)
      BY Table, FS_Interval
    <2>2. Below[p] \in SUBSET Items
      BY <1>2
    <2> QED BY <2>1, <2>2, FS_Subset, FS_CardinalityType DEF Size
  <1>4. /\ Size(p) <= INDEX_MAX
        /\ {Number(Path(i)) : i \in Below[p]} = 0..Size(p) - 1
    BY MenuAssumption DEF WellFormed, Size
  <1>5. \A i \in Below[p] : /\ Above(Path(i)) = p
                            /\ Number(Path(i)) \in 0..Size(p) - 1
                            /\ Path(i) = Append(p, Number(Path(i)))
    BY <1>1, <1>2, <1>4, ItemPath
  <1>6. \A k \in 0..Size(p) - 1 : \E i \in Below[p] : Number(Path(i)) = k
    BY <1>4
  <1>7. \A i, j \in Below[p] : Number(Path(i)) = Number(Path(j)) => i = j
    <2>1. \A i, j \in Items : Path(i) = Path(j) => i = j
      BY Table
    <2> QED BY <1>2, <1>5, <2>1
  <1>8. p \in Seq(Nat)
    <2>1. <<1>> \in Seq(Nat) /\ \A i \in Items : Path(i) \in Seq(Nat)
      BY Table
    <2> QED BY <2>1 DEF Lists, Paths
  <1>9. Below[p] = {} => Size(p) = 0
    BY FS_EmptySet DEF Size
  <1> QED BY <1>2, <1>3, <1>4, <1>5, <1>6, <1>7, <1>8, <1>9, Table

\* The entries of a list stand next to one another in the table.
LEMMA Adjacent ==
  ASSUME NEW p \in Lists, NEW i \in Below[p], NEW j \in Below[p]
  PROVE  i - Number(Path(i)) = j - Number(Path(j))
  <1>1. \A h \in Below[p] : /\ h - Number(Path(h)) \in Items
                            /\ Path(h - Number(Path(h))) = Append(p, 0)
    <2> SUFFICES ASSUME NEW h \in Below[p]
                 PROVE  /\ h - Number(Path(h)) \in Items
                        /\ Path(h - Number(Path(h))) = Append(p, 0)
      OBVIOUS
    <2>1. h \in Items /\ h # 1 /\ Number(Path(h)) \in Nat /\ Above(Path(h)) = p
      BY Entries, ItemPath
    <2> DEFINE k == Number(Path(h))
    <2>2. \A d \in 0..k : h - d > 1 /\ Path(h - d) = Append(p, k - d)
      BY <2>1, MenuAssumption DEF WellFormed
    <2>3. k \in Nat /\ k \in 0..k
      BY <2>1
    <2> HIDE DEF k
    <2>4. h - k > 1 /\ Path(h - k) = Append(p, k - k)
      BY <2>2, <2>3
    <2>5. k - k = 0
      BY <2>3
    <2>6. h - k \in Items
      BY <2>1, <2>3, <2>4, Table
    <2> QED BY <2>4, <2>5, <2>6 DEF k
  <1> QED BY <1>1, Table

-----------------------------------------------------------------------------
(* The invariant                                                           *)

\* A list of n entries can be shown with the entry index on this line.
Window(index, line, n) ==
  /\ line \in 0..LINE_MAX - 1 /\ line <= index
  /\ index - line + Least(n, LINE_MAX) <= n
Fits(i, line) == Window(Number(Path(i)), line, Size(Above(Path(i))))

\* s_CurrNodeList holds the list p.
ListIs(p) ==
  /\ s_nSubNode = Size(p)
  /\ \A k \in 0..Size(p) - 1 : /\ s_CurrNodeList[k] \in Below[p]
                               /\ Number(Path(s_CurrNodeList[k])) = k

\* The list, the index and the line are those of the current item.
InList ==
  /\ ListIs(Above(Path(psMenuCurr)))
  /\ s_CurrIndex = Number(Path(psMenuCurr))
  /\ Fits(psMenuCurr, s_CurrLine)

\* The stacks hold the items above the current one, and where they are shown.
WayBack ==
  /\ Len(s_IndexPtrStack) = Len(Path(psMenuCurr)) - 1
  /\ s_IndexPtrStack # <<>> => s_IndexPtrStack[1] = 1
  /\ \A d \in 2..Len(s_IndexPtrStack) :
       /\ Path(s_IndexPtrStack[d]) = SubSeq(Path(psMenuCurr), 1, d)
       /\ Fits(s_IndexPtrStack[d], s_LineStack[d])

MenuInv ==
  /\ MenuTypeOK
  /\ psMenuCurr = 1 => s_MenuStatus = "LEAF"
  /\ reload => psMenuCurr = 1
  /\ psMenuCurr # 1 => InList
  /\ WayBack

\* update_node_list finds every entry at its number.
LEMMA ListFilled ==
  ASSUME MenuTypeOK, NEW p \in Lists
  PROVE  /\ NodeList(p) \in [0..INDEX_MAX - 1 -> 0..Len(s_Menu)]
         /\ \A k \in 0..Size(p) - 1 : /\ NodeList(p)[k] \in Below[p]
                                      /\ Number(Path(NodeList(p)[k])) = k
         /\ Below[p] = {} => NodeList(p) = s_CurrNodeList
  <1>1. s_CurrNodeList \in [0..INDEX_MAX - 1 -> 0..Len(s_Menu)]
    BY DEF MenuTypeOK
  <1>2. Below[p] \subseteq 0..Len(s_Menu)
    BY Entries, Table
  <1>3. NodeList(p) \in [0..INDEX_MAX - 1 -> 0..Len(s_Menu)]
    BY <1>1, <1>2 DEF NodeList
  <1>4. Below[p] = {} => NodeList(p) = s_CurrNodeList
    BY <1>1 DEF NodeList
  <1>5. ASSUME NEW k \in 0..Size(p) - 1
        PROVE  NodeList(p)[k] \in Below[p] /\ Number(Path(NodeList(p)[k])) = k
    <2>1. k \in 0..INDEX_MAX - 1
      BY Entries, Table
    <2>2. PICK i \in Below[p] : Number(Path(i)) = k
      BY Entries
    <2>3. NodeList(p)[k] = CHOOSE j \in Below[p] : Number(Path(j)) = k
      BY <2>1, <2>2 DEF NodeList
    <2> QED BY <2>2, <2>3
  <1> QED BY <1>3, <1>4, <1>5

\* What is known of the current item while it is in a list.
LEMMA Current ==
  ASSUME MenuInv, psMenuCurr # 1
  PROVE  /\ psMenuCurr \in Items
         /\ Path(psMenuCurr) \in Seq(Nat) /\ Len(Path(psMenuCurr)) \in 2..STAGE_MAX
         /\ Above(Path(psMenuCurr)) \in Lists
         /\ Above(Path(psMenuCurr)) \in Seq(Nat)
         /\ psMenuCurr \in Below[Above(Path(psMenuCurr))]
         /\ Number(Path(psMenuCurr)) \in 0..s_nSubNode - 1
         /\ s_CurrIndex = Number(Path(psMenuCurr))
         /\ Path(psMenuCurr) = Append(Above(Path(psMenuCurr)), s_CurrIndex)
         /\ ListIs(Above(Path(psMenuCurr)))
         /\ s_nSubNode = Size(Above(Path(psMenuCurr)))
         /\ s_nSubNode \in 0..INDEX_MAX
         /\ Window(s_CurrIndex, s_CurrLine, s_nSubNode)
         /\ ~reload
         /\ s_IndexPtrStack # <<>>
  <1>1. psMenuCurr \in Items /\ InList /\ ~reload
    BY DEF MenuInv, MenuTypeOK
  <1>2. /\ Len(Path(psMenuCurr)) \in 2..STAGE_MAX
        /\ Above(Path(psMenuCurr)) \in Lists
        /\ psMenuCurr \in Below[Above(Path(psMenuCurr))]
        /\ Path(psMenuCurr)
             = Append(Above(Path(psMenuCurr)), Number(Path(psMenuCurr)))
    BY <1>1, ItemPath
  <1>3. Path(psMenuCurr) \in Seq(Nat) /\ Above(Path(psMenuCurr)) \in Seq(Nat)
    BY <1>1, ItemPath, Table
  <1>4. /\ s_CurrIndex = Number(Path(psMenuCurr))
        /\ ListIs(Above(Path(psMenuCurr)))
        /\ s_nSubNode = Size(Above(Path(psMenuCurr)))
        /\ Window(s_CurrIndex, s_CurrLine, s_nSubNode)
    BY <1>1 DEF InList, ListIs, Fits
  <1>5. /\ Number(Path(psMenuCurr)) \in 0..s_nSubNode - 1
        /\ s_nSubNode \in 0..INDEX_MAX
    BY <1>2, <1>4, Entries
  <1>6. s_IndexPtrStack # <<>>
    <2>1. Len(s_IndexPtrStack) = Len(Path(psMenuCurr)) - 1
      BY DEF MenuInv, WayBack
    <2>2. Len(s_IndexPtrStack) # 0
      BY <1>2, <2>1
    <2> QED BY <2>2, EmptySeq
  <1> QED BY <1>1, <1>2, <1>3, <1>4, <1>5, <1>6

-----------------------------------------------------------------------------
(* The tree has the entries of the table                                   *)

\* A list of the table has as many entries as its item has children.
LEMMA SameChildren ==
  ASSUME NEW p \in Lists
  PROVE  /\ Cardinality(Tree!Children(p)) = Size(p)
         /\ Tree!Children(p) = {} <=> Below[p] = {}
  <1> DEFINE f == [i \in Below[p] |-> Path(i)]
  <1>1. Tree!Children(p) = {Path(i) : i \in Below[p]}
    BY DEF Tree!Children, Tree!Parent, Paths, Below, Above
  <1>2. f \in Bijection(Below[p], Tree!Children(p))
    <2>1. f \in [Below[p] -> Tree!Children(p)]
      BY <1>1
    <2>2. \A i, j \in Below[p] : f[i] = f[j] => i = j
      <3>1. \A i, j \in Items : Path(i) = Path(j) => i = j
        BY Table
      <3>2. Below[p] \subseteq Items
        BY Entries
      <3> QED BY <3>1, <3>2
    <2>3. \A q \in Tree!Children(p) : \E i \in Below[p] : f[i] = q
      BY <1>1
    <2> QED BY <2>1, <2>2, <2>3 DEF Bijection, Injection, Surjection, IsInjective
  <1>3. IsFiniteSet(Below[p])
    <2>1. IsFiniteSet(Items)
      BY Table, FS_Interval
    <2>2. Below[p] \in SUBSET Items
      BY Entries
    <2> QED BY <2>1, <2>2, FS_Subset
  <1>4. ExistsBijection(Below[p], Tree!Children(p))
    BY <1>2 DEF ExistsBijection
  <1>5. Cardinality(Tree!Children(p)) = Size(p)
    BY <1>3, <1>4, FS_Bijection DEF Size
  <1> QED BY <1>1, <1>5

\* The selected item is a leaf of the tree if and only if it has a function.
LEMMA SameLeaves ==
  ASSUME NEW i \in Items
  PROVE  Path(i) \in Leaves <=> HasFunc(i)
  <1>1. \A j \in Items : Path(i) = Path(j) => i = j
    BY Table
  <1> QED BY <1>1 DEF Leaves

-----------------------------------------------------------------------------
(* UP and DOWN                                                             *)

\* node_proc moves to an entry of the list, shown on a line that fits.
LEMMA SelectStep ==
  ASSUME MenuInv, s_MenuStatus = "NODE",
         NEW index \in 0..s_nSubNode - 1, NEW line,
         Window(index, line, s_nSubNode), Select(index, line)
  PROVE  MenuInv' /\ Tree!Move(index)
  <1> DEFINE p == Above(Path(psMenuCurr))
             j == s_CurrNodeList[index]
  <1>1. psMenuCurr # 1 /\ MenuTypeOK /\ WayBack
    BY DEF MenuInv
  <1>2. /\ p \in Lists /\ p \in Seq(Nat) /\ ListIs(p) /\ s_nSubNode = Size(p)
        /\ Path(psMenuCurr) = Append(p, s_CurrIndex) /\ s_CurrIndex \in Nat
        /\ s_nSubNode \in 0..INDEX_MAX /\ ~reload
    BY <1>1, Current
  <1>3. j \in Below[p] /\ Number(Path(j)) = index
    BY <1>2 DEF ListIs
  <1>4. j \in Items /\ j # 1 /\ Above(Path(j)) = p /\ Path(j) = Append(p, index)
    BY <1>2, <1>3, Entries
  <1>5. /\ psMenuCurr' = j /\ s_CurrIndex' = index /\ s_CurrLine' = line
        /\ UNCHANGED <<s_MenuStatus, reload, s_CurrNodeList, s_nSubNode,
                       s_IndexPtrStack, s_LineStack>>
    BY DEF Select, level
  <1>6. index \in 0..255 /\ index \in Nat
    <2>1. s_nSubNode \in 0..255
      <3>1. INDEX_MAX \in 1..255
        BY Table
      <3>2. s_nSubNode \in 0..INDEX_MAX
        BY <1>2
      <3> QED BY <3>1, <3>2
    <2> QED BY <2>1
  <1>7. Len(Path(j)) = Len(Path(psMenuCurr))
    BY <1>2, <1>4, <1>6, AppendSplit
  <1>8. MenuTypeOK'
    BY <1>1, <1>4, <1>5, <1>6 DEF MenuTypeOK, Window
  <1>9. InList'
    <2>1. Above(Path(psMenuCurr)') = p
      BY <1>4, <1>5 DEF Path
    <2>2. ListIs(p)'
      BY <1>2, <1>5 DEF ListIs, Size, Below, Path, Number
    <2> QED BY <1>2, <1>3, <1>4, <1>5, <2>2 DEF InList, Fits, ListIs
  <1>10. WayBack'
    <2>1. ASSUME NEW d \in 2..Len(s_IndexPtrStack)
          PROVE  SubSeq(Path(j), 1, d) = SubSeq(Path(psMenuCurr), 1, d)
      <3>1. Len(s_IndexPtrStack) = Len(p) /\ Len(p) \in Nat
        <4>1. Len(Path(psMenuCurr)) = Len(p) + 1 /\ Len(p) \in Nat
          BY <1>2, AppendSplit, LenProperties
        <4> QED BY <1>1, <4>1 DEF WayBack
      <3>2. d \in 1..Len(p)
        BY <3>1
      <3>3. SubSeq(Append(p, index), 1, d) = SubSeq(p, 1, d)
        BY <1>2, <1>6, <3>2, Prefixes
      <3>4. SubSeq(Append(p, s_CurrIndex), 1, d) = SubSeq(p, 1, d)
        BY <1>2, <3>2, Prefixes
      <3> QED BY <1>2, <1>4, <3>3, <3>4
    <2> QED BY <1>1, <1>5, <1>7, <2>1 DEF WayBack
  <1>11. Tree!Move(index)
    <2>1. [Append(p, s_CurrIndex) EXCEPT ![Len(Append(p, s_CurrIndex))] = index]
            = Append(p, index)
      <3>1. p \in Seq(Nat) /\ s_CurrIndex \in Nat /\ index \in Nat
        BY <1>2, <1>6
      <3> HIDE DEF p
      <3> QED BY <3>1, ReplaceLast
    <2>2. Path(psMenuCurr)' = Append(p, index)
      BY <1>4, <1>5 DEF Path
    <2> QED BY <1>2, <1>5, <2>1, <2>2 DEF Tree!Move
  <1> QED BY <1>1, <1>2, <1>4, <1>5, <1>8, <1>9, <1>10, <1>11 DEF MenuInv

\* The lines that node_proc computes; a line is never beyond a short list.
LEMMA Windows ==
  ASSUME LINE_MAX = 4, NEW n \in Nat, NEW index \in 0..n - 1,
         NEW line, Window(index, line, n)
  PROVE  /\ index = 0 => line = 0
         /\ line < Least(n, LINE_MAX)
         /\ Window(0, 0, n)
         /\ Window(n - 1, (IF n < 4 THEN n ELSE LINE_MAX) - 1, n)
         /\ index # 0 => Window(index - 1, IF line > 0 THEN line - 1 ELSE 0, n)
         /\ index # n - 1 =>
              Window(index + 1, IF line < LINE_MAX - 1 /\ line < n - 1
                                THEN line + 1 ELSE line, n)
  BY DEF Window, Least

\* The position of the selected item is the same in the tree.
LEMMA SamePosition ==
  ASSUME MenuInv, s_MenuStatus = "NODE"
  PROVE  Tree!Number = s_CurrIndex /\ Tree!Siblings = s_nSubNode
  <1>1. psMenuCurr # 1
    BY DEF MenuInv
  <1>2. Above(Path(psMenuCurr)) \in Lists
        /\ s_nSubNode = Size(Above(Path(psMenuCurr)))
        /\ s_CurrIndex = Number(Path(psMenuCurr))
    BY <1>1, Current
  <1>3. Cardinality(Tree!Children(Above(Path(psMenuCurr)))) = s_nSubNode
    BY <1>2, SameChildren
  <1>4. Tree!Parent(Path(psMenuCurr)) = Above(Path(psMenuCurr))
    BY DEF Tree!Parent, Above
  <1>5. Tree!Siblings = s_nSubNode
    <2>1. \A S : Tree!Cardinality(S) = Cardinality(S)
      BY DEF Tree!Cardinality, Cardinality
    <2> QED BY <1>3, <1>4, <2>1 DEF Tree!Siblings
  <1>6. Tree!Number = s_CurrIndex
    BY <1>2 DEF Tree!Number, Number
  <1> QED BY <1>5, <1>6

\* UP goes to the entry before, or round to the last one.
LEMMA KeyUpStep ==
  ASSUME LINE_MAX = 4, MenuInv, KeyUp
  PROVE  MenuInv' /\ Tree!Up
  <1>1. s_MenuStatus = "NODE" /\ psMenuCurr # 1
    BY DEF KeyUp, MenuInv
  <1>2. s_nSubNode \in Nat /\ s_CurrIndex \in 0..s_nSubNode - 1
        /\ Window(s_CurrIndex, s_CurrLine, s_nSubNode)
    BY <1>1, Current
  <1>3. /\ s_CurrIndex = 0 => s_CurrLine = 0
        /\ Window(s_nSubNode - 1, BottomLine, s_nSubNode)
        /\ s_CurrIndex # 0 => Window(s_CurrIndex - 1, LineAbove, s_nSubNode)
    BY <1>2, Windows DEF BottomLine, LineAbove
  <1>4. Tree!Number = s_CurrIndex /\ Tree!Siblings = s_nSubNode
    BY <1>1, SamePosition
  <1>5. CASE s_CurrIndex = 0
    <2>1. Select(s_nSubNode - 1, BottomLine)
      BY <1>3, <1>5 DEF KeyUp
    <2>2. s_nSubNode - 1 \in 0..s_nSubNode - 1
      BY <1>2
    <2>3. MenuInv' /\ Tree!Move(s_nSubNode - 1)
      BY <1>1, <1>3, <2>1, <2>2, SelectStep
    <2> QED BY <1>4, <1>5, <2>3 DEF Tree!Up
  <1>6. CASE s_CurrIndex # 0
    <2>1. Select(s_CurrIndex - 1, LineAbove)
      BY <1>6 DEF KeyUp
    <2>2. s_CurrIndex - 1 \in 0..s_nSubNode - 1
      BY <1>2, <1>6
    <2>3. MenuInv' /\ Tree!Move(s_CurrIndex - 1)
      BY <1>1, <1>3, <1>6, <2>1, <2>2, SelectStep
    <2> QED BY <1>4, <1>6, <2>3 DEF Tree!Up
  <1> QED BY <1>5, <1>6

\* DOWN goes to the entry after, or round to the first one.
LEMMA KeyDownStep ==
  ASSUME LINE_MAX = 4, MenuInv, KeyDown
  PROVE  MenuInv' /\ Tree!Down
  <1>1. s_MenuStatus = "NODE" /\ psMenuCurr # 1
    BY DEF KeyDown, MenuInv
  <1>2. s_nSubNode \in Nat /\ s_CurrIndex \in 0..s_nSubNode - 1
        /\ Window(s_CurrIndex, s_CurrLine, s_nSubNode)
    BY <1>1, Current
  <1>3. /\ Window(0, 0, s_nSubNode)
        /\ s_CurrIndex # s_nSubNode - 1 =>
             Window(s_CurrIndex + 1, LineBelow, s_nSubNode)
    BY <1>2, Windows DEF LineBelow
  <1>4. Tree!Number = s_CurrIndex /\ Tree!Siblings = s_nSubNode
    BY <1>1, SamePosition
  <1>5. CASE s_CurrIndex = s_nSubNode - 1
    <2>1. Select(0, 0)
      BY <1>5 DEF KeyDown
    <2>2. 0 \in 0..s_nSubNode - 1
      BY <1>2
    <2>3. MenuInv' /\ Tree!Move(0)
      BY <1>1, <1>3, <2>1, <2>2, SelectStep
    <2> QED BY <1>4, <1>5, <2>3 DEF Tree!Down
  <1>6. CASE s_CurrIndex # s_nSubNode - 1
    <2>1. s_CurrIndex < s_nSubNode - 1 /\ s_CurrIndex + 1 \in 0..s_nSubNode - 1
      BY <1>2, <1>6
    <2>2. Select(s_CurrIndex + 1, LineBelow)
      BY <1>6, <2>1 DEF KeyDown
    <2>3. MenuInv' /\ Tree!Move(s_CurrIndex + 1)
      BY <1>1, <1>3, <1>6, <2>1, <2>2, SelectStep
    <2> QED BY <1>4, <1>6, <2>3 DEF Tree!Down
  <1> QED BY <1>5, <1>6

-----------------------------------------------------------------------------
(* A list is opened                                                        *)

\* jump2menu opens a list on its first entry and remembers the way back.
LEMMA JumpStep ==
  ASSUME MenuInv, NEW p \in Lists, Below[p] # {},
         Len(p) = Len(Path(psMenuCurr)),
         psMenuCurr # 1 => p = Path(psMenuCurr),
         jump2menu(p)
  PROVE  /\ MenuInv'
         /\ s_MenuStatus' = "NODE" /\ reload' = FALSE
         /\ Path(psMenuCurr)' = Append(p, 0)
  <1> DEFINE j == NodeList(p)[0]
  <1>1. MenuTypeOK /\ WayBack /\ psMenuCurr \in Items
    BY DEF MenuInv, MenuTypeOK
  <1>2. p \in Seq(Nat) /\ Len(p) \in Nat
    BY Entries, LenProperties
  <1>3. Size(p) \in 0..INDEX_MAX /\ 0 \in 0..Size(p) - 1
    <2>1. PICK i \in Below[p] : TRUE
      OBVIOUS
    <2>2. Number(Path(i)) \in 0..Size(p) - 1 /\ Size(p) \in 0..INDEX_MAX
      BY Entries
    <2> QED BY <2>2
  <1>4. j \in Below[p] /\ Number(Path(j)) = 0
    BY <1>1, <1>3, ListFilled
  <1>5. /\ j \in Items /\ j # 1 /\ Above(Path(j)) = p /\ Path(j) = Append(p, 0)
        /\ Len(Path(j)) \in 2..STAGE_MAX /\ Len(Path(j)) = Len(p) + 1
    <2>1. j \in Items /\ j # 1 /\ Above(Path(j)) = p /\ Path(j) = Append(p, 0)
      BY <1>4, Entries
    <2>2. Len(Path(j)) \in 2..STAGE_MAX
      BY <2>1, ItemPath
    <2>3. Len(Append(p, 0)) = Len(p) + 1
      BY <1>2, AppendSplit
    <2> QED BY <2>1, <2>2, <2>3
  <1>6. /\ s_IndexPtrStack \in Seq(Items) /\ s_LineStack \in Seq(0..LINE_MAX - 1)
        /\ Len(s_IndexPtrStack) = Len(s_LineStack)
        /\ Len(s_IndexPtrStack) \in Nat /\ Len(s_IndexPtrStack) < STAGE_MAX
        /\ s_CurrLine \in 0..LINE_MAX - 1
    BY <1>1, LenProperties DEF MenuTypeOK
  <1>7. /\ psMenuCurr' = j /\ s_CurrIndex' = 0 /\ s_CurrLine' = 0
        /\ s_MenuStatus' = "NODE" /\ reload' = FALSE
        /\ s_CurrNodeList' = NodeList(p) /\ s_nSubNode' = Size(p)
        /\ s_IndexPtrStack' = Append(s_IndexPtrStack, psMenuCurr)
        /\ s_LineStack' = Append(s_LineStack, s_CurrLine)
    BY <1>6 DEF jump2menu, update_node_list, push, Size
  <1>8. /\ s_IndexPtrStack' \in Seq(Items) /\ s_LineStack' \in Seq(0..LINE_MAX - 1)
        /\ Len(s_IndexPtrStack') = Len(s_IndexPtrStack) + 1
        /\ Len(s_LineStack') = Len(s_IndexPtrStack) + 1
        /\ \A d \in 1..Len(s_IndexPtrStack) :
             /\ s_IndexPtrStack'[d] = s_IndexPtrStack[d]
             /\ s_LineStack'[d] = s_LineStack[d]
        /\ s_IndexPtrStack'[Len(s_IndexPtrStack) + 1] = psMenuCurr
        /\ s_LineStack'[Len(s_IndexPtrStack) + 1] = s_CurrLine
    BY <1>1, <1>6, <1>7, AppendProperties
  <1>9. Len(s_IndexPtrStack) + 1 = Len(p)
    <2>1. Len(s_IndexPtrStack) = Len(p) - 1
      BY <1>1 DEF WayBack
    <2> QED BY <1>2, <1>6, <2>1
  <1>10. MenuTypeOK'
    <2>1. s_CurrNodeList' \in [0..INDEX_MAX - 1 -> 0..Len(s_Menu)]
      BY <1>1, <1>7, ListFilled
    <2>2. Len(s_IndexPtrStack') < STAGE_MAX
      <3>1. STAGE_MAX \in Nat
        BY Table
      <3> QED BY <1>2, <1>5, <1>8, <1>9, <3>1
    <2>3. 0 \in 0..255 /\ 0 \in 0..LINE_MAX - 1
      <3>1. LINE_MAX \in Nat \ {0}
        BY Table
      <3> QED BY <3>1
    <2> QED BY <1>3, <1>5, <1>7, <1>8, <2>1, <2>2, <2>3 DEF MenuTypeOK, Items
  <1>11. InList'
    <2>1. Window(0, 0, Size(p))
      <3>1. LINE_MAX \in Nat \ {0}
        BY Table
      <3>2. Size(p) \in Nat
        BY <1>3
      <3> QED BY <3>1, <3>2 DEF Window, Least
    <2>2. ListIs(p)'
      BY <1>1, <1>7, ListFilled DEF ListIs, Size, Below, Path, Number
    <2> QED BY <1>4, <1>5, <1>7, <2>1, <2>2 DEF InList, Fits, ListIs
  <1>12. WayBack'
    <2>1. Len(s_IndexPtrStack') = Len(Path(j)) - 1
      BY <1>2, <1>5, <1>8, <1>9
    <2>2. s_IndexPtrStack'[1] = 1
      <3>1. CASE s_IndexPtrStack = <<>>
        <4>1. Len(s_IndexPtrStack) = 0
          BY <3>1
        <4>2. Len(Path(psMenuCurr)) = 1
          <5>1. 0 + 1 = 1
            OBVIOUS
          <5> QED BY <1>9, <4>1, <5>1, Zenon
        <4> QED BY <1>1, <1>8, <4>1, <4>2, Root
      <3>2. CASE s_IndexPtrStack # <<>>
        <4>1. 1 \in 1..Len(s_IndexPtrStack)
          BY <1>6, <3>2, EmptySeq
        <4> QED BY <1>1, <1>8, <3>2, <4>1 DEF WayBack
      <3> QED BY <3>1, <3>2
    <2>3. ASSUME NEW d \in 2..Len(s_IndexPtrStack')
          PROVE  /\ Path(s_IndexPtrStack'[d]) = SubSeq(Path(j), 1, d)
                 /\ Fits(s_IndexPtrStack'[d], s_LineStack'[d])
      <3>1. d \in 1..Len(p) /\ Len(p) # 1
        <4>1. Len(s_IndexPtrStack') = Len(p)
          BY <1>8, <1>9
        <4>2. \A n \in Nat : \A e \in 2..n : e \in 1..n /\ n # 1
          OBVIOUS
        <4> QED BY <1>2, <4>1, <4>2, Zenon
      <3>2. psMenuCurr # 1 /\ p = Path(psMenuCurr)
        BY <1>1, <3>1, Root
      <3>3. SubSeq(Path(j), 1, d) = SubSeq(p, 1, d)
        BY <1>2, <1>5, <3>1, Prefixes
      <3>4. CASE d = Len(p)
        <4>1. s_IndexPtrStack'[d] = psMenuCurr /\ s_LineStack'[d] = s_CurrLine
          BY <1>8, <1>9, <3>4
        <4>2. SubSeq(p, 1, d) = p
          BY <1>2, <3>4, SubSeqFull
        <4>3. Fits(psMenuCurr, s_CurrLine)
          BY <3>2 DEF MenuInv, InList
        <4> QED BY <3>2, <3>3, <4>1, <4>2, <4>3
      <3>5. CASE d # Len(p)
        <4>1. d \in 2..Len(s_IndexPtrStack) /\ d \in 1..Len(s_IndexPtrStack)
          BY <1>6, <1>8, <1>9, <3>5
        <4>2. /\ Path(s_IndexPtrStack[d]) = SubSeq(Path(psMenuCurr), 1, d)
              /\ Fits(s_IndexPtrStack[d], s_LineStack[d])
          BY <1>1, <4>1 DEF WayBack
        <4> QED BY <1>8, <3>2, <3>3, <4>1, <4>2
      <3> QED BY <3>4, <3>5
    <2> QED BY <1>7, <2>1, <2>2, <2>3 DEF WayBack, Fits, Path
  <1>13. Path(psMenuCurr)' = Append(p, 0)
    BY <1>5, <1>7 DEF Path
  <1> QED BY <1>5, <1>7, <1>10, <1>11, <1>12, <1>13 DEF MenuInv

\* OK: the function of the item gets the keys, or else its list is opened.
LEMMA KeyOkStep ==
  ASSUME MenuInv, KeyOk, menu' # menu
  PROVE  MenuInv' /\ (Tree!Enter \/ Tree!Open \/ Tree!Ignore)
  <1> DEFINE p == Path(psMenuCurr)
  <1>1. s_MenuStatus = "NODE" /\ psMenuCurr # 1 /\ psMenuCurr \in Items
    BY DEF KeyOk, MenuInv, MenuTypeOK
  <1>2. s_IndexPtrStack # <<>> /\ ~reload /\ p \in Lists
    BY <1>1, Current, Table
  <1>3. CASE HasFunc(psMenuCurr)
    <2>1. s_MenuStatus' = "LEAF" /\ UNCHANGED <<reload, place, level>>
      BY <1>2, <1>3 DEF KeyOk
    <2>2. MenuInv'
      BY <1>1, <2>1
         DEF MenuInv, MenuTypeOK, InList, ListIs, Fits, WayBack, place, level,
             Path, Above, Number, Size, Below, Window
    <2>3. p \in Leaves
      BY <1>1, <1>3, SameLeaves
    <2>4. Tree!Open
      BY <1>1, <1>2, <2>1, <2>3 DEF Tree!Open, place, Path
    <2> QED BY <2>2, <2>4
  <1>4. CASE ~HasFunc(psMenuCurr)
    <2>1. jump2menu(p)
      BY <1>4 DEF KeyOk, menu_default
    <2>2. p \notin Leaves
      BY <1>1, <1>4, SameLeaves
    <2>3. CASE Below[p] = {}
      <3>1. NodeList(p) = s_CurrNodeList
        BY <1>2, <2>3, ListFilled DEF MenuInv
      <3>2. menu' = menu
        BY <1>1, <1>2, <2>1, <2>3, <3>1
           DEF jump2menu, update_node_list, menu, place, level, MenuInv, MenuTypeOK
      <3> QED BY <3>2
    <2>4. CASE Below[p] # {}
      <3>1. /\ MenuInv' /\ s_MenuStatus' = "NODE" /\ reload' = FALSE
            /\ Path(psMenuCurr)' = Append(p, 0)
        BY <1>2, <2>1, <2>4, JumpStep
      <3>2. Tree!Children(p) # {}
        BY <1>2, <2>4, SameChildren
      <3> QED BY <1>1, <1>2, <2>2, <3>1, <3>2 DEF Tree!Enter
    <2> QED BY <2>3, <2>4
  <1> QED BY <1>3, <1>4

\* The functions know the main display by its index string.
LEMMA AtMain ==
  ASSUME MenuInv
  PROVE  Path(psMenuCurr) = <<0>> <=> psMenuCurr = 1
  <1>1. psMenuCurr \in Items
    BY DEF MenuInv, MenuTypeOK
  <1> QED BY <1>1, Table

\* OK on the main display opens the list of the user.
LEMMA MainOkStep ==
  ASSUME MenuInv, MainOk
  PROVE  MenuInv' /\ Tree!Enter
  <1>1. psMenuCurr = 1 /\ s_MenuStatus = "LEAF" /\ ~reload
        /\ Path(psMenuCurr) = <<0>> /\ jump2menu(<<0>>)
    BY AtMain DEF MainOk, Running, menu_default
  <1>2. <<0>> \in Lists /\ Below[<<0>>] # {}
    BY Table, MenuAssumption DEF WellFormed
  <1>3. /\ MenuInv' /\ s_MenuStatus' = "NODE" /\ reload' = FALSE
        /\ Path(psMenuCurr)' = Append(<<0>>, 0)
    BY <1>1, <1>2, JumpStep
  <1>4. Tree!Children(<<0>>) # {}
    BY <1>2, SameChildren
  <1> QED BY <1>1, <1>3, <1>4 DEF Tree!Enter, Tree!Main

\* The right password opens the list of the manufacturer.
LEMMA PasswordRightStep ==
  ASSUME MenuInv, PasswordRight
  PROVE  MenuInv' /\ Tree!Accept
  <1>1. psMenuCurr = 1 /\ s_MenuStatus = "LEAF" /\ reload /\ jump2menu(<<1>>)
    BY DEF PasswordRight, MenuInv
  <1>2. <<1>> \in Lists /\ Below[<<1>>] # {}
    BY Table, MenuAssumption DEF WellFormed
  <1>3. Len(<<1>>) = Len(Path(psMenuCurr))
    <2>1. Len(<<1>>) = 1
      OBVIOUS
    <2> QED BY <1>1, <2>1, Table
  <1>4. /\ MenuInv' /\ s_MenuStatus' = "NODE" /\ reload' = FALSE
        /\ Path(psMenuCurr)' = Append(<<1>>, 0)
    BY <1>1, <1>2, <1>3, JumpStep
  <1>5. Append(<<1>>, 0) = <<1, 0>>
    <2>1. <<1>> \in Seq(Nat) /\ Len(<<1>>) = 1 /\ <<1>>[1] = 1
      OBVIOUS
    <2>2. /\ <<1, 0>> \in Seq(Nat) /\ Len(<<1, 0>>) = 2
          /\ <<1, 0>>[1] = 1 /\ <<1, 0>>[2] = 0
      OBVIOUS
    <2> DEFINE a == Append(<<1>>, 0)
    <2>3. a \in Seq(Nat) /\ Len(a) = 2 /\ a[1] = 1 /\ a[2] = 0
      BY <2>1, AppendProperties
    <2> HIDE DEF a
    <2>4. \A d \in 1..Len(a) : a[d] = <<1, 0>>[d]
      BY <2>2, <2>3
    <2>5. a = <<1, 0>>
      BY <2>2, <2>3, <2>4, SeqEqual
    <2> QED BY <2>5 DEF a
  <1> QED BY <1>1, <1>4, <1>5 DEF Tree!Accept

-----------------------------------------------------------------------------
(* A list is left                                                          *)

\* What is left of a stack when its top is taken off.
LEMMA Popping ==
  ASSUME NEW S, NEW s \in Seq(S), s # <<>>
  PROVE  /\ Len(s) \in Nat \ {0} /\ Popped(s) \in Seq(S)
         /\ Len(Popped(s)) = Len(s) - 1
         /\ Top(s) \in S
         /\ \A d \in 1..Len(s) - 1 : Popped(s)[d] = s[d]
  <1>1. Len(s) \in Nat \ {0}
    BY EmptySeq
  <1>2. Popped(s) = Above(s) /\ Top(s) = Number(s)
    BY DEF Popped, Above, Top, Number
  <1>3. /\ Above(s) \in Seq(S) /\ Len(Above(s)) = Len(s) - 1
        /\ Number(s) \in S /\ s = Append(Above(s), Number(s))
    BY <1>1, SplitLast
  <1>4. \A d \in 1..Len(Above(s)) : Append(Above(s), Number(s))[d] = Above(s)[d]
    BY <1>3, AppendProperties
  <1> QED BY <1>1, <1>2, <1>3, <1>4

\* MENU goes back to the item above, into the list it is an entry of.
LEMMA KeyMenuStep ==
  ASSUME MenuInv, KeyMenu
  PROVE  MenuInv' /\ Tree!Leave
  <1> DEFINE L == Len(s_IndexPtrStack)
             i == psMenuCurr
             j == Top(s_IndexPtrStack)
  <1>1. s_MenuStatus = "NODE" /\ psMenuCurr # 1 /\ MenuTypeOK /\ WayBack
    BY DEF KeyMenu, MenuInv
  <1>2. Path(i) \in Seq(Nat) /\ Len(Path(i)) \in 2..STAGE_MAX /\ ~reload
        /\ s_IndexPtrStack # <<>> /\ Len(Path(i)) > 0 /\ Len(Path(i)) \in Nat
    <2>1. Path(i) \in Seq(Nat) /\ Len(Path(i)) \in 2..STAGE_MAX /\ ~reload
          /\ s_IndexPtrStack # <<>>
      BY <1>1, Current
    <2> QED BY <2>1, Table
  <1>3. /\ s_IndexPtrStack \in Seq(Items) /\ s_LineStack \in Seq(0..LINE_MAX - 1)
        /\ Len(s_LineStack) = L
    BY <1>1 DEF MenuTypeOK
  <1>4. s_LineStack # <<>>
    BY <1>2, <1>3, EmptySeq
  <1>5. /\ L \in Nat \ {0} /\ j \in Items
        /\ Popped(s_IndexPtrStack) \in Seq(Items)
        /\ Len(Popped(s_IndexPtrStack)) = L - 1
        /\ \A d \in 1..L - 1 : Popped(s_IndexPtrStack)[d] = s_IndexPtrStack[d]
    BY <1>2, <1>3, Popping
  <1>6. /\ Popped(s_LineStack) \in Seq(0..LINE_MAX - 1)
        /\ Len(Popped(s_LineStack)) = L - 1
        /\ Top(s_LineStack) \in 0..LINE_MAX - 1
        /\ \A d \in 1..L - 1 : Popped(s_LineStack)[d] = s_LineStack[d]
    BY <1>3, <1>4, Popping
  <1>7. /\ psMenuCurr' = j
        /\ s_IndexPtrStack' = Popped(s_IndexPtrStack)
        /\ s_LineStack' = Popped(s_LineStack)
        /\ s_CurrLine' = Top(s_LineStack)
        /\ reload' = reload
        /\ BackTo(j)
    BY DEF KeyMenu
  <1>8. L = Len(Path(i)) - 1
    BY <1>1 DEF WayBack
  <1>9. CASE L = 1
    <2>1. j = 1
      BY <1>1, <1>2, <1>9 DEF WayBack, Top
    <2>2. Path(j) = <<0>> /\ Len(Path(j)) = 1
      BY <2>1, Table
    <2>3. /\ s_MenuStatus' = "LEAF" /\ s_nSubNode' = 1
          /\ s_CurrNodeList' = [s_CurrNodeList EXCEPT ![0] = j]
          /\ s_CurrIndex' \in Garbage
      BY <1>7, <2>2 DEF BackTo
    <2>4. MenuTypeOK'
      <3>1. s_CurrNodeList' \in [0..INDEX_MAX - 1 -> 0..Len(s_Menu)]
        <4>1. j \in 0..Len(s_Menu)
          BY <1>5, Table
        <4> QED BY <1>1, <2>3, <4>1 DEF MenuTypeOK
      <3>2. s_CurrIndex' \in 0..255
        BY <2>3, Table
      <3>3. s_nSubNode' \in 0..INDEX_MAX
        BY <2>3, Table
      <3>4. Len(s_IndexPtrStack') < STAGE_MAX
        <4>1. L < STAGE_MAX /\ STAGE_MAX \in Nat
          BY <1>1, Table DEF MenuTypeOK
        <4> QED BY <1>5, <1>7, <4>1
      <3> QED BY <1>1, <1>5, <1>6, <1>7, <2>3, <3>1, <3>2, <3>3, <3>4
            DEF MenuTypeOK, Items
    <2>5. WayBack'
      <3>1. Len(s_IndexPtrStack') = 0 /\ Len(Path(j)) - 1 = 0
        BY <1>5, <1>7, <1>9, <2>2
      <3>2. s_IndexPtrStack' = <<>>
        BY <1>5, <1>7, <3>1, EmptySeq
      <3> QED BY <1>7, <3>1, <3>2 DEF WayBack, Path
    <2>6. MenuInv'
      BY <1>2, <1>7, <2>1, <2>3, <2>4, <2>5 DEF MenuInv
    <2>7. Tree!Leave
      <3>1. Len(Path(i)) = 2
        <4>1. \A m \in Nat : m - 1 = 1 => m = 2
          OBVIOUS
        <4> QED BY <1>2, <1>8, <1>9, <4>1
      <3>2. Path(psMenuCurr)' = <<0>>
        BY <1>7, <2>2 DEF Path
      <3> QED BY <1>1, <1>2, <1>7, <2>3, <3>1, <3>2 DEF Tree!Leave, Tree!Main
    <2> QED BY <2>6, <2>7
  <1>10. CASE L # 1
    <2> DEFINE p == Above(Path(j))
    <2>1. L \in 2..L /\ L \in 1..Len(Path(i)) - 1
      BY <1>2, <1>5, <1>8, <1>10
    <2>2. Path(j) = Above(Path(i)) /\ Fits(j, Top(s_LineStack))
      <3>1. /\ Path(s_IndexPtrStack[L]) = SubSeq(Path(i), 1, L)
            /\ Fits(s_IndexPtrStack[L], s_LineStack[L])
        BY <1>1, <2>1 DEF WayBack
      <3> QED BY <1>3, <1>8, <3>1 DEF Top, Above
    <2>3. Len(Path(j)) = L
      <3>1. Len(Above(Path(i))) = Len(Path(i)) - 1
        BY <1>2, SplitLast
      <3> QED BY <1>8, <2>2, <3>1
    <2>4. j # 1 /\ Len(Path(j)) # 1
      BY <1>5, <1>10, <2>3, Root
    <2>5. p \in Lists /\ j \in Below[p] /\ Path(j) \in Seq(Nat)
      BY <1>5, <2>4, ItemPath, Table
    <2>6. Number(Path(j)) \in 0..Size(p) - 1 /\ Size(p) \in 0..INDEX_MAX
      BY <2>5, Entries
    <2>7. /\ s_MenuStatus' = s_MenuStatus
          /\ s_CurrNodeList' = NodeList(p) /\ s_nSubNode' = Size(p)
          /\ s_CurrIndex' = Number(Path(j))
      BY <1>7, <2>4, <2>5 DEF BackTo, update_node_list, Size
    <2>8. /\ NodeList(p) \in [0..INDEX_MAX - 1 -> 0..Len(s_Menu)]
          /\ \A k \in 0..Size(p) - 1 : /\ NodeList(p)[k] \in Below[p]
                                       /\ Number(Path(NodeList(p)[k])) = k
      BY <1>1, <2>5, ListFilled
    <2>9. MenuTypeOK'
      <3>1. Number(Path(j)) \in 0..255
        <4>1. INDEX_MAX \in 1..255
          BY Table
        <4>2. \A m \in 0..Size(p) - 1 : m \in 0..255
          BY <2>6, <4>1
        <4> QED BY <2>6, <4>2
      <3>2. Len(s_IndexPtrStack') < STAGE_MAX
        <4>1. L < STAGE_MAX /\ STAGE_MAX \in Nat
          BY <1>1, Table DEF MenuTypeOK
        <4> QED BY <1>5, <1>7, <4>1
      <3> QED BY <1>1, <1>5, <1>6, <1>7, <2>6, <2>7, <2>8, <3>1, <3>2
            DEF MenuTypeOK, Items
    <2>10. InList'
      <3>1. s_nSubNode' = Size(Above(Path(psMenuCurr')))
        BY <1>7, <2>7
      <3>2. \A k \in 0..Size(Above(Path(psMenuCurr'))) - 1 :
              /\ s_CurrNodeList'[k] \in Below[Above(Path(psMenuCurr'))]
              /\ Number(Path(s_CurrNodeList'[k])) = k
        BY <1>7, <2>7, <2>8
      <3>3. s_CurrIndex' = Number(Path(psMenuCurr'))
        BY <1>7, <2>7
      <3>4. Fits(psMenuCurr', s_CurrLine')
        BY <1>7, <2>2
      <3> QED BY <3>1, <3>2, <3>3, <3>4
            DEF InList, ListIs, Fits, Size, Below, Path, Number, Above
    <2>11. WayBack'
      <3>1. Len(s_IndexPtrStack') = Len(Path(j)) - 1
        BY <1>5, <1>7, <2>3
      <3>2. s_IndexPtrStack'[1] = 1
        <4>1. 1 \in 1..L - 1
          BY <1>5, <1>10
        <4> QED BY <1>1, <1>2, <1>5, <1>7, <4>1 DEF WayBack
      <3>3. ASSUME NEW d \in 2..Len(s_IndexPtrStack')
            PROVE  /\ Path(s_IndexPtrStack'[d]) = SubSeq(Path(j), 1, d)
                   /\ Fits(s_IndexPtrStack'[d], s_LineStack'[d])
        <4>1. d \in 1..L - 1 /\ d \in 2..L
          BY <1>5, <1>7
        <4>2. d \in 1..Len(Path(i)) - 1
          BY <1>2, <1>8, <4>1
        <4>3. SubSeq(Path(j), 1, d) = SubSeq(Path(i), 1, d)
          BY <1>2, <2>2, <4>2, PrefixOfAbove
        <4>4. /\ Path(s_IndexPtrStack[d]) = SubSeq(Path(i), 1, d)
              /\ Fits(s_IndexPtrStack[d], s_LineStack[d])
          BY <1>1, <4>1 DEF WayBack
        <4> QED BY <1>5, <1>6, <1>7, <4>1, <4>3, <4>4
      <3> QED BY <1>7, <3>1, <3>2, <3>3 DEF WayBack, Fits, Path
    <2>12. MenuInv'
      BY <1>2, <1>7, <2>4, <2>9, <2>10, <2>11 DEF MenuInv
    <2>13. Tree!Leave
      <3>1. Len(Path(i)) # 2
        BY <1>2, <1>8, <1>10
      <3>2. Path(psMenuCurr)' = Tree!Parent(Path(i))
        BY <1>7, <2>2 DEF Tree!Parent, Above, Path
      <3> QED BY <1>1, <1>2, <1>7, <2>7, <3>1, <3>2 DEF Tree!Leave
    <2> QED BY <2>12, <2>13
  <1> QED BY <1>9, <1>10

-----------------------------------------------------------------------------
(* The password, the functions, and the start                              *)

\* Only who has the keys changes.
LEMMA HandOver ==
  ASSUME MenuInv, UNCHANGED <<place, level>>,
         s_MenuStatus' \in {"NODE", "LEAF"}, reload' \in BOOLEAN,
         psMenuCurr = 1 => s_MenuStatus' = "LEAF",
         reload' => psMenuCurr = 1
  PROVE  MenuInv' /\ Path(psMenuCurr)' = Path(psMenuCurr)
  <1>1. UNCHANGED <<psMenuCurr, s_CurrIndex, s_CurrLine, s_CurrNodeList,
                    s_nSubNode, s_IndexPtrStack, s_LineStack>>
    BY DEF place, level
  <1>2. MenuTypeOK'
    BY <1>1 DEF MenuInv, MenuTypeOK, Items
  <1>3. (psMenuCurr # 1 => InList)' /\ WayBack'
    BY <1>1 DEF MenuInv, InList, ListIs, Fits, WayBack, Path, Above, Number,
                Size, Below, Window
  <1> QED BY <1>1, <1>2, <1>3 DEF MenuInv, Path

\* MENU with OK asks for the password.
LEMMA MainMenuAndOkStep ==
  ASSUME MenuInv, MainMenuAndOk
  PROVE  MenuInv' /\ Tree!AskPassword
  <1>1. /\ Path(psMenuCurr) = <<0>> /\ psMenuCurr = 1
        /\ s_MenuStatus = "LEAF" /\ ~reload /\ s_MenuStatus' = "LEAF" /\ reload'
        /\ reload' \in BOOLEAN /\ UNCHANGED <<place, level>>
    BY AtMain DEF MainMenuAndOk, Running
  <1>2. MenuInv' /\ Path(psMenuCurr)' = Path(psMenuCurr)
    BY <1>1, HandOver
  <1> QED BY <1>1, <1>2 DEF Tree!AskPassword, Tree!Main

\* A wrong password leads back to the main display.
LEMMA PasswordWrongStep ==
  ASSUME MenuInv, PasswordWrong
  PROVE  MenuInv' /\ Tree!Refuse
  <1>1. /\ s_MenuStatus = "LEAF" /\ reload /\ s_MenuStatus' = "LEAF" /\ ~reload'
        /\ reload' \in BOOLEAN /\ UNCHANGED <<place, level>>
    BY DEF PasswordWrong
  <1>2. MenuInv' /\ Path(psMenuCurr)' = Path(psMenuCurr)
    BY <1>1, HandOver
  <1> QED BY <1>1, <1>2 DEF Tree!Refuse

\* A function gives the keys back to the list it was called from.
LEMMA LeafExitStep ==
  ASSUME MenuInv, LeafExit
  PROVE  MenuInv' /\ Tree!Close
  <1>1. /\ Path(psMenuCurr) # <<0>> /\ psMenuCurr # 1
        /\ s_MenuStatus = "LEAF" /\ ~reload /\ s_MenuStatus' = "NODE" /\ ~reload'
        /\ reload' \in BOOLEAN /\ UNCHANGED <<place, level>>
    BY AtMain DEF LeafExit, Running, MenuInv, MenuTypeOK
  <1>2. MenuInv' /\ Path(psMenuCurr)' = Path(psMenuCurr)
    BY <1>1, HandOver
  <1> QED BY <1>1, <1>2 DEF Tree!Close, Tree!Main

\* The controller starts at the main display.
LEMMA InitEstablishes == MenuInit => MenuInv /\ Tree!Init
  <1> SUFFICES ASSUME MenuInit PROVE MenuInv /\ Tree!Init
    OBVIOUS
  <1>1. /\ s_MenuStatus = "LEAF" /\ reload = FALSE /\ psMenuCurr = 1
        /\ s_CurrIndex = 0 /\ s_CurrLine = 0 /\ s_nSubNode = 0
        /\ s_CurrNodeList = NoList
        /\ s_IndexPtrStack = <<>> /\ s_LineStack = <<>>
    BY DEF MenuInit
  <1>2. Path(1) = <<0>> /\ Len(Path(1)) = 1 /\ 1 \in Items
    BY Table
  <1>3. LINE_MAX \in Nat \ {0} /\ INDEX_MAX \in 1..255 /\ Len(s_Menu) \in Nat
    BY Table
  <1>4. 1 < STAGE_MAX
    <2>1. PICK i \in Below[<<0>>] : TRUE
      BY MenuAssumption DEF WellFormed
    <2>2. i \in Items /\ i # 1
      BY Entries, Table
    <2> QED BY <2>2, ItemPath, Table
  <1>5. MenuTypeOK
    <2>1. NoList \in [0..INDEX_MAX - 1 -> 0..Len(s_Menu)]
      BY <1>3 DEF NoList
    <2>2. <<>> \in Seq(Items) /\ <<>> \in Seq(0..LINE_MAX - 1) /\ Len(<<>>) = 0
      OBVIOUS
    <2>3. 0 < STAGE_MAX
      BY <1>4, Table
    <2>4. 0 \in 0..INDEX_MAX /\ 0 \in 0..255 /\ 0 \in 0..LINE_MAX - 1
      BY <1>3
    <2> QED BY <1>1, <1>2, <2>1, <2>2, <2>3, <2>4 DEF MenuTypeOK
  <1>6. WayBack
    <2>1. Len(<<>>) = 0
      OBVIOUS
    <2> QED BY <1>1, <1>2, <2>1 DEF WayBack
  <1>7. Tree!Init
    BY <1>1, <1>2 DEF Tree!Init, Tree!Main
  <1> QED BY <1>1, <1>5, <1>6, <1>7 DEF MenuInv

\* ... and so it does after the power was off.
LEMMA RestartStep ==
  ASSUME menu_var_init
  PROVE  MenuInv' /\ Tree!Restart
  <1>1. MenuInit'
    BY DEF menu_var_init, MenuInit, NoList
  <1>2. MenuInit' => MenuInv'
    BY InitEstablishes, PTL
  <1>3. Path(psMenuCurr)' = <<0>> /\ s_MenuStatus' = "LEAF" /\ reload' = FALSE
    BY Table DEF menu_var_init, Path
  <1> QED BY <1>1, <1>2, <1>3 DEF Tree!Restart, Tree!Main

-----------------------------------------------------------------------------
(* The theorems                                                            *)

\* Every step keeps the invariant.
LEMMA InvStep ==
  ASSUME LINE_MAX = 4, MenuInv, [MenuNext]_menu
  PROVE  MenuInv'
  <1>1. CASE menu' = menu
    <2>1. UNCHANGED <<place, level>> /\ s_MenuStatus' = s_MenuStatus
          /\ reload' = reload
      BY <1>1 DEF menu
    <2> QED BY <2>1, HandOver DEF MenuInv, MenuTypeOK
  <1>2. CASE menu' # menu /\ MenuNext
    BY <1>2, KeyUpStep, KeyDownStep, KeyOkStep, KeyMenuStep, MainOkStep,
       MainMenuAndOkStep, PasswordRightStep, PasswordWrongStep, LeafExitStep,
       RestartStep DEF MenuNext, Walk
  <1> QED BY <1>1, <1>2

\* The invariant holds.
LEMMA AlwaysMenuInv ==
  ASSUME LINE_MAX = 4
  PROVE  MenuSpec => []MenuInv
  <1>1. MenuInit => MenuInv
    BY InitEstablishes
  <1>2. MenuInv /\ [MenuNext]_menu => MenuInv'
    BY InvStep
  <1> QED BY <1>1, <1>2, PTL DEF MenuSpec

(* Every variable of menu_frame.c keeps its range; in particular the two   *)
(* stacks go together and never overflow, so that push never refuses.      *)
THEOREM MenuTypeCorrect ==
  ASSUME LINE_MAX = 4
  PROVE  MenuSpec => []MenuTypeOK
  <1>1. MenuInv => MenuTypeOK
    BY DEF MenuInv
  <1> QED BY <1>1, AlwaysMenuInv, PTL

(* Each line that disp_node draws is the entry that is that far from the   *)
(* current one, on whatever way the user came.                             *)
THEOREM AlwaysShown ==
  ASSUME LINE_MAX = 4
  PROVE  MenuSpec => []Shown
  <1>1. MenuInv => Shown
    <2> SUFFICES ASSUME MenuInv, s_MenuStatus = "NODE"
                 PROVE  /\ s_CurrLine \in DOMAIN Rows /\ s_CurrIndex < s_nSubNode
                        /\ psMenuCurr = s_CurrNodeList[s_CurrIndex]
                        /\ \A r \in DOMAIN Rows :
                             /\ s_CurrIndex + (r - s_CurrLine) \in 0..s_nSubNode - 1
                             /\ Rows[r] = s_CurrNodeList[s_CurrIndex + (r - s_CurrLine)]
      BY DEF Shown
    <2> DEFINE p == Above(Path(psMenuCurr))
    <2>1. psMenuCurr # 1
      BY DEF MenuInv
    <2>2. /\ psMenuCurr \in Below[p] /\ p \in Lists /\ ListIs(p)
          /\ s_CurrIndex = Number(Path(psMenuCurr)) /\ s_nSubNode = Size(p)
      BY <2>1, Current
    <2>3. /\ s_nSubNode \in Nat /\ s_CurrIndex \in 0..s_nSubNode - 1
          /\ Window(s_CurrIndex, s_CurrLine, s_nSubNode)
      BY <2>1, Current
    <2>4. DOMAIN Rows = 0..Least(s_nSubNode, LINE_MAX) - 1
      BY DEF Rows
    <2>5. s_CurrLine \in 0..Least(s_nSubNode, LINE_MAX) - 1
      <3>1. s_CurrLine \in Nat /\ s_CurrLine < Least(s_nSubNode, LINE_MAX)
        BY <2>3, Windows DEF Window
      <3> QED BY <2>3, <3>1 DEF Least
    <2>6. \A k \in 0..s_nSubNode - 1 :
            psMenuCurr - s_CurrIndex = s_CurrNodeList[k] - k
      <3> SUFFICES ASSUME NEW k \in 0..s_nSubNode - 1
                   PROVE  psMenuCurr - s_CurrIndex = s_CurrNodeList[k] - k
        OBVIOUS
      <3>1. s_CurrNodeList[k] \in Below[p] /\ Number(Path(s_CurrNodeList[k])) = k
        BY <2>2 DEF ListIs
      <3> QED BY <2>2, <3>1, Adjacent
    <2>7. /\ psMenuCurr \in Int
          /\ \A k \in 0..s_nSubNode - 1 : s_CurrNodeList[k] \in Int
      <3>1. Below[p] \subseteq Int
        BY <2>2, Entries, Table
      <3> QED BY <2>2, <3>1 DEF ListIs
    <2>8. \A k \in 0..s_nSubNode - 1 :
            s_CurrNodeList[k] = psMenuCurr + (k - s_CurrIndex)
      BY <2>3, <2>6, <2>7
    <2>9. psMenuCurr = s_CurrNodeList[s_CurrIndex]
      BY <2>3, <2>7, <2>8
    <2>10. ASSUME NEW r \in DOMAIN Rows
           PROVE  /\ s_CurrIndex + (r - s_CurrLine) \in 0..s_nSubNode - 1
                  /\ Rows[r] = s_CurrNodeList[s_CurrIndex + (r - s_CurrLine)]
      <3>1. r \in 0..Least(s_nSubNode, LINE_MAX) - 1
        BY <2>4
      <3>2. s_CurrIndex + (r - s_CurrLine) \in 0..s_nSubNode - 1
        BY <2>3, <3>1 DEF Window, Least
      <3>3. Rows[r] = psMenuCurr + (r - s_CurrLine)
        BY <3>1 DEF Rows
      <3> DEFINE m == s_CurrIndex + (r - s_CurrLine)
      <3>4. m - s_CurrIndex = r - s_CurrLine
        BY <2>3, <2>5, <3>1 DEF Least
      <3>5. m \in 0..s_nSubNode - 1
        BY <3>2
      <3> HIDE DEF m
      <3>6. s_CurrNodeList[m] = psMenuCurr + (m - s_CurrIndex)
        BY <2>8, <3>5
      <3>7. Rows[r] = s_CurrNodeList[m]
        BY <3>3, <3>4, <3>6
      <3> QED BY <3>2, <3>7 DEF m
    <2> QED BY <2>3, <2>4, <2>5, <2>9, <2>10
  <1> QED BY <1>1, AlwaysMenuInv, PTL

(* Each key does what it does in the tree of the index strings, whatever   *)
(* the table, its depth and the uninitialised index.                       *)
THEOREM MenuImplementsTree ==
  ASSUME LINE_MAX = 4
  PROVE  MenuSpec => ImplementsTree
  <1>1. MenuInit => Tree!Init
    BY InitEstablishes
  <1>2. MenuInv /\ [MenuNext]_menu => [KeyByKey]_menu
    <2> SUFFICES ASSUME MenuInv, menu' # menu PROVE KeyByKey
      OBVIOUS
    <2> QED
      BY KeyUpStep, KeyDownStep, KeyOkStep, KeyMenuStep, MainOkStep,
         MainMenuAndOkStep, PasswordRightStep, PasswordWrongStep,
         LeafExitStep, RestartStep DEF KeyByKey
  <1> QED BY <1>1, <1>2, AlwaysMenuInv, PTL DEF MenuSpec, ImplementsTree
=============================================================================
