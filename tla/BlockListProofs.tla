-------------------------- MODULE BlockListProofs ---------------------------
(***************************************************************************)
(* What the list of polling blocks is made of, and that a write is routed  *)
(* to the device register that is polled into its address, for files of    *)
(* any length and integers of any width (BlockList, PollingBlock).         *)
(***************************************************************************)
EXTENDS BlockList, SequenceTheorems, TLAPS

(* The list is that of the lines read, the last of them at its head. *)
ListInv ==
    /\ Len(list) = line
    /\ \A i \in 1..Len(list) : list[i] \in NewBlocks(file[line - i + 1])

Inv == TypeOK /\ ListInv
-----------------------------------------------------------------------------
(* Remainders. *)

LEMMA Remainder ==
    ASSUME NEW N \in Nat, N > 0, NEW x \in Int
    PROVE  x % N \in 0..(N - 1) /\ x \div N \in Int /\ x = N * (x \div N) + (x % N)
  OBVIOUS

LEMMA AtLeastOnce ==
    ASSUME NEW N \in Nat, N > 0, NEW d \in Int, d >= 1
    PROVE  N * d >= N /\ N * d \in Int
  OBVIOUS

LEMMA UniqueRemainder ==
    ASSUME NEW N \in Nat, N > 0, NEW q \in Int, NEW p \in Int,
           NEW r \in 0..(N - 1), NEW t \in 0..(N - 1), N * q + r = N * p + t
    PROVE  r = t
<1>1. N * (q - p) = t - r /\ N * (p - q) = r - t
  OBVIOUS
<1>2. ASSUME q - p >= 1 PROVE FALSE
  BY <1>1, <1>2, AtLeastOnce
<1>3. ASSUME p - q >= 1 PROVE FALSE
  BY <1>1, <1>3, AtLeastOnce
<1> QED
  BY <1>2, <1>3

LEMMA Congruent ==
    ASSUME NEW N \in Nat, N > 0, NEW x \in Int, NEW m \in Int
    PROVE  (x + N * m) % N = x % N
<1> DEFINE y == x + N * m
           q == y \div N
           p == x \div N
<1>1. y \in Int /\ y = x + N * m
  OBVIOUS
<1>2. y % N \in 0..(N - 1) /\ q \in Int /\ y = N * q + (y % N)
  BY <1>1, Remainder
<1>3. x % N \in 0..(N - 1) /\ p \in Int /\ x = N * p + (x % N)
  BY Remainder
<1> HIDE DEF y, q, p
<1> DEFINE u == p + m
           r == y % N
           t == x % N
<1>4. u \in Int /\ N * q + r = N * u + t
  BY <1>1, <1>2, <1>3
<1>5. r \in 0..(N - 1) /\ t \in 0..(N - 1) /\ q \in Int
  BY <1>2, <1>3
<1> HIDE DEF u, r, t
<1>6. r = t
  BY <1>4, <1>5, UniqueRemainder
<1> QED
  BY <1>6 DEF y, r, t

(* An offset that is cut to an int16_t still gives the right uint16_t. *)
LEMMA OffsetModulo ==
    ASSUME NEW a \in Int, NEW y \in Int
    PROVE  (a + Int16(y)) % U16 = (a + y) % U16
<1> DEFINE h == U16 \div 2
           z == (y % U16) + h
           m == -((y \div U16) + (z \div U16))
<1>1. U16 \in Nat /\ U16 > 0 /\ h \in Int
  BY WidthAssumption
<1>2. y % U16 \in Int /\ y \div U16 \in Int /\ y = U16 * (y \div U16) + (y % U16)
  BY <1>1, Remainder
<1>3. z \in Int
  BY <1>1, <1>2
<1>4. z % U16 \in Int /\ z \div U16 \in Int /\ z = U16 * (z \div U16) + (z % U16)
  BY <1>1, <1>3, Remainder
<1>5. Int16(y) = (z % U16) - h
  BY DEF Int16
<1>6. z = (y % U16) + h
  OBVIOUS
<1> HIDE DEF h, z
<1>7. m \in Int /\ U16 * m = -(U16 * (y \div U16)) - (U16 * (z \div U16))
  <2>1. \A N, p, q \in Int : -(p + q) \in Int /\ N * (-(p + q)) = -(N * p) - (N * q)
    OBVIOUS
  <2>2. U16 \in Int /\ y \div U16 \in Int /\ z \div U16 \in Int
    BY <1>1, <1>2, <1>4
  <2> QED
    BY <2>1, <2>2
<1>8. a + Int16(y) = (a + y) + U16 * m
  BY <1>1, <1>2, <1>4, <1>5, <1>6, <1>7
<1> HIDE DEF m
<1>9. a + y \in Int
  OBVIOUS
<1> QED
  BY <1>1, <1>7, <1>8, <1>9, Congruent

-----------------------------------------------------------------------------
(* Numbers and blocks. *)

LEMMA DigitType ==
    ASSUME NEW n \in Nat, NEW l \in Nat
    PROVE  Digit(n, l) \in Nat /\ Divisor(l) \in Nat
<1>1. Divisor(l) \in Nat \ {0}
  BY DEF Divisor
<1>2. n \div Divisor(l) \in Int /\ U8 \in Nat /\ U8 > 0
  BY <1>1, Remainder, WidthAssumption
<1>3. (n \div Divisor(l)) % U8 \in 0..(U8 - 1)
  BY <1>2, Remainder
<1> QED
  BY <1>1, <1>2, <1>3 DEF Digit

LEMMA AddressType ==
    ASSUME NEW n \in Nat, NEW l \in Nat
    PROVE  AddressOf(n, l) \in 0..(U32 - 1)
<1>1. Digit(n, l) \in Nat /\ Divisor(l) \in Nat
  BY DigitType
<1>4. U32 \in Nat /\ U32 > 0
  BY WidthAssumption
<1>2. Digit(n, l) * Divisor(l) \in Int
  BY <1>1
<1>3. n - Digit(n, l) * Divisor(l) - 1 \in Int
  BY <1>2
<1> QED
  BY <1>3, <1>4, Remainder DEF AddressOf

(* A function code to poll with comes from a legal number, and from no other. *)
LEMMA FcLegal ==
    ASSUME NEW n, NEW l
    PROVE  /\ FcOf(n, l) \in 0..(U8 - 1)
           /\ FcOf(n, l) \in ReadFunctions <=> LegalNumber(n, l)
<1>1. U8 \in Nat /\ 5 < U8
  BY WidthAssumption
<1> USE DEF FC_READ_COILS, FC_READ_DISCRETE_INPUTS, FC_READ_HOLDING_REGISTERS, FC_READ_INPUT_REGISTERS
<1>2. CASE LegalNumber(n, l)
  <2>1. FcOf(n, l) \in {1, 2, 3, 4}
    BY <1>2 DEF LegalNumber, FcOf
  <2> QED
    BY <1>1, <1>2, <2>1 DEF ReadFunctions
<1>3. CASE ~LegalNumber(n, l)
  <2>1. FcOf(n, l) = U8 - 1
    BY <1>3 DEF LegalNumber, FcOf, IllegalFc
  <2> QED
    BY <1>1, <1>3, <2>1 DEF ReadFunctions
<1> QED
  BY <1>2, <1>3

LEMMA NewBlockOf ==
    ASSUME NEW entry \in LineType, NEW block \in NewBlocks(entry), len \in AddressLengths
    PROVE  /\ block \in BlockType
           /\ FcOf(entry.number, len) = FcOf(entry.mapping, len)
           /\ block.fc = FcOf(entry.number, len) /\ block.quantity = entry.quantity
           /\ LegalNumber(entry.mapping, len) => block.map = AddressOf(entry.mapping, len)
<1> DEFINE addr(number) == IF LegalNumber(number, len) THEN {AddressOf(number, len)} ELSE Garbage
<1>1. FcOf(entry.number, len) = FcOf(entry.mapping, len)
  BY DEF NewBlocks
<1>2. block \in [fc : {FcOf(entry.number, len)}, address : addr(entry.number),
                 quantity : {entry.quantity}, map : addr(entry.mapping)]
  BY <1>1 DEF NewBlocks
<1>3. /\ entry.number \in Nat /\ entry.mapping \in Nat /\ entry.quantity \in 0..(U16 - 1)
      /\ len \in Nat
  BY FilesAssumption, WidthAssumption DEF LineType
<1>4. \A n \in Nat : addr(n) \subseteq 0..(U32 - 1)
  BY <1>3, AddressType, FilesAssumption
<1>5. FcOf(entry.number, len) \in 0..(U8 - 1)
  BY FcLegal
<1>6. LegalNumber(entry.mapping, len) => addr(entry.mapping) = {AddressOf(entry.mapping, len)}
  OBVIOUS
<1> HIDE DEF addr
<1>7. /\ block = [fc |-> block.fc, address |-> block.address,
                  quantity |-> block.quantity, map |-> block.map]
      /\ block.fc = FcOf(entry.number, len) /\ block.quantity = entry.quantity
      /\ block.address \in addr(entry.number) /\ block.map \in addr(entry.mapping)
  BY <1>2
<1>8. block.address \in 0..(U32 - 1) /\ block.map \in 0..(U32 - 1)
  BY <1>3, <1>4, <1>7
<1>9. block \in BlockType
  BY <1>3, <1>5, <1>7, <1>8 DEF BlockType
<1> QED
  BY <1>1, <1>6, <1>7, <1>9

-----------------------------------------------------------------------------
(* The list. *)

LEMMA Prefixed ==
    ASSUME NEW S, NEW x \in S, NEW f \in Seq(S)
    PROVE  /\ <<x>> \o f \in Seq(S) /\ Len(<<x>> \o f) = Len(f) + 1 /\ Len(f) \in Nat
           /\ (<<x>> \o f)[1] = x
           /\ \A i \in 1..Len(f) : (<<x>> \o f)[i + 1] = f[i]
  OBVIOUS

LEMMA Initial == Init => Inv
<1> SUFFICES ASSUME Init PROVE Inv
  OBVIOUS
<1>1. file \in Seq(LineType) /\ len \in AddressLengths
  BY FilesAssumption DEF Init
<1>2. list \in Seq(BlockType) /\ Len(list) = 0
  BY DEF Init
<1>3. line \in 0..Len(file)
  BY <1>1 DEF Init
<1>4. ListInv
  <2>1. \A i \in 1..Len(list) : FALSE
    BY <1>2
  <2> QED
    BY <1>2, <2>1 DEF Init, ListInv
<1> QED
  BY <1>1, <1>2, <1>3, <1>4 DEF Init, Inv, TypeOK

LEMMA ReadLineStep ==
    ASSUME Inv, ReadLine
    PROVE  Inv'
<1>1. PICK block \in NewBlocks(file[line + 1]) : list' = <<block>> \o list
  BY DEF ReadLine, AddBlock
<1>2. /\ file \in Seq(LineType) /\ line \in Nat /\ line < Len(file) /\ Len(file) \in Nat
      /\ len \in AddressLengths /\ list \in Seq(BlockType)
      /\ line' = line + 1 /\ UNCHANGED <<file, len, pc>>
  BY DEF Inv, TypeOK, ReadLine
<1>3. /\ Len(list) = line
      /\ \A i \in 1..Len(list) : list[i] \in NewBlocks(file[line - i + 1])
  BY DEF Inv, ListInv
<1>4. line + 1 \in 1..Len(file) /\ file[line + 1] \in LineType
  BY <1>2
<1>5. block \in BlockType
  BY <1>2, <1>4, NewBlockOf
<1>6. /\ list' \in Seq(BlockType) /\ Len(list') = Len(list) + 1
      /\ list'[1] = block
      /\ \A i \in 1..Len(list) : list'[i + 1] = list[i]
  BY <1>1, <1>2, <1>5, Prefixed
<1>7. TypeOK'
  <2>1. line' \in 0..Len(file)
    BY <1>2
  <2> QED
    BY <1>2, <1>6, <2>1 DEF Inv, TypeOK
<1>8. ASSUME NEW i \in 1..Len(list')
      PROVE  list'[i] \in NewBlocks(file[line' - i + 1])
  <2>1. CASE i = 1
    <3>1. line' - i + 1 = line + 1
      BY <1>2, <2>1
    <3> QED
      BY <1>6, <2>1, <3>1
  <2>2. CASE i # 1
    <3>1. i - 1 \in 1..Len(list) /\ (i - 1) + 1 = i /\ line' - i + 1 = line - (i - 1) + 1
      BY <1>2, <1>3, <1>6, <2>2
    <3>2. list'[i] = list[i - 1]
      BY <1>6, <3>1
    <3> QED
      BY <1>3, <3>1, <3>2
  <2> QED
    BY <2>1, <2>2
<1>9. \A entry : NewBlocks(entry)' = NewBlocks(entry)
  BY <1>2 DEF NewBlocks
<1>10. ListInv'
  BY <1>2, <1>3, <1>6, <1>8, <1>9 DEF ListInv
<1> QED
  BY <1>7, <1>10 DEF Inv

LEMMA Inductive == Inv /\ [Next]_vars => Inv'
<1> SUFFICES ASSUME Inv, [Next]_vars PROVE Inv'
  OBVIOUS
<1>1. CASE ReadLine
  BY <1>1, ReadLineStep
<1>2. ASSUME UNCHANGED <<file, line, len, list>>, pc' \in {"read", "ready", "blocked"}
      PROVE  Inv'
  <2>1. \A entry : NewBlocks(entry)' = NewBlocks(entry)
    BY <1>2 DEF NewBlocks
  <2> QED
    BY <1>2, <2>1 DEF Inv, TypeOK, ListInv
<1>3. CASE RefuseLine
  BY <1>2, <1>3 DEF RefuseLine
<1>4. CASE EndOfFile
  BY <1>2, <1>4 DEF EndOfFile
<1>5. CASE UNCHANGED vars
  BY <1>2, <1>5 DEF vars, Inv, TypeOK
<1> QED
  BY <1>1, <1>3, <1>4, <1>5 DEF Next

LEMMA Invariant == Spec => []Inv
  BY Initial, Inductive, PTL DEF Spec

(* Every block is made of numbers of its width (new_polling_block).        *)
THEOREM TypeCorrect == Spec => []TypeOK
<1>1. Inv => TypeOK
  BY DEF Inv
<1> QED
  BY <1>1, Invariant, PTL

(* The line a block of the list was made from. *)
LEMMA LineOf ==
    ASSUME Inv, NEW i \in 1..Len(list)
    PROVE  /\ line - i + 1 \in 1..Len(file) /\ file[line - i + 1] \in LineType
           /\ list[i] \in NewBlocks(file[line - i + 1])
           /\ list[i] \in BlockType /\ len \in AddressLengths
<1>1. Len(list) = line /\ list[i] \in NewBlocks(file[line - i + 1])
  BY DEF Inv, ListInv
<1>2. /\ file \in Seq(LineType) /\ line \in 0..Len(file) /\ Len(file) \in Nat
      /\ list \in Seq(BlockType) /\ len \in AddressLengths
  BY DEF Inv, TypeOK
<1>3. line - i + 1 \in 1..Len(file)
  BY <1>1, <1>2
<1> QED
  BY <1>1, <1>2, <1>3

(* One illegal number in a line makes no block, and each block is that of  *)
(* its line (get_fc_address and new_polling_block, modbus_master.c:28-104).*)
THEOREM IllegalRefused == Spec => []IllegalOnlyInPairs
<1>1. Inv => IllegalOnlyInPairs
  <2> SUFFICES ASSUME Inv PROVE IllegalOnlyInPairs
    OBVIOUS
  <2>1. ASSUME NEW i \in 1..Len(list), NEW entry, entry = file[line - i + 1]
        PROVE  IF list[i].fc \in ReadFunctions
               THEN list[i].fc = FcOf(entry.number, len) /\ LegalNumber(entry.mapping, len)
               ELSE ~LegalNumber(entry.number, len) /\ ~LegalNumber(entry.mapping, len)
    <3>1. entry \in LineType /\ list[i] \in NewBlocks(entry) /\ len \in AddressLengths
      BY <2>1, LineOf
    <3>2. /\ FcOf(entry.number, len) = FcOf(entry.mapping, len)
          /\ list[i].fc = FcOf(entry.number, len)
      BY <3>1, NewBlockOf
    <3> QED
      BY <3>2, FcLegal
  <2>2. Len(list) = line
    BY DEF Inv, ListInv
  <2> QED
    BY <2>1, <2>2 DEF IllegalOnlyInPairs
<1> QED
  BY <1>1, Invariant, PTL

-----------------------------------------------------------------------------
(* The blocks of an ascending file descend in the list. *)
LEMMA Descending ==
    ASSUME Inv, pc = "ready", AscendingFile, NEW i \in 1..Len(list), NEW m \in 1..Len(list), m < i
    PROVE  list[i].map + list[i].quantity <= list[m].map
<1> DEFINE a == file[line - i + 1]
           b == file[line - m + 1]
<1>1. /\ line - i + 1 \in 1..Len(file) /\ a \in LineType /\ list[i] \in NewBlocks(a)
      /\ len \in AddressLengths
  BY LineOf
<1>2. /\ line - m + 1 \in 1..Len(file) /\ b \in LineType /\ list[m] \in NewBlocks(b)
  BY LineOf
<1>3. line - i + 1 < line - m + 1
  BY DEF Inv, TypeOK
<1>4. /\ LegalNumber(a.mapping, len) /\ LegalNumber(b.mapping, len)
      /\ AddressOf(a.mapping, len) + a.quantity <= AddressOf(b.mapping, len)
  BY <1>1, <1>2, <1>3 DEF AscendingFile
<1> HIDE DEF a, b
<1>5. list[i].map = AddressOf(a.mapping, len) /\ list[i].quantity = a.quantity
  BY <1>1, <1>4, NewBlockOf
<1>6. list[m].map = AddressOf(b.mapping, len)
  BY <1>1, <1>2, <1>4, NewBlockOf
<1> QED
  BY <1>4, <1>5, <1>6

(* A write to a polled address goes to the device register that is polled  *)
(* into it (address_offset, modbus_master.c:106-135, and the copy of a     *)
(* block into the map).                                                    *)
THEOREM WritesRouted == Spec => []RoutedWherePolled
<1>1. Inv => RoutedWherePolled
  <2> SUFFICES ASSUME Inv, pc = "ready", AscendingFile, NEW i \in 1..Len(list),
                      NEW k \in 0..(list[i].quantity - 1), list[i].map + k < U16
               PROVE  DeviceAddress(list[i].map + k, list) = (list[i].address + k) % U16
    BY DEF RoutedWherePolled
  <2> DEFINE x == list[i].map + k
             y == list[i].address - list[i].map
  <2>1. /\ list \in Seq(BlockType)
        /\ \A m \in 1..Len(list) : /\ list[m].map \in Nat /\ list[m].quantity \in 0..(U16 - 1)
                                   /\ list[m].address \in Nat
    <3>1. list \in Seq(BlockType)
      BY DEF Inv, TypeOK
    <3>2. \A m \in 1..Len(list) : list[m] \in BlockType
      BY <3>1
    <3>3. ASSUME NEW block \in BlockType
          PROVE  block.map \in Nat /\ block.quantity \in 0..(U16 - 1) /\ block.address \in Nat
      BY WidthAssumption DEF BlockType
    <3> QED
      BY <3>1, <3>2, <3>3
  <2>2. U16 \in Nat /\ U32 \in Nat /\ 2 * U16 <= U32 /\ U16 > 0
    <3>1. U16 \in Nat /\ U32 \in Nat /\ U16 < U32 /\ U32 % U16 = 0 /\ U16 > 0
      BY WidthAssumption
    <3>2. U32 \div U16 \in Int /\ U32 = U16 * (U32 \div U16) + (U32 % U16)
      BY <3>1, Remainder
    <3> DEFINE d == U32 \div U16
    <3>3. d \in Int /\ U32 = U16 * d
      BY <3>1, <3>2
    <3> HIDE DEF d
    <3>4. d >= 2
      <4>1. CASE d <= 1
        <5>1. U16 * d <= U16
          BY <3>1, <3>3, <4>1
        <5> QED
          BY <3>1, <3>3, <5>1
      <4> QED
        BY <3>3, <4>1
    <3>5. U16 * d >= U16 * 2
      BY <3>1, <3>3, <3>4
    <3> QED
      BY <3>1, <3>3, <3>5
  <2>3. x \in Nat /\ x < list[i].map + list[i].quantity /\ list[i].map <= x
    BY <2>1
  <2>4. Covers(list[i], x)
    <3>1. list[i].map + list[i].quantity \in 0..(U32 - 1)
      <4> DEFINE p == list[i].map
                 q == list[i].quantity
      <4>1. p \in Nat /\ q \in 0..(U16 - 1) /\ p + k < U16 /\ k \in Nat
        BY <2>1
      <4> HIDE DEF p, q
      <4>2. p + q \in 0..(U32 - 1)
        BY <2>2, <4>1
      <4> QED
        BY <4>2 DEF p, q
    <3>2. (list[i].map + list[i].quantity) % U32 = list[i].map + list[i].quantity
      BY <2>2, <3>1
    <3> QED
      BY <2>1, <2>3, <3>1, <3>2 DEF Covers
  <2>5. \A m \in 1..(i - 1) : ~Covers(list[m], x)
    <3>1. ASSUME NEW m \in 1..(i - 1) PROVE ~(list[m].map <= x)
      <4>1. m \in 1..Len(list) /\ m < i
        BY <2>1
      <4>2. list[i].map + list[i].quantity <= list[m].map
        BY <4>1, Descending
      <4> QED
        BY <2>1, <2>3, <4>1, <4>2
    <3> QED
      BY <3>1 DEF Covers
  <2>6. FirstCovering(x, list) = {i}
    <3>1. i \in FirstCovering(x, list)
      BY <2>4, <2>5 DEF FirstCovering
    <3>2. ASSUME NEW m \in FirstCovering(x, list) PROVE m = i
      <4>1. /\ m \in 1..Len(list) /\ Covers(list[m], x)
            /\ \A n \in 1..(m - 1) : ~Covers(list[n], x)
        BY <3>2 DEF FirstCovering
      <4>2. ~(m < i)
        BY <2>5, <4>1
      <4>3. ~(i < m)
        BY <2>4, <4>1
      <4> QED
        BY <4>1, <4>2, <4>3
    <3> QED
      BY <3>1, <3>2
  <2>7. AddressOffset(x, list) = Int16(y)
    BY <2>6 DEF AddressOffset
  <2>8. y \in Int /\ x + y = list[i].address + k
    BY <2>1
  <2> HIDE DEF x, y
  <2>9. (x + Int16(y)) % U16 = (x + y) % U16
    BY <2>3, <2>8, OffsetModulo
  <2> USE DEF x
  <2> QED
    BY <2>7, <2>8, <2>9 DEF DeviceAddress
<1> QED
  BY <1>1, Invariant, PTL
=============================================================================
