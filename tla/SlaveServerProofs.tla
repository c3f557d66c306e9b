------------------------- MODULE SlaveServerProofs -------------------------
(***************************************************************************)
(* Why the server stops listening, and why every answer is for the request *)
(* that is next, for all clients, requests and numbers of sockets          *)
(* (SlaveServer).                                                          *)
(***************************************************************************)
EXTENDS SlaveServer, ModbusFrameProofs, FiniteSetTheorems

Ends == {"new", "half", "open", "fin", "reset", "refused"}

Typed ==
    /\ listening \in BOOLEAN
    /\ IsFiniteSet(served)
    /\ resets \in Nat
    /\ end \in [Client -> Ends]

Among(q, c) == \E i \in 1..Len(q) : q[i] = c
Distinct(q) == \A i, j \in 1..Len(q) : q[i] = q[j] => i = j

(* What is on the list of the stack: a connection once, from its SYN until *)
(* it is accepted.                                                         *)
ListInv ==
    /\ pending \in Seq(Client) /\ Distinct(pending)
    /\ \A c \in Client : Among(pending, c) => c \notin served /\ end[c] # "new"
    /\ \A c \in Client : end[c] \in {"new", "half"} => c \notin served

(* The stack counts the established connections on its list, and one that  *)
(* was reset there.                                                        *)
Waiting == { c \in Client : Among(pending, c) /\ end[c] # "half" }

Counted ==
    /\ IsFiniteSet(Waiting)
    /\ resets = 0 => count = Cardinality(Waiting)

Inv == Typed /\ ListInv /\ Counted /\ WithinStructures /\ ListensUntil

-----------------------------------------------------------------------------
LEMMA UsedNat ==
    ASSUME Typed
    PROVE  /\ Cardinality(served) \in Nat /\ Used \in Nat
           /\ listening => Used = Cardinality(served) + 1
           /\ ~listening => Used = Cardinality(served)
  BY FS_CardinalityType DEF Typed, Used

LEMMA OneMore ==
    ASSUME NEW T, IsFiniteSet(T), NEW x
    PROVE  /\ IsFiniteSet(T \cup {x}) /\ Cardinality(T) \in Nat /\ Cardinality(T \cup {x}) \in Nat
           /\ Cardinality(T \cup {x}) <= Cardinality(T) + 1
           /\ x \notin T => Cardinality(T \cup {x}) = Cardinality(T) + 1
<1>1. /\ IsFiniteSet(T \cup {x}) /\ Cardinality(T) \in Nat
      /\ Cardinality(T \cup {x}) = IF x \in T THEN Cardinality(T) ELSE Cardinality(T) + 1
  BY FS_AddElement, FS_CardinalityType
<1> QED
  BY <1>1

-----------------------------------------------------------------------------
(* The list of the stack. *)

(* A connection is taken off the list. *)
LEMMA UnlinkedOf ==
    ASSUME NEW i \in 1..Len(pending), pending \in Seq(Client)
    PROVE  /\ Unlinked(i) \in Seq(Client) /\ Len(Unlinked(i)) = Len(pending) - 1
           /\ Len(pending) \in Nat
           /\ \A j \in 1..(Len(pending) - 1) :
                 Unlinked(i)[j] = IF j < i THEN pending[j] ELSE pending[j + 1]
  <1> DEFINE l == Len(pending)
             f == SubSeq(pending, 1, i - 1)
             g == SubSeq(pending, i + 1, l)
  <1>1. l \in Nat /\ i \in Nat /\ 1 <= i /\ i <= l
    OBVIOUS
  <1>2. i - 1 \in 0..l /\ i \in 0..l
    BY <1>1
  <1>3. f \in Seq(Client) /\ Len(f) = i - 1 /\ \A j \in 1..(i - 1) : f[j] = pending[j]
    BY <1>2, Cut
  <1>4. g \in Seq(Client) /\ Len(g) = l - i /\ \A j \in 1..(l - i) : g[j] = pending[j + i]
    BY <1>2, Cut
  <1>5. Unlinked(i) = f \o g
    BY DEF Unlinked
  <1> HIDE DEF f, g
  <1>6. f \o g \in Seq(Client) /\ Len(f \o g) = Len(f) + Len(g)
    BY <1>3, <1>4, ConcatOf
  <1>7. /\ \A j \in 1..Len(f) : (f \o g)[j] = f[j]
        /\ \A j \in 1..Len(g) : (f \o g)[j + Len(f)] = g[j]
    BY <1>3, <1>4, ConcatElements
  <1>8. ASSUME NEW j \in 1..(l - 1)
        PROVE  (f \o g)[j] = IF j < i THEN pending[j] ELSE pending[j + 1]
    <2>1. CASE j < i
      <3>1. j \in 1..(i - 1) /\ j \in 1..Len(f)
        BY <1>1, <1>3, <2>1
      <3> QED
        BY <1>3, <1>7, <2>1, <3>1
    <2>2. CASE ~(j < i)
      <3> DEFINE m == j - (i - 1)
      <3>1. m \in 1..(l - i) /\ m \in 1..Len(g) /\ m + Len(f) = j /\ m + i = j + 1
        BY <1>1, <1>3, <1>4, <2>2
      <3> HIDE DEF m
      <3>2. (f \o g)[m + Len(f)] = g[m] /\ g[m] = pending[m + i]
        BY <1>4, <1>7, <3>1
      <3> QED
        BY <2>2, <3>1, <3>2
    <2> QED
      BY <2>1, <2>2
  <1> QED
    BY <1>1, <1>3, <1>4, <1>5, <1>6, <1>8

LEMMA UnlinkedList ==
    ASSUME NEW i \in 1..Len(pending), pending \in Seq(Client), Distinct(pending)
    PROVE  /\ Unlinked(i) \in Seq(Client) /\ Distinct(Unlinked(i)) /\ pending[i] \in Client
           /\ \A c : Among(Unlinked(i), c) <=> Among(pending, c) /\ c # pending[i]
  <1> DEFINE l == Len(pending)
             u == Unlinked(i)
             place(k) == IF k < i THEN k ELSE k + 1
  <1>1. /\ u \in Seq(Client) /\ Len(u) = l - 1 /\ l \in Nat /\ i \in 1..l
        /\ \A j \in 1..(l - 1) : u[j] = IF j < i THEN pending[j] ELSE pending[j + 1]
    BY UnlinkedOf
  <1> HIDE DEF u
  <1>2. \A k \in 1..(l - 1) : place(k) \in 1..l /\ place(k) # i /\ u[k] = pending[place(k)]
    BY <1>1
  <1>3. \A k, j \in 1..(l - 1) : place(k) = place(j) => k = j
    BY <1>1
  <1>4. \A m \in 1..l : m # i => \E k \in 1..(l - 1) : place(k) = m
    <2>1. ASSUME NEW m \in 1..l, m # i PROVE \E k \in 1..(l - 1) : place(k) = m
      <3>1. CASE m < i
        <4>1. m \in 1..(l - 1) /\ place(m) = m
          BY <1>1, <3>1
        <4> QED
          BY <4>1
      <3>2. CASE ~(m < i)
        <4>1. m - 1 \in 1..(l - 1) /\ place(m - 1) = m
          BY <1>1, <2>1, <3>2
        <4> QED
          BY <4>1
      <3> QED
        BY <3>1, <3>2
    <2> QED
      BY <2>1
  <1> HIDE DEF place
  <1>5. Distinct(u)
    <2>1. ASSUME NEW k \in 1..(l - 1), NEW j \in 1..(l - 1), u[k] = u[j] PROVE k = j
      <3>1. place(k) \in 1..l /\ place(j) \in 1..l /\ pending[place(k)] = pending[place(j)]
        BY <1>2, <2>1
      <3>2. place(k) = place(j)
        BY <3>1 DEF Distinct
      <3> QED
        BY <1>3, <3>2
    <2> QED
      BY <1>1, <2>1 DEF Distinct
  <1>6. ASSUME NEW c PROVE Among(u, c) <=> Among(pending, c) /\ c # pending[i]
    <2>1. ASSUME Among(u, c) PROVE Among(pending, c) /\ c # pending[i]
      <3>1. PICK k \in 1..(l - 1) : u[k] = c
        BY <1>1, <2>1 DEF Among
      <3>2. place(k) \in 1..l /\ place(k) # i /\ pending[place(k)] = c
        BY <1>2, <3>1
      <3>3. pending[place(k)] # pending[i]
        BY <1>1, <3>2 DEF Distinct
      <3> QED
        BY <3>2, <3>3 DEF Among
    <2>2. ASSUME Among(pending, c), c # pending[i] PROVE Among(u, c)
      <3>1. PICK m \in 1..l : pending[m] = c
        BY <2>2 DEF Among
      <3>2. m # i
        BY <2>2, <3>1
      <3>3. PICK k \in 1..(l - 1) : place(k) = m
        BY <1>4, <3>1, <3>2
      <3>4. u[k] = c
        BY <1>2, <3>1, <3>3
      <3> QED
        BY <1>1, <3>4 DEF Among
    <2> QED
      BY <2>1, <2>2
  <1>7. pending[i] \in Client
    BY ElementOf
  <1> QED
    BY <1>1, <1>5, <1>6, <1>7 DEF u

(* A connection is put before the others. *)
LEMMA Prefixed ==
    ASSUME NEW S, NEW x \in S, NEW f \in Seq(S)
    PROVE  /\ <<x>> \o f \in Seq(S) /\ Len(<<x>> \o f) = Len(f) + 1 /\ Len(f) \in Nat
           /\ (<<x>> \o f)[1] = x
           /\ \A i \in 1..Len(f) : (<<x>> \o f)[i + 1] = f[i]
  OBVIOUS

LEMMA PrefixedList ==
    ASSUME NEW c \in Client, pending \in Seq(Client), Distinct(pending), ~Among(pending, c)
    PROVE  /\ <<c>> \o pending \in Seq(Client) /\ Distinct(<<c>> \o pending)
           /\ \A d : Among(<<c>> \o pending, d) <=> d = c \/ Among(pending, d)
  <1> DEFINE p == <<c>> \o pending
             l == Len(pending)
  <1>1. /\ p \in Seq(Client) /\ Len(p) = l + 1 /\ l \in Nat /\ p[1] = c
        /\ \A i \in 1..l : p[i + 1] = pending[i]
    BY Prefixed
  <1> HIDE DEF p
  <1>2. ASSUME NEW i \in 1..Len(p), i # 1
        PROVE  i - 1 \in 1..l /\ p[i] = pending[i - 1] /\ p[i] # c
    <2>1. i - 1 \in 1..l /\ (i - 1) + 1 = i
      BY <1>1, <1>2
    <2>2. p[i] = pending[i - 1]
      BY <1>1, <2>1
    <2> QED
      BY <2>1, <2>2 DEF Among
  <1>3. Distinct(p)
    <2>1. ASSUME NEW i \in 1..Len(p), NEW j \in 1..Len(p), p[i] = p[j] PROVE i = j
      <3>1. CASE i # 1 /\ j # 1
        <4>1. i - 1 \in 1..l /\ j - 1 \in 1..l /\ pending[i - 1] = pending[j - 1]
          BY <1>2, <2>1, <3>1
        <4>2. i - 1 = j - 1
          BY <4>1 DEF Distinct
        <4> QED
          BY <4>2
      <3>2. CASE i = 1 \/ j = 1
        BY <1>1, <1>2, <2>1, <3>2
      <3> QED
        BY <3>1, <3>2
    <2> QED
      BY <2>1 DEF Distinct
  <1>4. ASSUME NEW d PROVE Among(p, d) <=> d = c \/ Among(pending, d)
    <2>1. ASSUME Among(p, d), d # c PROVE Among(pending, d)
      <3>1. PICK i \in 1..Len(p) : p[i] = d
        BY <2>1 DEF Among
      <3>2. i - 1 \in 1..l /\ p[i] = pending[i - 1]
        BY <1>1, <1>2, <2>1, <3>1
      <3> QED
        BY <3>1, <3>2 DEF Among
    <2>2. ASSUME d = c PROVE Among(p, d)
      <3>1. 1 \in 1..Len(p) /\ p[1] = d
        BY <1>1, <2>2
      <3> QED
        BY <3>1 DEF Among
    <2>3. ASSUME Among(pending, d) PROVE Among(p, d)
      <3>1. PICK i \in 1..l : pending[i] = d
        BY <2>3 DEF Among
      <3>2. i + 1 \in 1..Len(p) /\ p[i + 1] = d
        BY <1>1, <3>1
      <3> QED
        BY <3>2 DEF Among
    <2> QED
      BY <2>1, <2>2, <2>3
  <1> QED
    BY <1>1, <1>3, <1>4 DEF p

(* Where the stack finds an established connection, and that it finds one. *)
LEMMA EstablishedOf ==
    ASSUME ListInv
    PROVE  /\ Established \subseteq 1..Len(pending)
           /\ \A i \in Established : pending[i] \in Waiting
           /\ Established = {} => Waiting = {}
  <1>1. DOMAIN pending = 1..Len(pending) /\ \A i \in 1..Len(pending) : pending[i] \in Client
    BY DEF ListInv
  <1>2. ASSUME NEW i \in Established PROVE pending[i] \in Waiting
    BY <1>1 DEF Established, Waiting, Among
  <1>3. ASSUME NEW c \in Waiting PROVE Established # {}
    <2>1. PICK i \in 1..Len(pending) : pending[i] = c
      BY DEF Waiting, Among
    <2>2. i \in Established
      BY <1>1, <2>1 DEF Established, Waiting
    <2> QED
      BY <2>2
  <1> QED
    BY <1>1, <1>2, <1>3 DEF Established

-----------------------------------------------------------------------------
LEMMA Initial == Init => Inv
<1> SUFFICES ASSUME Init PROVE Inv
  OBVIOUS
<1>1. listening \in BOOLEAN
  BY DEF Init
<1>2. Typed
  BY <1>1, FS_EmptySet DEF Init, Typed, Ends
<1>3. pending = <<>> /\ Len(pending) = 0 /\ <<>> \in Seq(Client)
  BY DEF Init
<1>4. \A i \in 1..Len(pending) : FALSE
  BY <1>3
<1>5. ListInv
  BY <1>3, <1>4 DEF Init, ListInv, Among, Distinct
<1>6. Waiting = {}
  BY <1>4 DEF Waiting, Among
<1>7. Counted /\ ListensUntil
  BY <1>6, FS_EmptySet DEF Init, Counted, ListensUntil
<1>8. WithinStructures
  BY FS_EmptySet, ServerAssumption DEF Init, WithinStructures
<1> QED
  BY <1>2, <1>5, <1>7, <1>8 DEF Inv

(* The list and the count, of steps that leave them alone. *)
LEMMA ListKept ==
    ASSUME ListInv, Counted, UNCHANGED <<pending, count, served, resets, end>>
    PROVE  ListInv' /\ Counted'
<1>1. ListInv'
  BY DEF ListInv
<1>2. Waiting' = Waiting
  BY DEF Waiting
<1> QED
  BY <1>1, <1>2 DEF Counted

(* The steps that leave the stack and the place in accept alone. *)
LEMMA Elsewhere ==
    ASSUME Inv, UNCHANGED <<listening, pending, count, served, resets>>,
           ListInv' /\ Counted' /\ end' \in [Client -> Ends],
           pc' = "accepting" => pc = "accepting"
    PROVE  Inv'
<1>1. Typed'
  <2>1. listening' \in BOOLEAN
    BY DEF Inv, Typed
  <2> QED
    BY <2>1 DEF Inv, Typed
<1>2. ListensUntil'
  BY DEF Inv, ListensUntil, Used
<1>3. WithinStructures'
  <2>1. Cardinality(served) \in Nat /\ Sockets \in Nat
    BY UsedNat, ServerAssumption DEF Inv
  <2>2. Cardinality(served') = Cardinality(served) /\ listening' = listening
    OBVIOUS
  <2>3. CASE pc = "accepting"
    BY <2>1, <2>2, <2>3 DEF Inv, WithinStructures
  <2>4. CASE pc # "accepting"
    BY <2>1, <2>2, <2>4 DEF Inv, WithinStructures
  <2> QED
    BY <2>3, <2>4
<1> QED
  BY <1>1, <1>2, <1>3 DEF Inv

(* The steps that leave the ends of the connections alone, too. *)
LEMMA ElsewhereQuiet ==
    ASSUME Inv, UNCHANGED <<listening, pending, count, served, resets, end>>,
           pc' = "accepting" => pc = "accepting"
    PROVE  Inv'
<1>1. ListInv' /\ Counted' /\ end' \in [Client -> Ends]
  BY ListKept DEF Inv, Typed
<1> QED
  BY <1>1, Elsewhere

LEMMA AcceptStep ==
    ASSUME Inv, Accept
    PROVE  Inv'
<1>1. /\ Typed /\ ListInv /\ Counted /\ ListensUntil /\ pc = "accept" /\ listening
  BY DEF Inv, Accept
<1>2. Cardinality(served) \in Nat /\ Used = Cardinality(served) + 1 /\ Sockets \in Nat
  BY <1>1, UsedNat, ServerAssumption
<1>3. CASE AcceptFails /\ (Used = Sockets \/ (count > 0 /\ Established = {}))
  <2>1. /\ listening' = FALSE /\ count' = 0 /\ pending' = <<>> /\ served' = served
        /\ resets' = resets /\ pc' = "accept"
    BY <1>1, <1>3 DEF AcceptFails
  <2>2. /\ end' \in [Client -> Ends]
        /\ \A c \in Client : end'[c] = end[c] \/ end'[c] = "refused"
    BY <1>1, <1>3 DEF AcceptFails, Typed, Ends
  <2>3. Typed'
    <3>1. listening' \in BOOLEAN
      BY <2>1
    <3> QED
      BY <1>1, <2>1, <2>2, <3>1 DEF Typed
  <2>4. ListInv' /\ Counted'
    <3>1. Len(pending') = 0 /\ pending' \in Seq(Client)
      BY <2>1
    <3>2. \A i \in 1..Len(pending') : FALSE
      BY <3>1
    <3>3. ListInv'
      <4>1. \A c \in Client : end'[c] \in {"new", "half"} => c \notin served
        BY <1>1, <2>2 DEF ListInv
      <4> QED
        BY <2>1, <3>1, <3>2, <4>1 DEF ListInv, Among, Distinct
    <3>4. Waiting' = {}
      BY <3>2 DEF Waiting, Among
    <3> QED
      BY <2>1, <3>3, <3>4, FS_EmptySet DEF Counted
  <2>5. Used' = Cardinality(served)
    <3>1. Cardinality(served') = Cardinality(served) /\ ~listening'
      BY <2>1
    <3> QED
      BY <1>2, <3>1 DEF Used
  <2>6. Used' >= Sockets - 1 \/ resets' > 0
    <3>1. CASE Used = Sockets
      BY <1>2, <2>5, <3>1
    <3>2. CASE count > 0 /\ Established = {}
      <4>1. Waiting = {}
        BY <1>1, <3>2, EstablishedOf
      <4>2. Cardinality(Waiting) = 0
        BY <4>1, FS_EmptySet
      <4>3. resets # 0 /\ resets \in Nat
        BY <1>1, <3>2, <4>2 DEF Counted, Typed
      <4> QED
        BY <2>1, <4>3
    <3> QED
      BY <1>3, <3>1, <3>2
  <2>7. WithinStructures'
    BY <1>1, <1>2, <2>1 DEF Inv, WithinStructures
  <2> QED
    BY <2>1, <2>3, <2>4, <2>6, <2>7 DEF Inv, ListensUntil
<1>4. CASE AcceptWaits /\ Used < Sockets
  <2>1. UNCHANGED <<listening, pending, count, served, resets, end>>
    BY <1>4 DEF AcceptWaits, stackVars, clientVars
  <2>2. Typed'
    <3>1. listening' \in BOOLEAN
      BY <1>1, <2>1
    <3> QED
      BY <1>1, <2>1, <3>1 DEF Typed
  <2>3. WithinStructures'
    BY <1>1, <1>2, <1>4, <2>1 DEF WithinStructures
  <2> QED
    BY <1>1, <2>1, <2>2, <2>3, ListKept DEF Inv, ListensUntil
<1>5. CASE AcceptTakes /\ Used < Sockets
  <2>1. PICK i \in DOMAIN pending :
           /\ First(i) /\ pending' = Unlinked(i) /\ count' = count - 1
           /\ served' = served \cup {pending[i]} /\ StartReceive(pending[i])
           /\ UNCHANGED <<listening, clientVars>>
    BY <1>5 DEF AcceptTakes
  <2> DEFINE h == pending[i]
  <2>2. /\ listening' = listening /\ resets' = resets /\ end' = end /\ pc' = "function"
        /\ i \in 1..Len(pending) /\ h \in Waiting
    BY <1>1, <2>1, EstablishedOf DEF StartReceive, clientVars, First
  <2>3. /\ pending' \in Seq(Client) /\ Distinct(pending') /\ h \in Client
        /\ \A c : Among(pending', c) <=> Among(pending, c) /\ c # h
    BY <1>1, <2>1, <2>2, UnlinkedList DEF ListInv
  <2> HIDE DEF h
  <2>4. end[h] \notin {"new", "half"}
    BY <1>1, <2>2 DEF Waiting, ListInv
  <2>5. served' = served \cup {h}
    BY <2>1 DEF h
  <2>6. ListInv'
    BY <1>1, <2>2, <2>3, <2>4, <2>5 DEF ListInv
  <2>7. Counted'
    <3>1. Waiting' = Waiting \ {h}
      BY <2>2, <2>3 DEF Waiting
    <3>2. /\ IsFiniteSet(Waiting \ {h})
          /\ Cardinality(Waiting \ {h}) = Cardinality(Waiting) - 1
      BY <1>1, <2>2, FS_RemoveElement DEF Counted
    <3> QED
      BY <1>1, <2>1, <2>2, <3>1, <3>2 DEF Counted
  <2>8. /\ IsFiniteSet(served') /\ Cardinality(served') \in Nat
        /\ Cardinality(served') <= Cardinality(served) + 1
    BY <1>1, <1>2, <2>5, OneMore DEF Typed
  <2>9. Typed'
    <3>1. listening' \in BOOLEAN
      BY <1>1, <2>2
    <3> QED
      BY <1>1, <2>2, <2>8, <3>1 DEF Typed
  <2>10. WithinStructures'
    BY <1>1, <1>2, <1>5, <2>2, <2>8 DEF WithinStructures
  <2> QED
    BY <1>1, <2>2, <2>6, <2>7, <2>9, <2>10 DEF Inv, ListensUntil
<1> QED
  BY <1>1, <1>3, <1>4, <1>5 DEF Accept

LEMMA SynStep ==
    ASSUME Inv, NEW c \in Client, Syn(c)
    PROVE  Inv'
<1>1. /\ end[c] = "new" /\ end' = [end EXCEPT ![c] = "half"] /\ pending' = <<c>> \o pending
      /\ UNCHANGED <<listening, count, served, resets, pc>>
  BY DEF Syn, taskVars
<1>2. Typed /\ ListInv /\ Counted
  BY DEF Inv
<1>3. /\ end' \in [Client -> Ends]
      /\ end'[c] = "half" /\ \A d \in Client : d # c => end'[d] = end[d]
  BY <1>1, <1>2 DEF Typed, Ends
<1>4. /\ ~Among(pending, c) /\ c \notin served
      /\ pending \in Seq(Client) /\ Distinct(pending)
  BY <1>1, <1>2 DEF ListInv
<1>5. /\ pending' \in Seq(Client) /\ Distinct(pending')
      /\ \A d : Among(pending', d) <=> d = c \/ Among(pending, d)
  BY <1>1, <1>4, PrefixedList
<1>6. ListInv'
  BY <1>1, <1>2, <1>3, <1>4, <1>5 DEF ListInv
<1>7. Waiting' = Waiting
  BY <1>3, <1>4, <1>5 DEF Waiting
<1>8. Counted'
  BY <1>1, <1>2, <1>7 DEF Counted
<1>9. Typed'
  <2>1. listening' \in BOOLEAN
    BY <1>1, <1>2 DEF Typed
  <2> QED
    BY <1>1, <1>2, <1>3, <2>1 DEF Typed
<1>10. WithinStructures' /\ ListensUntil'
  BY <1>1 DEF Inv, WithinStructures, ListensUntil, Used
<1> QED
  BY <1>6, <1>8, <1>9, <1>10 DEF Inv

LEMMA EstablishStep ==
    ASSUME Inv, NEW c \in Client, Establish(c)
    PROVE  Inv'
<1>1. PICK i \in DOMAIN pending :
         /\ end[c] = "half" /\ pending[i] = c
         /\ end' = [end EXCEPT ![c] = "open"]
         /\ IF pc = "accepting"
            THEN /\ pending' = Unlinked(i) /\ served' = served \cup {c}
                 /\ StartReceive(c) /\ UNCHANGED count
            ELSE count' = count + 1 /\ UNCHANGED <<pending, served, taskVars>>
         /\ UNCHANGED <<listening, resets>>
  BY DEF Establish, HalfOpen
<1>2. /\ Typed /\ ListInv /\ Counted /\ ListensUntil
      /\ pending \in Seq(Client) /\ Distinct(pending) /\ i \in 1..Len(pending)
  BY DEF Inv, ListInv
<1>3. /\ end' \in [Client -> Ends]
      /\ end'[c] = "open" /\ \A d \in Client : d # c => end'[d] = end[d]
  BY <1>1, <1>2 DEF Typed, Ends
<1>4. /\ Among(pending, c) /\ c \notin served /\ c \notin Waiting
  BY <1>1, <1>2 DEF Among, ListInv, Waiting
<1>5. listening' \in BOOLEAN
  BY <1>1, <1>2 DEF Typed
<1>6. CASE pc = "accepting"
  <2>1. /\ pending' = Unlinked(i) /\ served' = served \cup {c} /\ count' = count /\ pc' = "function"
    BY <1>1, <1>6 DEF StartReceive
  <2>2. /\ pending' \in Seq(Client) /\ Distinct(pending')
        /\ \A d : Among(pending', d) <=> Among(pending, d) /\ d # c
    BY <1>1, <1>2, <2>1, UnlinkedList
  <2>3. ListInv'
    BY <1>2, <1>3, <2>1, <2>2 DEF ListInv
  <2>4. Waiting' = Waiting
    BY <1>3, <1>4, <2>2 DEF Waiting
  <2>5. Counted'
    BY <1>1, <1>2, <2>1, <2>4 DEF Counted
  <2>6. /\ IsFiniteSet(served') /\ Cardinality(served') \in Nat /\ Cardinality(served) \in Nat
        /\ Cardinality(served') <= Cardinality(served) + 1
    BY <1>2, <2>1, OneMore DEF Typed
  <2>7. Typed'
    BY <1>1, <1>2, <1>3, <1>5, <2>6 DEF Typed
  <2>8. WithinStructures'
    BY <1>1, <1>6, <2>1, <2>6, ServerAssumption DEF Inv, WithinStructures
  <2>9. ListensUntil'
    <3>1. Used' >= Used
      <4>1. listening' = listening /\ Cardinality(served') >= Cardinality(served)
        BY <1>1, <1>2, <1>4, <2>1, <2>6, OneMore DEF Typed
      <4> QED
        BY <2>6, <4>1 DEF Used
    <3>2. Used \in Nat /\ Used' \in Nat /\ Sockets \in Nat
      BY <1>2, <2>6, UsedNat, ServerAssumption DEF Used
    <3> QED
      BY <1>1, <1>2, <3>1, <3>2 DEF ListensUntil
  <2> QED
    BY <2>3, <2>5, <2>7, <2>8, <2>9 DEF Inv
<1>7. CASE pc # "accepting"
  <2>1. count' = count + 1 /\ pending' = pending /\ served' = served /\ pc' = pc
    BY <1>1, <1>7 DEF taskVars
  <2>2. ListInv'
    BY <1>1, <1>2, <1>3, <2>1 DEF ListInv
  <2>3. Waiting' = Waiting \cup {c}
    BY <1>3, <1>4, <2>1 DEF Waiting
  <2>4. Counted'
    <3>1. IsFiniteSet(Waiting \cup {c}) /\ Cardinality(Waiting \cup {c}) = Cardinality(Waiting) + 1
      BY <1>2, <1>4, OneMore DEF Counted
    <3> QED
      BY <1>1, <1>2, <2>1, <2>3, <3>1 DEF Counted
  <2>5. Typed'
    BY <1>1, <1>2, <1>3, <1>5, <2>1 DEF Typed
  <2>6. WithinStructures' /\ ListensUntil'
    BY <1>1, <2>1 DEF Inv, WithinStructures, ListensUntil, Used
  <2> QED
    BY <2>2, <2>4, <2>5, <2>6 DEF Inv
<1> QED
  BY <1>6, <1>7

LEMMA GiveUpStep ==
    ASSUME Inv, NEW c \in Client, GiveUp(c)
    PROVE  Inv'
<1>1. PICK i \in DOMAIN pending :
         /\ end[c] = "half" /\ pending[i] = c
         /\ end' = [end EXCEPT ![c] = "reset"] /\ pending' = Unlinked(i)
         /\ UNCHANGED <<listening, count, served, resets, pc>>
  BY DEF GiveUp, HalfOpen, taskVars
<1>2. /\ Typed /\ ListInv /\ Counted
      /\ pending \in Seq(Client) /\ Distinct(pending) /\ i \in 1..Len(pending)
  BY DEF Inv, ListInv
<1>3. /\ end' \in [Client -> Ends]
      /\ end'[c] = "reset" /\ \A d \in Client : d # c => end'[d] = end[d]
  BY <1>1, <1>2 DEF Typed, Ends
<1>4. /\ pending' \in Seq(Client) /\ Distinct(pending')
      /\ \A d : Among(pending', d) <=> Among(pending, d) /\ d # c
  BY <1>1, <1>2, UnlinkedList
<1>5. ListInv'
  BY <1>1, <1>2, <1>3, <1>4 DEF ListInv
<1>6. Waiting' = Waiting
  BY <1>1, <1>3, <1>4 DEF Waiting
<1>7. Counted'
  BY <1>1, <1>2, <1>6 DEF Counted
<1>8. Typed'
  <2>1. listening' \in BOOLEAN
    BY <1>1, <1>2 DEF Typed
  <2> QED
    BY <1>1, <1>2, <1>3, <2>1 DEF Typed
<1>9. WithinStructures' /\ ListensUntil'
  BY <1>1 DEF Inv, WithinStructures, ListensUntil, Used
<1> QED
  BY <1>5, <1>7, <1>8, <1>9 DEF Inv

LEMMA ClosedStep ==
    ASSUME Inv, NEW c \in Client, Close(c)
    PROVE  Inv'
<1>1. /\ end[c] = "open" /\ end' = [end EXCEPT ![c] = "fin"]
      /\ UNCHANGED <<listening, pending, count, served, resets, pc>>
  BY DEF Close, stackVars, taskVars
<1>2. Typed /\ ListInv /\ Counted
  BY DEF Inv
<1>3. /\ end' \in [Client -> Ends]
      /\ end'[c] = "fin" /\ \A d \in Client : d # c => end'[d] = end[d]
  BY <1>1, <1>2 DEF Typed, Ends
<1>4. ListInv'
  BY <1>1, <1>2, <1>3 DEF ListInv
<1>5. Waiting' = Waiting
  BY <1>1, <1>3 DEF Waiting
<1>6. Counted'
  BY <1>1, <1>2, <1>5 DEF Counted
<1> QED
  BY <1>1, <1>3, <1>4, <1>6, Elsewhere

(* The list when a connection was taken off it, or was not on it. *)
LEMMA ResetList ==
    ASSUME ListInv, NEW c \in Client, Reset(c)
    PROVE  /\ pending' \in Seq(Client) /\ Distinct(pending')
           /\ \A d : Among(pending', d) => Among(pending, d)
<1>1. pending \in Seq(Client) /\ Distinct(pending) /\ DOMAIN pending = 1..Len(pending)
  BY DEF ListInv
<1>2. CASE UNCHANGED pending
  BY <1>1, <1>2
<1>3. ASSUME NEW i \in DOMAIN pending, pending' = Unlinked(i)
      PROVE  /\ pending' \in Seq(Client) /\ Distinct(pending')
             /\ \A d : Among(pending', d) => Among(pending, d)
  BY <1>1, <1>3, UnlinkedList
<1> QED
  BY <1>2, <1>3 DEF Reset

LEMMA ResetStep ==
    ASSUME Inv, NEW c \in Client, Reset(c)
    PROVE  Inv'
<1>1. /\ Typed /\ ListInv /\ Counted
      /\ end[c] \in {"open", "fin"} /\ end' = [end EXCEPT ![c] = "reset"]
      /\ resets' = resets + 1 /\ UNCHANGED <<listening, count, served, pc>>
  BY DEF Inv, Reset, taskVars
<1>2. resets' \in Nat /\ resets' > 0
  BY <1>1 DEF Typed
<1>3. /\ end' \in [Client -> Ends]
      /\ end'[c] = "reset" /\ \A d \in Client : d # c => end'[d] = end[d]
  BY <1>1 DEF Typed, Ends
<1>4. Typed'
  <2>1. listening' \in BOOLEAN
    BY <1>1 DEF Typed
  <2> QED
    BY <1>1, <1>2, <1>3, <2>1 DEF Typed
<1>5. /\ pending' \in Seq(Client) /\ Distinct(pending')
      /\ \A d : Among(pending', d) => Among(pending, d)
  BY <1>1, ResetList
<1>6. ListInv'
  BY <1>1, <1>3, <1>5 DEF ListInv
<1>7. Counted'
  <2>1. Waiting' \subseteq Waiting
    BY <1>1, <1>3, <1>5 DEF Waiting
  <2>2. IsFiniteSet(Waiting')
    BY <1>1, <2>1, FS_Subset DEF Counted
  <2> QED
    BY <1>2, <2>2 DEF Counted
<1>8. WithinStructures'
  BY <1>1 DEF Inv, WithinStructures
<1> QED
  BY <1>1, <1>2, <1>4, <1>6, <1>7, <1>8 DEF Inv, ListensUntil

LEMMA Inductive == Inv /\ [Next]_vars => Inv'
<1> SUFFICES ASSUME Inv, [Next]_vars PROVE Inv'
  OBVIOUS
<1>1. CASE Accept
  BY <1>1, AcceptStep
<1>2. CASE ReceiveFunction \/ ReceiveMeta \/ ReceiveData
  BY <1>2, ElsewhereQuiet DEF ReceiveFunction, ReceiveMeta, ReceiveData, Take, Leave, stackVars
<1>3. CASE ReceiveFails \/ ReceiveTimesOut
  BY <1>3, ElsewhereQuiet DEF ReceiveFails, ReceiveTimesOut, Leave, stackVars, clientVars
<1>4. CASE Reply
  BY <1>4, ElsewhereQuiet DEF Reply, Answer, ReplyFails, StartReceive, Leave, stackVars, clientVars
<1>5. ASSUME NEW c \in Client, Syn(c) \/ Establish(c) \/ GiveUp(c) PROVE Inv'
  BY <1>5, SynStep, EstablishStep, GiveUpStep
<1>6. ASSUME NEW c \in Client, Close(c) \/ Reset(c) PROVE Inv'
  BY <1>6, ClosedStep, ResetStep
<1>7. ASSUME NEW c \in Client, Ask(c) \/ Arrive(c) PROVE Inv'
  BY <1>7, ElsewhereQuiet DEF Ask, Arrive, stackVars, taskVars
<1>8. CASE UNCHANGED vars
  BY <1>8, ElsewhereQuiet DEF vars, stackVars, clientVars, taskVars
<1> QED
  BY <1>1, <1>2, <1>3, <1>4, <1>5, <1>6, <1>7, <1>8 DEF Next, SlaveStep

LEMMA Invariant == Spec => []Inv
  BY Initial, Inductive, PTL DEF Spec

(* No more structures are taken than the stack has: accept fails for want  *)
(* of one before it could overrun them (modbus-tcp.c:605, network.c:105).  *)
THEOREM StructuresSuffice == Spec => []WithinStructures
<1>1. Inv => WithinStructures
  BY DEF Inv
<1> QED
  BY <1>1, Invariant, PTL

(* The server stops listening only when every structure was given to a     *)
(* connection, or after a reset (modbus-tcp.c:605-612, modbus_slave.c:177).*)
THEOREM ListensUntilExhausted == Spec => []ListensUntil
<1>1. Inv => ListensUntil
  BY DEF Inv
<1> QED
  BY <1>1, Invariant, PTL

-----------------------------------------------------------------------------
(* The answers.  The bytes of a connection, those the task holds and those *)
(* it has not read, stay what the client sent: whole requests in their     *)
(* order, but for the end of a connection that was reset.  As long as the  *)
(* requests are known, the first of them begins the request after those    *)
(* answered, and what the task holds is as long as its place in receive_msg*)
(* says.                                                                   *)

Receiving == pc \in {"function", "meta", "data", "reply"}

Joined(f, g) == f \o g

(* The bytes of a connection the server is still to answer, those it holds *)
(* of the next request first.  Nothing reads the bytes of a connection it  *)
(* has left.                                                               *)
Flow(c) == IF Receiving /\ c = s THEN Joined(query, stream[c]) ELSE stream[c]
Read(c) == c \notin served \/ (Receiving /\ c = s)

(* How many bytes of its request follow a byte. *)
Rest(byte) == RequestLength(byte.request) - byte.at

(* Each byte is one of the requests that were sent, q.                     *)
Genuine(q, f) ==
    \A i \in 1..Len(f) :
        /\ f[i].number \in 1..Len(q)
        /\ f[i].request = q[f[i].number]
        /\ f[i].at \in 1..RequestLength(f[i].request)

(* A byte is followed by the rest of its request, and that by the first of *)
(* the next.                                                               *)
Ordered(f) ==
    \A i, j \in 1..Len(f) :
        /\ i <= j /\ j - i <= Rest(f[i]) =>
              f[j].number = f[i].number /\ f[j].at = f[i].at + (j - i)
        /\ j - i = Rest(f[i]) + 1 =>
              f[j].number = f[i].number + 1 /\ f[j].at = 1

(* Nothing is missing at the end, of n requests. *)
Complete(f, n) ==
    \A i \in 1..Len(f) :
        IF f[i].number = n THEN i + Rest(f[i]) = Len(f) ELSE i + Rest(f[i]) < Len(f)

(* The next byte is the first of the request after the k answered ones, if *)
(* those were known.                                                       *)
Knows(q, k) == \A i \in 1..Len(q) : i <= k => Handled(Fc[q[i]])

InStep(q, f, open, k) ==
    /\ f # <<>> => f[1].number = k + 1 /\ f[1].at = 1
    /\ f = <<>> /\ open => Len(q) = k

InFlow(q, f, open, k) ==
    /\ Genuine(q, f)
    /\ Ordered(f)
    /\ open => Complete(f, Len(q))
    /\ Knows(q, k) => InStep(q, f, open, k)

FlowInv ==
    \A c \in Client : Read(c) => InFlow(sent[c], Flow(c), end[c] = "open", Len(answered[c]))

Known(c) == Knows(sent[c], Len(answered[c]))

(* Nothing was answered on a connection nobody has accepted, and nothing   *)
(* sent on one that is not established.                                    *)
NewInv ==
    /\ \A c \in Client : c \notin served => answered[c] = <<>>
    /\ \A c \in Client : end[c] \in {"new", "half"} =>
          c \notin served /\ sent[c] = <<>> /\ stream[c] = <<>>

(* How far the server is in a request it knows. *)
QueryInv ==
    /\ Receiving => s \in served
    /\ pc = "function" => query = <<>> /\ need = Header + 1
    /\ pc = "meta" => Len(query) = Header + 1 /\ need = IndicationMeta(fc) /\ need > 0
    /\ pc = "data" => Len(query) > Header /\ need > 0
    /\ pc = "reply" => Len(query) > Header
    /\ pc \in {"meta", "data", "reply"} /\ Known(s) => fc = Fc[query[2].request]
    /\ pc = "data" /\ Known(s) /\ Handled(fc) => Len(query) + need = RequestLength(query[1].request)
    /\ pc = "reply" /\ Known(s) /\ Handled(fc) => Len(query) = RequestLength(query[1].request)

IInv == Inv /\ TypeOK /\ NewInv /\ FlowInv /\ QueryInv /\ AnswersOwnRequests
-----------------------------------------------------------------------------
(* g is what stands at n+1, n+2, ... of f. *)
Part(f, g, n) ==
    /\ Len(g) + n <= Len(f)
    /\ \A i \in 1..Len(g) : g[i] = f[i + n]

-----------------------------------------------------------------------------
LEMMA LengthOfRequest ==
    ASSUME NEW r \in Request
    PROVE  RequestLength(r) \in Nat /\ RequestLength(r) > Header
  <1>1. Fc[r] \in Nat /\ Nb[r] \in Nat /\ OtherLength \in Nat \ {0}
    BY ServerAssumption
  <1>2. Bytes(Nb[r]) \in Nat
    BY <1>1 DEF Bytes
  <1>3. RequestBuilt(Fc[r], Nb[r], Nb[r]) \in Nat \ {0}
    BY <1>1, <1>2 DEF RequestBuilt, RequestCount
  <1> QED
    BY <1>1, <1>3 DEF RequestLength, Header

LEMMA ByteOf ==
    ASSUME NEW byte \in ByteType
    PROVE  /\ byte.number \in 1..MaxRequests /\ byte.request \in Request /\ byte.at \in Nat \ {0}
           /\ Rest(byte) \in Int /\ Rest(byte) = RequestLength(byte.request) - byte.at
  BY LengthOfRequest DEF ByteType, Rest

LEMMA PartInPlace ==
    ASSUME NEW f \in Seq(ByteType), NEW g \in Seq(ByteType), NEW n \in Nat, Part(f, g, n)
    PROVE  /\ Ordered(f) => Ordered(g)
           /\ \A q : Genuine(q, f) => Genuine(q, g)
           /\ \A m : Len(g) + n = Len(f) /\ Complete(f, m) => Complete(g, m)
  <1>1. Len(f) \in Nat /\ Len(g) \in Nat /\ Len(g) + n <= Len(f)
    BY DEF Part
  <1>2. \A i \in 1..Len(g) : i + n \in 1..Len(f) /\ g[i] = f[i + n] /\ g[i] \in ByteType
    BY <1>1, ElementOf DEF Part
  <1>3. \A i \in 1..Len(g) : Rest(g[i]) \in Int
    BY <1>2, ByteOf
  <1>4. ASSUME Ordered(f) PROVE Ordered(g)
    <2>1. ASSUME NEW i \in 1..Len(g), NEW j \in 1..Len(g)
          PROVE  /\ i <= j /\ j - i <= Rest(g[i]) =>
                       g[j].number = g[i].number /\ g[j].at = g[i].at + (j - i)
                 /\ j - i = Rest(g[i]) + 1 => g[j].number = g[i].number + 1 /\ g[j].at = 1
      <3>1. i + n \in 1..Len(f) /\ j + n \in 1..Len(f) /\ g[i] = f[i + n] /\ g[j] = f[j + n]
        BY <1>2
      <3>2. i \in Int /\ j \in Int
        BY <1>1
      <3>3. (j + n) - (i + n) = j - i /\ (i <= j => i + n <= j + n)
        BY <3>2
      <3> QED
        BY <1>4, <3>1, <3>3 DEF Ordered
    <2> QED
      BY <2>1 DEF Ordered
  <1>5. ASSUME NEW q, Genuine(q, f) PROVE Genuine(q, g)
    BY <1>2, <1>5 DEF Genuine
  <1>6. ASSUME NEW m, Len(g) + n = Len(f), Complete(f, m) PROVE Complete(g, m)
    <2>1. ASSUME NEW i \in 1..Len(g)
          PROVE  IF g[i].number = m THEN i + Rest(g[i]) = Len(g) ELSE i + Rest(g[i]) < Len(g)
      <3>1. i + n \in 1..Len(f) /\ g[i] = f[i + n] /\ Rest(g[i]) \in Int
        BY <1>2, <1>3
      <3>2. IF g[i].number = m THEN i + n + Rest(g[i]) = Len(f) ELSE i + n + Rest(g[i]) < Len(f)
        BY <3>1, <1>6 DEF Complete
      <3> QED
        BY <1>1, <1>6, <3>1, <3>2
    <2> QED
      BY <2>1 DEF Complete
  <1> QED
    BY <1>4, <1>5, <1>6

(* The bytes of request r, the n-th of a client. *)
BytesOf(n, r) == [k \in 1..RequestLength(r) |-> [number |-> n, request |-> r, at |-> k]]

LEMMA NewBytes ==
    ASSUME NEW n \in 1..MaxRequests, NEW r \in Request
    PROVE  /\ BytesOf(n, r) \in Seq(ByteType) /\ Len(BytesOf(n, r)) = RequestLength(r)
           /\ \A k \in 1..RequestLength(r) :
                 /\ BytesOf(n, r)[k] = [number |-> n, request |-> r, at |-> k]
                 /\ Rest(BytesOf(n, r)[k]) = RequestLength(r) - k
  <1>1. RequestLength(r) \in Nat
    BY LengthOfRequest
  <1>2. \A k \in 1..RequestLength(r) : [number |-> n, request |-> r, at |-> k] \in ByteType
    BY DEF ByteType
  <1>3. BytesOf(n, r) \in Seq(ByteType) /\ Len(BytesOf(n, r)) = RequestLength(r)
    BY <1>1, <1>2 DEF BytesOf
  <1> QED
    BY <1>1, <1>3 DEF BytesOf, Rest

(* A whole request more at the end of a flow in which none is cut short. *)
LEMMA RequestAppended ==
    ASSUME NEW f \in Seq(ByteType), NEW n \in Nat, n + 1 \in 1..MaxRequests, NEW r \in Request,
           Ordered(f), Complete(f, n), \A i \in 1..Len(f) : f[i].number <= n
    PROVE  /\ Ordered(f \o BytesOf(n + 1, r))
           /\ Complete(f \o BytesOf(n + 1, r), n + 1)
  <1> DEFINE b == BytesOf(n + 1, r)
             g == f \o b
             l == Len(f)
             m == RequestLength(r)
  <1>1. /\ m \in Nat /\ m > 0 /\ l \in Nat
        /\ b \in Seq(ByteType) /\ Len(b) = m
        /\ \A k \in 1..m : b[k].number = n + 1 /\ b[k].at = k /\ Rest(b[k]) = m - k
    <2>1. /\ m \in Nat /\ m > 0 /\ l \in Nat
      BY LengthOfRequest DEF Header
    <2>2. /\ b \in Seq(ByteType) /\ Len(b) = m
          /\ \A k \in 1..m : b[k] = [number |-> n + 1, request |-> r, at |-> k] /\ Rest(b[k]) = m - k
      BY NewBytes
    <2> HIDE DEF b, m
    <2>3. \A k \in 1..m : b[k].number = n + 1 /\ b[k].at = k
      BY <2>2
    <2> QED
      BY <2>1, <2>2, <2>3
  <1> HIDE DEF b, m
  <1>2. /\ Len(g) = l + m
        /\ \A i \in 1..l : g[i] = f[i]
        /\ \A i \in 1..m : g[i + l] = b[i]
    <2>1. Len(g) = Len(f) + Len(b)
      BY <1>1, ConcatOf
    <2>3. \A i \in 1..Len(f) : g[i] = f[i]
      BY <1>1, ConcatElements
    <2>2. \A i \in 1..Len(b) : g[i + Len(f)] = b[i]
      BY <1>1, ConcatElements
    <2> QED
      BY <1>1, <2>1, <2>2, <2>3
  <1>3. ASSUME NEW i \in 1..l
        PROVE  /\ g[i] = f[i] /\ Rest(g[i]) \in Int /\ g[i].number \in Nat /\ g[i].number <= n
               /\ i + Rest(g[i]) <= l
               /\ g[i].number # n => i + Rest(g[i]) < l
    <2>1. f[i] \in ByteType
      BY ElementOf
    <2>2. Rest(f[i]) \in Int /\ f[i].number \in Nat
      BY <2>1, ByteOf
    <2> QED
      BY <1>1, <1>2, <2>2 DEF Complete
  <1>4. ASSUME NEW i \in (l + 1)..(l + m)
        PROVE  g[i].number = n + 1 /\ g[i].at = i - l /\ Rest(g[i]) = m - (i - l)
    <2>1. i - l \in 1..m /\ (i - l) + l = i
      BY <1>1
    <2>2. g[i] = b[i - l]
      BY <1>2, <2>1
    <2> QED
      BY <1>1, <2>1, <2>2
  <1> HIDE DEF g, l
  <1>5. ASSUME NEW i \in 1..(l + m), NEW j \in 1..(l + m)
        PROVE  /\ i <= j /\ j - i <= Rest(g[i]) =>
                     g[j].number = g[i].number /\ g[j].at = g[i].at + (j - i)
               /\ j - i = Rest(g[i]) + 1 => g[j].number = g[i].number + 1 /\ g[j].at = 1
    <2>1. CASE i \in 1..l /\ j \in 1..l
      <3>1. g[i] = f[i] /\ g[j] = f[j]
        BY <1>3, <2>1
      <3> QED
        BY <2>1, <3>1 DEF Ordered, l
    <2>2. CASE i \in 1..l /\ j \in (l + 1)..(l + m)
      <3>1. /\ Rest(g[i]) \in Int /\ g[i].number \in Nat /\ g[i].number <= n
            /\ i + Rest(g[i]) <= l /\ (g[i].number # n => i + Rest(g[i]) < l)
        BY <1>3, <2>2
      <3>2. g[j].number = n + 1 /\ g[j].at = j - l
        BY <1>4, <2>2
      <3>3. ~(j - i <= Rest(g[i]))
        BY <1>1, <2>2, <3>1
      <3>4. j - i = Rest(g[i]) + 1 => g[i].number = n /\ j - l = 1
        BY <1>1, <2>2, <3>1
      <3> QED
        BY <3>2, <3>3, <3>4
    <2>3. CASE i \in (l + 1)..(l + m) /\ j \in (l + 1)..(l + m)
      <3>1. /\ g[i].number = n + 1 /\ g[i].at = i - l /\ Rest(g[i]) = m - (i - l)
            /\ g[j].number = n + 1 /\ g[j].at = j - l
        BY <1>4, <2>3
      <3>2. i \in Int /\ j \in Int /\ j <= l + m
        BY <1>1
      <3>3. j - l = (i - l) + (j - i) /\ ~(j - i = m - (i - l) + 1)
        BY <1>1, <3>2
      <3> QED
        BY <3>1, <3>3
    <2>4. CASE i \in (l + 1)..(l + m) /\ j \in 1..l
      <3>1. Rest(g[i]) = m - (i - l)
        BY <1>4, <2>4
      <3>2. j < i /\ ~(j - i = m - (i - l) + 1)
        BY <1>1, <2>4
      <3> QED
        BY <1>1, <2>4, <3>1, <3>2
    <2> QED
      BY <1>1, <2>1, <2>2, <2>3, <2>4
  <1>6. Ordered(g)
    BY <1>2, <1>5 DEF Ordered, b, l, m
  <1>7. ASSUME NEW i \in 1..(l + m)
        PROVE  IF g[i].number = n + 1 THEN i + Rest(g[i]) = l + m ELSE i + Rest(g[i]) < l + m
    <2>1. CASE i \in 1..l
      <3>1. g[i].number # n + 1 /\ i + Rest(g[i]) <= l /\ Rest(g[i]) \in Int
        BY <1>3, <2>1
      <3> QED
        BY <1>1, <2>1, <3>1
    <2>2. CASE i \in (l + 1)..(l + m)
      <3>1. g[i].number = n + 1 /\ Rest(g[i]) = m - (i - l)
        BY <1>4, <2>2
      <3> QED
        BY <1>1, <2>2, <3>1
    <2> QED
      BY <1>1, <2>1, <2>2
  <1>8. Complete(g, n + 1)
    BY <1>2, <1>7 DEF Complete
  <1> QED
    BY <1>6, <1>8 DEF g, b


LEMMA StillInFlow ==
    ASSUME NEW q, NEW f, NEW k, NEW open \in BOOLEAN, NEW still \in BOOLEAN,
           InFlow(q, f, open, k), still => open
    PROVE  InFlow(q, f, still, k)
  BY DEF InFlow, InStep

LEMMA EmptyInFlow ==
    ASSUME NEW q, NEW open, NEW k, open => Len(q) = k
    PROVE  InFlow(q, <<>>, open, k)
  <1>1. Len(<<>>) = 0
    OBVIOUS
  <1>2. Genuine(q, <<>>) /\ Ordered(<<>>) /\ Complete(<<>>, Len(q))
    BY <1>1 DEF Genuine, Ordered, Complete
  <1> QED
    BY <1>2 DEF InFlow, InStep

(* What is left of a connection that was reset. *)
LEMMA PrefixInFlow ==
    ASSUME NEW q, NEW f \in Seq(ByteType), NEW g \in Seq(ByteType), NEW k, NEW open,
           Part(f, g, 0), InFlow(q, f, open, k)
    PROVE  InFlow(q, g, FALSE, k)
  <1>1. Genuine(q, g) /\ Ordered(g)
    BY PartInPlace DEF InFlow
  <1>2. g # <<>> => 1 \in 1..Len(g) /\ Len(g) \in Nat
    OBVIOUS
  <1>3. g # <<>> => f # <<>> /\ g[1] = f[1]
    BY <1>2 DEF Part
  <1> QED
    BY <1>1, <1>3 DEF InFlow, InStep

(* The bytes up to the end of the next request are those of one request in *)
(* their places.                                                           *)
LEMMA FirstRequest ==
    ASSUME NEW q \in Seq(Request), NEW f \in Seq(ByteType), NEW k \in Nat, NEW open,
           InFlow(q, f, open, k), Knows(q, k), f # <<>>
    PROVE  /\ k + 1 \in 1..Len(q) /\ f[1].request = q[k + 1] /\ f[1].request \in Request
           /\ \A j \in 1..Len(f) : j <= RequestLength(f[1].request) =>
                 f[j].number = k + 1 /\ f[j].at = j /\ f[j].request = f[1].request
  <1>1. Len(f) \in Nat /\ 1 \in 1..Len(f) /\ f[1] \in ByteType
    BY ElementOf
  <1>2. f[1].number = k + 1 /\ f[1].at = 1
    BY DEF InFlow, InStep
  <1>3. k + 1 \in 1..Len(q) /\ f[1].request = q[k + 1]
    BY <1>1, <1>2 DEF InFlow, Genuine
  <1>4. f[1].request \in Request /\ Rest(f[1]) = RequestLength(f[1].request) - 1
    BY <1>1, <1>2, ByteOf
  <1>5. RequestLength(f[1].request) \in Nat
    BY <1>4, LengthOfRequest
  <1>6. ASSUME NEW j \in 1..Len(f), j <= RequestLength(f[1].request)
        PROVE  f[j].number = k + 1 /\ f[j].at = j /\ f[j].request = f[1].request
    <2>1. 1 <= j /\ j - 1 <= Rest(f[1]) /\ 1 + (j - 1) = j
      BY <1>4, <1>5, <1>6
    <2>2. f[j].number = f[1].number /\ f[j].at = f[1].at + (j - 1)
      BY <1>1, <2>1 DEF InFlow, Ordered
    <2>3. f[j].request = q[f[j].number]
      BY DEF InFlow, Genuine
    <2> QED
      BY <1>2, <1>3, <2>1, <2>2, <2>3
  <1> QED
    BY <1>3, <1>4, <1>6

(* What is left when the next request, m, was answered. *)
LEMMA AnsweredInFlow ==
    ASSUME NEW q \in Seq(Request), NEW m \in Seq(ByteType), NEW g \in Seq(ByteType), NEW k \in Nat,
           NEW open \in BOOLEAN, InFlow(q, Joined(m, g), open, k), m # <<>>,
           Knows(q, k + 1) => Len(m) = RequestLength(m[1].request)
    PROVE  InFlow(q, g, open, k + 1)
  <1> DEFINE f == Joined(m, g)
  <1>1. /\ f \in Seq(ByteType) /\ Len(f) = Len(m) + Len(g) /\ Len(m) \in Nat /\ Len(g) \in Nat
        /\ Len(m) > 0
    BY DEF Joined
  <1>2. \A i \in 1..Len(m) : f[i] = m[i]
    BY ConcatElements DEF Joined
  <1>3. \A i \in 1..Len(g) : f[i + Len(m)] = g[i]
    BY ConcatElements DEF Joined
  <1> HIDE DEF f
  <1>4. Part(f, g, Len(m)) /\ Len(g) + Len(m) = Len(f)
    BY <1>1, <1>3 DEF Part
  <1>5. InFlow(q, f, open, k)
    BY DEF f
  <1>6. Genuine(q, g) /\ Ordered(g) /\ (open => Complete(g, Len(q)))
    BY <1>1, <1>4, <1>5, PartInPlace DEF InFlow
  <1>7. ASSUME Knows(q, k + 1) PROVE InStep(q, g, open, k + 1)
    <2>1. Knows(q, k)
      <3>1. \A i \in 1..Len(q) : i <= k => i <= k + 1
        OBVIOUS
      <3> QED
        BY <1>7, <3>1 DEF Knows
    <2>2. f # <<>> /\ 1 \in 1..Len(f) /\ f[1] = m[1]
      BY <1>1, <1>2
    <2>3. f[1].number = k + 1 /\ f[1].at = 1
      BY <1>5, <2>1, <2>2 DEF InFlow, InStep
    <2>4. Rest(f[1]) = Len(m) - 1
      <3>1. f[1] \in ByteType
        BY <1>1, <2>2, ElementOf
      <3> QED
        BY <1>7, <2>2, <2>3, <3>1, ByteOf
    <2>5. ASSUME g # <<>> PROVE g[1].number = k + 2 /\ g[1].at = 1
      <3>1. 1 \in 1..Len(g) /\ 1 + Len(m) \in 1..Len(f) /\ g[1] = f[1 + Len(m)]
        BY <1>1, <1>3, <2>5
      <3>2. (1 + Len(m)) - 1 = Rest(f[1]) + 1
        BY <1>1, <2>4
      <3>3. f[1 + Len(m)].number = f[1].number + 1 /\ f[1 + Len(m)].at = 1
        BY <1>5, <2>2, <3>1, <3>2 DEF InFlow, Ordered
      <3> QED
        BY <2>3, <3>1, <3>3
    <2>6. ASSUME g = <<>>, open PROVE Len(q) = k + 1
      <3>1. 1 + Rest(f[1]) = Len(f)
        BY <1>1, <2>4, <2>6
      <3>2. f[1].number = Len(q)
        BY <1>5, <2>2, <2>6, <3>1 DEF InFlow, Complete
      <3> QED
        BY <2>3, <3>2
    <2> QED
      BY <2>5, <2>6 DEF InStep
  <1> QED
    BY <1>6, <1>7 DEF InFlow

(* A request more, when the client is still there. *)
LEMMA AskedInFlow ==
    ASSUME NEW q \in Seq(Request), NEW f \in Seq(ByteType), NEW k \in Nat, NEW r \in Request,
           Len(q) + 1 \in 1..MaxRequests, InFlow(q, f, TRUE, k)
    PROVE  InFlow(Append(q, r), Joined(f, BytesOf(Len(q) + 1, r)), TRUE, k)
  <1> DEFINE b == BytesOf(Len(q) + 1, r)
             g == Joined(f, b)
             p == Append(q, r)
  <1>1. /\ Len(q) \in Nat /\ Len(p) = Len(q) + 1 /\ p[Len(q) + 1] = r
        /\ \A i \in 1..Len(q) : p[i] = q[i]
    OBVIOUS
  <1>2. /\ b \in Seq(ByteType) /\ Len(b) = RequestLength(r) /\ RequestLength(r) \in Nat
        /\ RequestLength(r) > 0
    BY NewBytes, LengthOfRequest DEF Header
  <1>3. \A i \in 1..RequestLength(r) : b[i] = [number |-> Len(q) + 1, request |-> r, at |-> i]
    BY NewBytes
  <1>4. Ordered(g) /\ Complete(g, Len(q) + 1)
    <2>1. \A i \in 1..Len(f) : f[i].number <= Len(q)
      BY DEF InFlow, Genuine
    <2>2. Ordered(f) /\ Complete(f, Len(q))
      BY DEF InFlow
    <2> QED
      BY <1>1, <2>1, <2>2, RequestAppended DEF Joined
  <1> HIDE DEF b, p
  <1>5. /\ Len(g) = Len(f) + Len(b) /\ Len(f) \in Nat
    BY <1>2 DEF Joined
  <1>6. \A i \in 1..Len(f) : g[i] = f[i]
    BY <1>2, ConcatElements DEF Joined
  <1>7. \A i \in 1..Len(b) : g[i + Len(f)] = b[i]
    BY <1>2, ConcatElements DEF Joined
  <1> HIDE DEF g
  <1>8. Genuine(p, g)
    <2>1. ASSUME NEW i \in 1..Len(g)
          PROVE  /\ g[i].number \in 1..Len(p) /\ g[i].request = p[g[i].number]
                 /\ g[i].at \in 1..RequestLength(g[i].request)
      <3>1. CASE i \in 1..Len(f)
        <4>1. /\ f[i].number \in 1..Len(q) /\ f[i].request = q[f[i].number]
              /\ f[i].at \in 1..RequestLength(f[i].request)
          BY <3>1 DEF InFlow, Genuine
        <4> QED
          BY <1>1, <1>6, <3>1, <4>1
      <3>2. CASE i \notin 1..Len(f)
        <4>1. i - Len(f) \in 1..RequestLength(r) /\ (i - Len(f)) + Len(f) = i
          BY <1>2, <1>5, <3>2
        <4>2. g[i] = [number |-> Len(q) + 1, request |-> r, at |-> i - Len(f)]
          BY <1>2, <1>3, <1>7, <4>1
        <4> QED
          BY <1>1, <4>1, <4>2
      <3> QED
        BY <3>1, <3>2
    <2> QED
      BY <2>1 DEF Genuine
  <1>9. ASSUME Knows(p, k) PROVE InStep(p, g, TRUE, k)
    <2>1. Knows(q, k)
      BY <1>1, <1>9 DEF Knows
    <2>2. Len(g) > 0 /\ Len(g) \in Nat /\ g # <<>>
      BY <1>2, <1>5
    <2>3. CASE f # <<>>
      <3>1. 1 \in 1..Len(f) /\ g[1] = f[1]
        BY <1>5, <1>6, <2>3
      <3> QED
        BY <2>1, <2>2, <2>3, <3>1 DEF InFlow, InStep
    <2>4. CASE f = <<>>
      <3>1. Len(q) = k
        BY <2>1, <2>4 DEF InFlow, InStep
      <3>2. Len(f) = 0 /\ 1 \in 1..Len(b) /\ 1 \in 1..RequestLength(r) /\ 1 + 0 = 1
        BY <1>2, <2>4
      <3>3. g[1] = [number |-> Len(q) + 1, request |-> r, at |-> 1]
        BY <1>3, <1>7, <3>2
      <3> QED
        BY <2>2, <3>1, <3>3 DEF InStep
    <2> QED
      BY <2>3, <2>4
  <1> QED
    BY <1>1, <1>4, <1>8, <1>9 DEF InFlow, b, g, p

-----------------------------------------------------------------------------
(* The types, of the clients, of the stack and of the slave task. *)
ClientTypes ==
    /\ end \in [Client -> Ends]
    /\ sent \in [Client -> Seq(Request)]
    /\ stream \in [Client -> Seq(ByteType)]
    /\ arrived \in [Client -> Nat] /\ \A c \in Client : arrived[c] <= Len(stream[c])
    /\ resets \in 0..Resets

StackTypes ==
    listening \in BOOLEAN /\ pending \in Seq(Client) /\ count \in Nat /\ served \subseteq Client

TaskTypes ==
    /\ s \in Client \cup {NoClient}
    /\ pc \in {"accept", "accepting", "function", "meta", "data", "reply"}
    /\ need \in 0..MaxAdu /\ query \in Seq(ByteType) /\ fc \in 0..255

OtherTypes == answered \in [Client -> Seq(0..MaxRequests)] /\ pauses \in 0..Pauses

LEMMA TypesOf ==
    TypeOK <=> ClientTypes /\ StackTypes /\ TaskTypes /\ OtherTypes /\ WithinStructures
  BY DEF TypeOK, ClientTypes, StackTypes, TaskTypes, OtherTypes, Ends

LEMMA ClientTypesKept == ClientTypes /\ UNCHANGED clientVars => ClientTypes'
  BY DEF ClientTypes, clientVars

LEMMA StackTypesKept == StackTypes /\ UNCHANGED stackVars => StackTypes'
  <1> SUFFICES ASSUME StackTypes, UNCHANGED stackVars PROVE StackTypes'
    OBVIOUS
  <1>1. listening' \in BOOLEAN
    BY DEF StackTypes, stackVars
  <1> QED
    BY <1>1 DEF StackTypes, stackVars

LEMMA TaskTypesKept == TaskTypes /\ UNCHANGED taskVars => TaskTypes'
  BY DEF TaskTypes, taskVars

LEMMA StartTypes ==
    ASSUME NEW c \in Client, StartReceive(c)
    PROVE  TaskTypes'
  <1>1. 2 \in 0..MaxAdu /\ 0 \in 0..255
    BY ServerAssumption
  <1>2. <<>> \in Seq(ByteType)
    OBVIOUS
  <1> QED
    BY <1>1, <1>2 DEF StartReceive, TaskTypes, Header

LEMMA LeaveTypes == TaskTypes /\ Leave => TaskTypes'
  <1>1. 0 \in 0..MaxAdu /\ 0 \in 0..255
    BY ServerAssumption
  <1>2. <<>> \in Seq(ByteType)
    OBVIOUS
  <1> QED
    BY <1>1, <1>2 DEF Leave, TaskTypes

(* The client the slave task receives from. *)
LEMMA AtClient ==
    ASSUME IInv, Receiving
    PROVE  /\ s \in Client /\ s \in served
           /\ stream[s] \in Seq(ByteType) /\ query \in Seq(ByteType)
           /\ arrived[s] \in Nat /\ arrived[s] <= Len(stream[s]) /\ Len(stream[s]) \in Nat
           /\ need \in Nat
  BY DEF IInv, TypeOK, QueryInv

(* The same bytes, split at another place. *)
LEMMA Regrouped ==
    ASSUME NEW S, NEW q \in Seq(S), NEW a \in Seq(S), NEW b \in Seq(S)
    PROVE  /\ Joined(q, a) \in Seq(S) /\ Len(Joined(q, a)) = Len(q) + Len(a)
           /\ \A i \in 1..Len(q) : Joined(q, a)[i] = q[i]
           /\ Joined(Joined(q, a), b) = Joined(q, Joined(a, b))
           /\ \A i \in 1..Len(Joined(q, a)) : Joined(q, a)[i] = Joined(q, Joined(a, b))[i]
           /\ Len(Joined(q, a)) <= Len(Joined(q, Joined(a, b)))
  <1>1. /\ Joined(q, a) \in Seq(S) /\ Len(Joined(q, a)) = Len(q) + Len(a)
        /\ \A i \in 1..Len(q) : Joined(q, a)[i] = q[i]
    BY DEF Joined
  <1>2. Joined(Joined(q, a), b) = Joined(q, Joined(a, b))
    BY DEF Joined
  <1>3. \A i \in 1..Len(Joined(q, a)) : Joined(q, a)[i] = Joined(Joined(q, a), b)[i]
    BY <1>1 DEF Joined
  <1>4. Len(Joined(q, a)) <= Len(Joined(Joined(q, a), b))
    BY <1>1 DEF Joined
  <1> QED
    BY <1>1, <1>2, <1>3, <1>4

(* What Take reads: the next bytes of the stream move to the query. *)
Left == SubSeq(stream[s], need + 1, Len(stream[s]))

LEMMA TakeMoves ==
    ASSUME IInv, Receiving, arrived[s] >= need
    PROVE  /\ need \in 0..Len(stream[s])
           /\ Taken \in Seq(ByteType) /\ Len(Taken) = Len(query) + need
           /\ \A i \in 1..Len(query) : Taken[i] = query[i]
           /\ Left \in Seq(ByteType) /\ Len(Left) = Len(stream[s]) - need
           /\ Joined(Taken, Left) = Joined(query, stream[s])
           /\ \A i \in 1..Len(Taken) : Taken[i] = Joined(query, stream[s])[i]
           /\ Len(Taken) <= Len(Joined(query, stream[s]))
  <1>1. /\ stream[s] \in Seq(ByteType) /\ query \in Seq(ByteType) /\ need \in 0..Len(stream[s])
    BY AtClient
  <1> DEFINE a == SubSeq(stream[s], 1, need)
  <1>2. a \in Seq(ByteType) /\ Len(a) = need
    BY <1>1, Cut
  <1>3. Left \in Seq(ByteType) /\ Len(Left) = Len(stream[s]) - need
    BY <1>1, Cut DEF Left
  <1>4. Joined(a, Left) = stream[s]
    BY <1>1, Cut DEF Left, Joined
  <1>5. Taken = Joined(query, a)
    BY DEF Taken, Joined
  <1> HIDE DEF a
  <1>6. /\ Joined(query, a) \in Seq(ByteType) /\ Len(Joined(query, a)) = Len(query) + Len(a)
        /\ \A i \in 1..Len(query) : Joined(query, a)[i] = query[i]
        /\ Joined(Joined(query, a), Left) = Joined(query, Joined(a, Left))
        /\ \A i \in 1..Len(Joined(query, a)) : Joined(query, a)[i] = Joined(query, Joined(a, Left))[i]
        /\ Len(Joined(query, a)) <= Len(Joined(query, Joined(a, Left)))
    <2>1. query \in Seq(ByteType) /\ a \in Seq(ByteType) /\ Left \in Seq(ByteType)
      BY <1>1, <1>2, <1>3
    <2> QED
      BY <2>1, Regrouped
  <1> QED
    BY <1>1, <1>2, <1>3, <1>4, <1>5, <1>6

LEMMA TakeTypes ==
    ASSUME IInv, Receiving, arrived[s] >= need, UNCHANGED <<end, sent, resets>>,
           stream' = [stream EXCEPT ![s] = SubSeq(@, need + 1, Len(@))],
           arrived' = [arrived EXCEPT ![s] = @ - need]
    PROVE  ClientTypes'
  <1>1. /\ SubSeq(stream[s], need + 1, Len(stream[s])) \in Seq(ByteType)
        /\ Len(SubSeq(stream[s], need + 1, Len(stream[s]))) = Len(stream[s]) - need
    BY TakeMoves DEF Left
  <1>2. /\ s \in Client /\ arrived[s] \in Nat /\ arrived[s] <= Len(stream[s]) /\ need \in Nat
        /\ Len(stream[s]) \in Nat
    BY AtClient
  <1>3. ClientTypes
    BY TypesOf DEF IInv
  <1>4. stream' \in [Client -> Seq(ByteType)] /\ arrived' \in [Client -> Nat]
    BY <1>1, <1>2, <1>3 DEF ClientTypes
  <1>5. \A c \in Client : arrived'[c] <= Len(stream'[c])
    BY <1>1, <1>2, <1>3 DEF ClientTypes
  <1> QED
    BY <1>3, <1>4, <1>5 DEF ClientTypes

-----------------------------------------------------------------------------
(* The steps, and the flows. *)

LEMMA FlowType ==
    ASSUME TypeOK, NEW c \in Client
    PROVE  /\ Flow(c) \in Seq(ByteType) /\ sent[c] \in Seq(Request) /\ stream[c] \in Seq(ByteType)
           /\ answered[c] \in Seq(0..MaxRequests) /\ Len(answered[c]) \in Nat
  <1>1. /\ sent[c] \in Seq(Request) /\ stream[c] \in Seq(ByteType) /\ query \in Seq(ByteType)
        /\ answered[c] \in Seq(0..MaxRequests)
    BY DEF TypeOK
  <1>2. Joined(query, stream[c]) \in Seq(ByteType)
    BY <1>1 DEF Joined
  <1> QED
    BY <1>1, <1>2 DEF Flow

(* Nothing is read from a connection, and no request sent or answered. *)
LEMMA FlowsKept ==
    ASSUME IInv, UNCHANGED <<sent, answered>>,
           \A c \in Client : Read(c)' =>
               Read(c) /\ Flow(c)' = Flow(c) /\ (end'[c] = "open" => end[c] = "open")
    PROVE  FlowInv' /\ AnswersOwnRequests'
  <1>1. ASSUME NEW c \in Client, Read(c)'
        PROVE  InFlow(sent'[c], Flow(c)', end'[c] = "open", Len(answered'[c]))
    <2>1. InFlow(sent[c], Flow(c), end[c] = "open", Len(answered[c]))
      BY <1>1 DEF IInv, FlowInv
    <2>2. InFlow(sent[c], Flow(c), end'[c] = "open", Len(answered[c]))
      BY <1>1, <2>1, StillInFlow
    <2>3. Flow(c)' = Flow(c)
      BY <1>1
    <2> QED
      BY <2>2, <2>3
  <1>2. FlowInv'
    BY <1>1 DEF FlowInv
  <1>3. AnswersOwnRequests'
    BY DEF IInv, AnswersOwnRequests, KnownUpTo
  <1> QED
    BY <1>2, <1>3

(* Nothing changes for the clients nobody has accepted. *)
LEMMA NewKept ==
    ASSUME NewInv, UNCHANGED <<served, end, sent, answered>>,
           \A c \in Client : stream'[c] = stream[c] \/ c \in served
    PROVE  NewInv'
  BY DEF NewInv

LEMMA QueryIdle ==
    ASSUME pc' \in {"accept", "accepting"}
    PROVE  QueryInv' /\ ~Receiving'
  BY DEF QueryInv, Receiving

LEMMA QueryStarted ==
    ASSUME NEW c \in Client, StartReceive(c), c \in served'
    PROVE  QueryInv' /\ Receiving' /\ s' = c /\ query' = <<>>
  BY DEF QueryInv, Receiving, StartReceive

LEMMA QueryKept ==
    ASSUME QueryInv, UNCHANGED taskVars, served \subseteq served', Known(s)' => Known(s)
    PROVE  QueryInv' /\ Receiving' = Receiving
  BY DEF QueryInv, Receiving, taskVars

Conversation ==
    /\ ClientTypes /\ StackTypes /\ TaskTypes /\ OtherTypes
    /\ NewInv /\ FlowInv /\ QueryInv /\ AnswersOwnRequests

LEMMA ConversationOf ==
    IInv <=> Inv /\ Conversation
  BY TypesOf DEF IInv, Conversation, Inv

(* Nothing but the task's place in the code changes, and it leaves. *)
LEMMA LeaveStep ==
    ASSUME IInv, Leave, UNCHANGED <<stackVars, answered>>, pauses' \in 0..Pauses, ClientTypes',
           UNCHANGED <<end, sent>>, \A c \in Client : stream'[c] = stream[c] \/ c \in served
    PROVE  Conversation'
  <1>1. /\ ClientTypes /\ StackTypes /\ TaskTypes /\ OtherTypes /\ NewInv
    BY ConversationOf DEF Conversation
  <1>2. StackTypes' /\ TaskTypes' /\ OtherTypes'
    BY <1>1, StackTypesKept, LeaveTypes DEF OtherTypes
  <1>3. UNCHANGED <<pending, served>> /\ pc' = "accept"
    BY DEF stackVars, Leave
  <1>4. NewInv'
    BY <1>1, <1>3, NewKept
  <1>5. QueryInv' /\ ~Receiving'
    BY <1>3, QueryIdle
  <1>6. ASSUME NEW c \in Client, Read(c)' PROVE Read(c) /\ Flow(c)' = Flow(c)
    <2>1. c \notin served /\ c \notin served'
      BY <1>3, <1>5, <1>6 DEF Read
    <2>2. ~(Receiving /\ c = s)
      BY <2>1, AtClient
    <2> QED
      BY <1>5, <2>1, <2>2 DEF Read, Flow
  <1>7. FlowInv' /\ AnswersOwnRequests'
    BY <1>6, FlowsKept
  <1> QED
    BY <1>2, <1>4, <1>5, <1>7 DEF Conversation

LEMMA ReceiveFailsStep ==
    ASSUME IInv, ReceiveFails \/ ReceiveTimesOut
    PROVE  Conversation'
  <1>1. /\ Leave /\ UNCHANGED <<stackVars, clientVars, answered>>
        /\ (pauses' = pauses \/ (pauses' = pauses + 1 /\ pauses < Pauses))
    <2>1. CASE ReceiveFails
      BY <2>1 DEF ReceiveFails
    <2>2. CASE ReceiveTimesOut
      BY <2>2 DEF ReceiveTimesOut
    <2> QED
      BY <2>1, <2>2
  <1>2. ClientTypes /\ pauses \in 0..Pauses /\ Pauses \in Nat
    BY ConversationOf, ServerAssumption DEF Conversation, OtherTypes
  <1>3. ClientTypes' /\ pauses' \in 0..Pauses
    BY <1>1, <1>2, ClientTypesKept
  <1> QED
    BY <1>1, <1>3, LeaveStep DEF clientVars

LEMMA ReplyFailsStep ==
    ASSUME IInv, Reply, ReplyFails
    PROVE  Conversation'
  <1>1. /\ Leave /\ UNCHANGED <<stackVars, clientVars, answered, pauses>>
    BY DEF Reply, ReplyFails
  <1>2. ClientTypes /\ pauses \in 0..Pauses
    BY ConversationOf DEF Conversation, OtherTypes
  <1>3. ClientTypes' /\ pauses' \in 0..Pauses
    BY <1>1, <1>2, ClientTypesKept
  <1> QED
    BY <1>1, <1>3, LeaveStep DEF clientVars

(* The bytes of a request that would be too long are read and dropped. *)
LEMMA TooLongStep ==
    ASSUME IInv, ReceiveMeta, Leave
    PROVE  Conversation'
  <1>1. arrived[s] >= need /\ Receiving
    BY DEF ReceiveMeta, Receiving
  <1>2. /\ UNCHANGED <<stackVars, end, sent, resets, answered, pauses>>
        /\ stream' = [stream EXCEPT ![s] = SubSeq(@, need + 1, Len(@))]
        /\ arrived' = [arrived EXCEPT ![s] = @ - need]
    BY DEF ReceiveMeta, Take
  <1>3. ClientTypes'
    BY <1>1, <1>2, TakeTypes
  <1>4. /\ pauses' \in 0..Pauses
        /\ \A c \in Client : stream'[c] = stream[c] \/ c \in served
    <2>1. pauses \in 0..Pauses /\ ClientTypes /\ s \in served
      BY <1>1, ConversationOf, AtClient DEF Conversation, OtherTypes
    <2> QED
      BY <1>2, <2>1 DEF ClientTypes
  <1> QED
    BY <1>2, <1>3, <1>4, LeaveStep

(* A part of a request is read: what the task holds changes, not the flow. *)
LEMMA TakeStep ==
    ASSUME IInv, Take, Receiving, Receiving', TaskTypes', QueryInv'
    PROVE  Conversation'
  <1>1. /\ arrived[s] >= need /\ query' = Taken
        /\ stream' = [stream EXCEPT ![s] = SubSeq(@, need + 1, Len(@))]
        /\ arrived' = [arrived EXCEPT ![s] = @ - need]
        /\ UNCHANGED <<stackVars, end, sent, resets, s, answered, pauses>>
    BY DEF Take, Taken
  <1>2. /\ ClientTypes /\ StackTypes /\ TaskTypes /\ OtherTypes /\ NewInv
    BY ConversationOf DEF Conversation
  <1>3. ClientTypes' /\ StackTypes' /\ OtherTypes'
    BY <1>1, <1>2, TakeTypes, StackTypesKept DEF OtherTypes
  <1>4. UNCHANGED <<pending, served>> /\ s \in served /\ s \in Client
    BY <1>1, AtClient DEF stackVars
  <1>5. stream'[s] = Left /\ \A c \in Client : c # s => stream'[c] = stream[c]
    BY <1>1, <1>2, <1>4 DEF ClientTypes, Left
  <1>6. NewInv'
    BY <1>1, <1>2, <1>4, <1>5, NewKept
  <1>7. ASSUME NEW c \in Client, Read(c)' PROVE Read(c) /\ Flow(c)' = Flow(c)
    <2>1. Read(c)
      BY <1>1, <1>4, <1>7 DEF Read
    <2>2. CASE c = s
      <3>1. Flow(c)' = Joined(Taken, Left)
        BY <1>1, <1>5, <2>2 DEF Flow
      <3>2. Flow(c) = Joined(query, stream[s])
        BY <2>2 DEF Flow
      <3> QED
        BY <1>1, <2>1, <3>1, <3>2, TakeMoves
    <2>3. CASE c # s
      BY <1>1, <1>5, <2>1, <2>3 DEF Flow
    <2> QED
      BY <2>2, <2>3
  <1>8. FlowInv' /\ AnswersOwnRequests'
    BY <1>1, <1>7, FlowsKept
  <1> QED
    BY <1>3, <1>6, <1>8 DEF Conversation

LEMMA Meta ==
    ASSUME NEW f \in 0..255
    PROVE  IndicationMeta(f) \in 0..9 /\ IndicationMeta(f) \in 0..MaxAdu
  <1>1. IndicationMeta(f) \in 0..9
    BY DEF IndicationMeta
  <1> QED
    BY <1>1, ServerAssumption

(* The lengths of a request the server knows: up to the byte count, and    *)
(* with what the count says.                                               *)
LEMMA KnownLengths ==
    ASSUME NEW r \in Request, NEW f, f = Fc[r], Handled(f)
    PROVE  /\ IndicationMeta(f) = 0 => RequestLength(r) = Header + 1
           /\ IndicationMeta(f) > 0 =>
                 /\ f \notin WriteMany \cup {FC_WRITE_AND_READ_REGISTERS} =>
                       RequestLength(r) = Header + 1 + IndicationMeta(f)
                 /\ f \in WriteMany \cup {FC_WRITE_AND_READ_REGISTERS} =>
                       /\ Header + 1 + IndicationMeta(f) = CountPlace(f)
                       /\ RequestLength(r) = CountPlace(f) + RequestCount(f, Nb[r], Nb[r])
           /\ RequestCount(f, Nb[r], Nb[r]) \in 0..255
  <1> USE DEF FC_READ_COILS, FC_READ_DISCRETE_INPUTS, FC_READ_HOLDING_REGISTERS,
              FC_READ_INPUT_REGISTERS, FC_WRITE_SINGLE_COIL, FC_WRITE_SINGLE_REGISTER,
              FC_READ_EXCEPTION_STATUS, FC_WRITE_MULTIPLE_COILS, FC_WRITE_MULTIPLE_REGISTERS,
              FC_REPORT_SLAVE_ID, FC_WRITE_AND_READ_REGISTERS, Header
  <1>1. f \in Int /\ RequestCount(f, Nb[r], Nb[r]) \in 0..255
    BY ServerAssumption
  <1>2. f \in {1, 2, 3, 4, 5, 6, 7, 15, 16, 17, 23}
    BY DEF Handled, Functions, ReadBits, ReadRegisters, WriteOne, WriteMany
  <1>3. CASE f \in {1, 2, 3, 4, 5, 6}
    <2>2. f \notin WriteMany \cup {23} /\ f # 7 /\ f # 23 /\ f <= 6
      BY <1>3 DEF WriteMany
    <2>1. IndicationMeta(f) = 4
      BY <2>2 DEF IndicationMeta
    <2>3. RequestBuilt(f, Nb[r], Nb[r]) = 5
      BY <1>3, <2>2 DEF RequestBuilt
    <2> QED
      BY <1>1, <2>1, <2>2, <2>3 DEF RequestLength
  <1>4. CASE f = 7
    <2>1. IndicationMeta(f) = 0
      BY <1>4 DEF IndicationMeta, WriteMany
    <2> QED
      BY <1>1, <1>4, <2>1 DEF RequestLength
  <1>5. CASE f \in {15, 16}
    <2>1. IndicationMeta(f) = 5 /\ f \in WriteMany /\ f # 7 /\ f # 17 /\ f # 23
      BY <1>5 DEF IndicationMeta, WriteMany
    <2>2. RequestBuilt(f, Nb[r], Nb[r]) = 6 + RequestCount(f, Nb[r], Nb[r])
      BY <2>1 DEF RequestBuilt
    <2> QED
      BY <1>1, <2>1, <2>2 DEF RequestLength, CountPlace
  <1>6. CASE f = 17
    <2>1. IndicationMeta(f) = 0 /\ f \notin WriteMany /\ f # 23
      BY <1>6 DEF IndicationMeta, WriteMany
    <2>2. RequestBuilt(f, Nb[r], Nb[r]) = 1
      BY <1>6, <2>1 DEF RequestBuilt
    <2> QED
      BY <1>1, <1>6, <2>1, <2>2 DEF RequestLength
  <1>7. CASE f = 23
    <2>1. IndicationMeta(f) = 9 /\ f \notin WriteMany
      BY <1>7 DEF IndicationMeta, WriteMany
    <2>2. RequestBuilt(f, Nb[r], Nb[r]) = 10 + RequestCount(f, Nb[r], Nb[r])
      BY <1>7, <2>1 DEF RequestBuilt
    <2> QED
      BY <1>1, <1>7, <2>1, <2>2 DEF RequestLength, CountPlace
  <1> QED
    BY <1>2, <1>3, <1>4, <1>5, <1>6, <1>7

(* What was taken, of a client whose answered requests were known: the     *)
(* bytes of the next one, as far as it goes.                               *)
LEMMA TakenKnown ==
    ASSUME IInv, Receiving, arrived[s] >= need, Known(s), Len(Taken) > 0
    PROVE  /\ Taken[1].request \in Request
           /\ \A j \in 1..Len(Taken) : j <= RequestLength(Taken[1].request) =>
                 Taken[j].at = j /\ Taken[j].request = Taken[1].request
  <1> DEFINE f == Joined(query, stream[s])
  <1>1. /\ s \in Client /\ s \in served /\ stream[s] \in Seq(ByteType) /\ query \in Seq(ByteType)
    BY AtClient
  <1>2. /\ sent[s] \in Seq(Request) /\ Len(answered[s]) \in Nat /\ f \in Seq(ByteType)
    BY <1>1, FlowType DEF IInv, Joined
  <1>3. InFlow(sent[s], f, end[s] = "open", Len(answered[s]))
    BY <1>1 DEF IInv, FlowInv, Read, Flow
  <1>4. /\ Taken \in Seq(ByteType) /\ Len(Taken) \in Nat
        /\ \A i \in 1..Len(Taken) : Taken[i] = f[i]
        /\ Len(Taken) <= Len(f)
    BY TakeMoves
  <1> HIDE DEF f
  <1>5. f # <<>> /\ 1 \in 1..Len(Taken) /\ Taken[1] = f[1] /\ Len(f) \in Nat
    BY <1>2, <1>4
  <1>6. /\ f[1].request \in Request
        /\ \A j \in 1..Len(f) : j <= RequestLength(f[1].request) =>
              f[j].number = Len(answered[s]) + 1 /\ f[j].at = j /\ f[j].request = f[1].request
    BY <1>2, <1>3, <1>5, FirstRequest DEF Known
  <1>7. \A j \in 1..Len(Taken) : j \in 1..Len(f)
    BY <1>4, <1>5
  <1> QED
    BY <1>4, <1>5, <1>6, <1>7

LEMMA TakeKeepsKnown ==
    ASSUME Take
    PROVE  Known(s)' = Known(s) /\ s' = s /\ served' = served /\ query' = Taken
  BY DEF Take, Taken, Known, Knows, stackVars

LEMMA FunctionByte ==
    ASSUME NEW byte \in ByteType, NEW f, f \in FunctionIn(byte)
    PROVE  f \in 0..255 /\ (byte.at = Header + 1 => f = Fc[byte.request])
  <1>1. byte.request \in Request
    BY ByteOf
  <1>2. CASE byte.at = Header + 1
    <2>1. f = Fc[byte.request]
      BY <1>2 DEF FunctionIn
    <2>2. Fc[byte.request] \in 0..127
      BY <1>1, ServerAssumption
    <2> QED
      BY <2>1, <2>2
  <1>3. CASE byte.at # Header + 1
    BY <1>3, ServerAssumption DEF FunctionIn
  <1> QED
    BY <1>2, <1>3

LEMMA CountByte ==
    ASSUME NEW byte \in ByteType, NEW f, NEW n, n \in CountIn(f, byte)
    PROVE  /\ n \in 0..255
           /\ byte.at = CountPlace(f) /\ Fc[byte.request] = f =>
                 n = RequestCount(f, Nb[byte.request], Nb[byte.request])
  <1>1. byte.request \in Request
    BY ByteOf
  <1>2. CASE byte.at = CountPlace(f) /\ Fc[byte.request] = f
    <2>1. n = RequestCount(f, Nb[byte.request], Nb[byte.request])
      BY <1>2 DEF CountIn
    <2>2. RequestCount(Fc[byte.request], Nb[byte.request], Nb[byte.request]) \in 0..255
      BY <1>1, ServerAssumption
    <2> QED
      BY <1>2, <2>1, <2>2
  <1>3. CASE ~(byte.at = CountPlace(f) /\ Fc[byte.request] = f)
    BY <1>3, ServerAssumption DEF CountIn
  <1> QED
    BY <1>2, <1>3

LEMMA QueryMeta ==
    ASSUME pc' = "meta", s' \in served', Len(query') = Header + 1, need' = IndicationMeta(fc'),
           need' > 0, Known(s)' => fc' = Fc[query'[2].request]
    PROVE  QueryInv'
  BY DEF QueryInv

LEMMA QueryData ==
    ASSUME pc' = "data", s' \in served', Len(query') > Header, need' > 0,
           Known(s)' => fc' = Fc[query'[2].request],
           Known(s)' /\ Handled(fc') => Len(query') + need' = RequestLength(query'[1].request)
    PROVE  QueryInv'
  BY DEF QueryInv, Handled, RequestLength, RequestBuilt, RequestCount

LEMMA QueryReply ==
    ASSUME pc' = "reply", s' \in served', Len(query') > Header,
           Known(s)' => fc' = Fc[query'[2].request],
           Known(s)' /\ Handled(fc') => Len(query') = RequestLength(query'[1].request)
    PROVE  QueryInv'
  BY DEF QueryInv, Handled, RequestLength, RequestBuilt, RequestCount

LEMMA ReceiveFunctionStep ==
    ASSUME IInv, ReceiveFunction
    PROVE  Conversation'
  <1>1. /\ pc = "function" /\ Take /\ arrived[s] >= need /\ Receiving
        /\ fc' \in FunctionIn(Taken[2]) /\ need' = IndicationMeta(fc')
        /\ (need' = 0 /\ pc' = "reply") \/ (need' # 0 /\ pc' = "meta")
    BY DEF ReceiveFunction, Take, Receiving, Header
  <1>2. query = <<>> /\ need = 2 /\ s \in Client /\ s \in served
    BY <1>1, AtClient DEF IInv, QueryInv, Header
  <1>3. Taken \in Seq(ByteType) /\ Len(Taken) = 2
    BY <1>1, <1>2, TakeMoves
  <1>4. Taken[1] \in ByteType /\ Taken[2] \in ByteType /\ Taken[2].request \in Request
    BY <1>3, ElementOf, ByteOf
  <1>5. fc' \in 0..255
    BY <1>1, <1>4, FunctionByte
  <1>6. need' \in 0..MaxAdu
    BY <1>1, <1>5, Meta
  <1>7. query' = Taken /\ s' = s /\ Known(s)' = Known(s) /\ served' = served
    BY <1>1, TakeKeepsKnown
  <1>8. TaskTypes'
    BY <1>1, <1>2, <1>3, <1>5, <1>6, <1>7 DEF TaskTypes
  <1>9. ASSUME Known(s)
        PROVE  /\ fc' = Fc[Taken[2].request] /\ Taken[1].request = Taken[2].request
    <2>1. Taken[1].request \in Request /\ RequestLength(Taken[1].request) >= 2
          /\ RequestLength(Taken[1].request) \in Nat
      BY <1>4, LengthOfRequest, ByteOf DEF Header
    <2>2. 2 \in 1..Len(Taken) /\ 2 <= RequestLength(Taken[1].request) /\ Len(Taken) > 0
      BY <1>3, <2>1
    <2>3. Taken[2].at = 2 /\ Taken[2].request = Taken[1].request
      BY <1>1, <1>9, <2>2, TakenKnown
    <2> QED
      BY <1>1, <1>4, <2>3, FunctionByte DEF Header
  <1>10. ASSUME Known(s), Handled(fc'), need' = 0
         PROVE  Len(Taken) = RequestLength(Taken[1].request)
    <2>1. /\ Taken[1].request \in Request /\ fc' = Fc[Taken[1].request]
          /\ IndicationMeta(fc') = 0
      BY <1>1, <1>4, <1>9, <1>10
    <2>2. RequestLength(Taken[1].request) = Header + 1
      BY <1>10, <2>1, KnownLengths
    <2> QED
      BY <1>3, <2>2 DEF Header
  <1>11. QueryInv'
    <2>1. CASE pc' = "reply"
      <3>1. s' \in served'
        BY <1>2, <1>7
      <3>3. Len(query') > Header
        BY <1>3, <1>7 DEF Header
      <3>4. need' = 0
        BY <1>1, <2>1
      <3>2. /\ Known(s)' => fc' = Fc[query'[2].request]
            /\ Known(s)' /\ Handled(fc') => Len(query') = RequestLength(query'[1].request)
        BY <1>7, <1>9, <1>10, <3>4
      <3> QED
        BY <2>1, <3>1, <3>2, <3>3, QueryReply
    <2>2. CASE pc' = "meta"
      <3>1. s' \in served' /\ Len(query') = Header + 1 /\ need' > 0
        BY <1>1, <1>2, <1>3, <1>6, <1>7, <2>2 DEF Header
      <3>2. Known(s)' => fc' = Fc[query'[2].request]
        BY <1>7, <1>9
      <3> QED
        BY <1>1, <2>2, <3>1, <3>2, QueryMeta
    <2> QED
      BY <1>1, <2>1, <2>2
  <1>12. Receiving'
    BY <1>1 DEF Receiving
  <1> QED
    BY <1>1, <1>8, <1>11, <1>12, TakeStep

LEMMA ReceiveDataStep ==
    ASSUME IInv, ReceiveData
    PROVE  Conversation'
  <1>1. /\ pc = "data" /\ Take /\ arrived[s] >= need /\ Receiving
        /\ fc' = fc /\ need' = 0 /\ pc' = "reply" /\ Receiving'
    BY DEF ReceiveData, Take, Receiving
  <1>2. /\ s \in Client /\ s \in served /\ fc \in 0..255 /\ Len(query) > Header /\ Len(query) \in Nat
        /\ need \in Nat
    BY <1>1, AtClient DEF IInv, QueryInv, TypeOK
  <1>3. /\ Taken \in Seq(ByteType) /\ Len(Taken) = Len(query) + need
        /\ Taken[1] = query[1] /\ Taken[2] = query[2]
    <2>1. 1 \in 1..Len(query) /\ 2 \in 1..Len(query)
      BY <1>2 DEF Header
    <2> QED
      BY <1>1, <2>1, TakeMoves
  <1>4. query' = Taken /\ s' = s /\ Known(s)' = Known(s) /\ served' = served
    BY <1>1, TakeKeepsKnown
  <1>5. TaskTypes'
    BY <1>1, <1>2, <1>3, <1>4, ServerAssumption DEF TaskTypes
  <1>6. /\ Known(s) => fc = Fc[query[2].request]
        /\ Known(s) /\ Handled(fc) => Len(query) + need = RequestLength(query[1].request)
    BY <1>1 DEF IInv, QueryInv
  <1>7. QueryInv'
    <2>1. s' \in served' /\ Len(query') > Header
      BY <1>2, <1>3, <1>4 DEF Header
    <2>2. /\ Known(s)' => fc' = Fc[query'[2].request]
          /\ Known(s)' /\ Handled(fc') => Len(query') = RequestLength(query'[1].request)
      BY <1>1, <1>3, <1>4, <1>6
    <2> QED
      BY <1>1, <2>1, <2>2, QueryReply
  <1> QED
    BY <1>1, <1>5, <1>7, TakeStep

LEMMA ReceiveMetaStep ==
    ASSUME IInv, ReceiveMeta
    PROVE  Conversation'
  <1>1. CASE Leave
    BY <1>1, TooLongStep
  <1>2. CASE ~Leave
    <2>1. pc = "meta" /\ arrived[s] >= need /\ Receiving
      BY DEF ReceiveMeta, Receiving
    <2>2. /\ s \in Client /\ s \in served /\ fc \in 0..255 /\ Len(query) = 2 /\ query \in Seq(ByteType)
          /\ need = IndicationMeta(fc) /\ need > 0 /\ need \in 0..9
          /\ (Known(s) => fc = Fc[query[2].request])
      <3>1. s \in Client /\ s \in served /\ query \in Seq(ByteType)
        BY <2>1, AtClient
      <3>2. fc \in 0..255
        BY DEF IInv, TypeOK
      <3>3. IndicationMeta(fc) \in 0..9
        BY <3>2, Meta
      <3>4. /\ Len(query) = 2 /\ need = IndicationMeta(fc) /\ need > 0
            /\ (Known(s) => fc = Fc[query[2].request])
        BY <2>1 DEF IInv, QueryInv, Header
      <3> QED
        BY <3>1, <3>2, <3>3, <3>4
    <2>3. /\ Taken \in Seq(ByteType) /\ Len(Taken) = 2 + need
          /\ Taken[1] = query[1] /\ Taken[2] = query[2]
      <3>1. 1 \in 1..Len(query) /\ 2 \in 1..Len(query)
        BY <2>2
      <3> QED
        BY <2>1, <2>2, <3>1, TakeMoves
    <2> DEFINE l == Len(Taken)
    <2>4. l \in 3..11
      BY <2>2, <2>3
    <2>14. Taken[l] \in ByteType /\ Taken[1] \in ByteType
      <3>1. l \in 1..Len(Taken) /\ 1 \in 1..Len(Taken)
        BY <2>4
      <3> QED
        BY <2>3, <3>1, ElementOf
    <2>5. PICK n \in (IF fc \in WriteMany \cup {FC_WRITE_AND_READ_REGISTERS}
                      THEN CountIn(fc, Taken[l]) ELSE {0}) :
             /\ ~(l + n > MaxAdu)
             /\ Take /\ need' = n /\ fc' = fc
             /\ pc' = IF n = 0 THEN "reply" ELSE "data"
      BY <1>2 DEF ReceiveMeta
    <2> HIDE DEF l
    <2>6. n \in 0..255
      <3>1. CASE fc \in WriteMany \cup {FC_WRITE_AND_READ_REGISTERS}
        <4>1. n \in CountIn(fc, Taken[l])
          BY <2>5, <3>1
        <4> QED
          BY <2>14, <4>1, CountByte
      <3>2. CASE fc \notin WriteMany \cup {FC_WRITE_AND_READ_REGISTERS}
        BY <2>5, <3>2
      <3> QED
        BY <3>1, <3>2
    <2>7. n \in 0..MaxAdu
      BY <2>4, <2>5, <2>6, ServerAssumption
    <2>8. query' = Taken /\ s' = s /\ Known(s)' = Known(s) /\ served' = served
      BY <2>5, TakeKeepsKnown
    <2>9. pc' \in {"reply", "data"} /\ Receiving' /\ (pc' = "data" => n > 0)
          /\ (pc' = "reply" => n = 0)
      BY <2>5, <2>6 DEF Receiving
    <2>10. TaskTypes'
      BY <2>2, <2>3, <2>5, <2>7, <2>8, <2>9 DEF TaskTypes
    <2>11. ASSUME Known(s), Handled(fc)
           PROVE  l + n = RequestLength(Taken[1].request)
      <3> DEFINE r == Taken[1].request
      <3>7. r \in Request
        BY <2>14, ByteOf
      <3>8. /\ \A j \in 1..Len(Taken) : j <= RequestLength(r) => Taken[j].at = j /\ Taken[j].request = r
        <4>1. Len(Taken) > 0
          <5>1. l > 0
            BY <2>4
          <5> QED
            BY <5>1 DEF l
        <4> QED
          BY <2>1, <2>11, <4>1, TakenKnown
      <3> HIDE DEF r
      <3>1. RequestLength(r) \in Nat /\ RequestLength(r) >= 2
        BY <3>7, LengthOfRequest DEF Header
      <3>2. Taken[2].request = r
        <4>1. 2 \in 1..Len(Taken)
          <5>1. 2 \in 1..l
            BY <2>4
          <5> QED
            BY <5>1 DEF l
        <4> QED
          BY <3>1, <3>8, <4>1
      <3>3. fc = Fc[r]
        BY <2>2, <2>3, <2>11, <3>2
      <3>4. l = Header + 1 + IndicationMeta(fc) /\ IndicationMeta(fc) > 0
        BY <2>2, <2>3 DEF Header, l
      <3>5. CASE fc \notin WriteMany \cup {FC_WRITE_AND_READ_REGISTERS}
        <4>1. n = 0
          BY <2>5, <3>5
        <4>2. RequestLength(r) = Header + 1 + IndicationMeta(fc)
          BY <2>11, <3>3, <3>4, <3>5, <3>7, KnownLengths
        <4> QED
          BY <2>4, <3>4, <4>1, <4>2 DEF r
      <3>6. CASE fc \in WriteMany \cup {FC_WRITE_AND_READ_REGISTERS}
        <4>1. l = CountPlace(fc) /\ RequestLength(r) = l + RequestCount(fc, Nb[r], Nb[r])
              /\ RequestCount(fc, Nb[r], Nb[r]) \in 0..255
          BY <2>11, <3>3, <3>4, <3>6, <3>7, KnownLengths
        <4>2. l \in 1..Len(Taken)
          <5>1. Len(Taken) = l
            BY DEF l
          <5> QED
            BY <2>4, <5>1
        <4>5. l <= RequestLength(r)
          BY <2>4, <3>1, <4>1
        <4>3. Taken[l].at = l /\ Taken[l].request = r
          BY <3>8, <4>2, <4>5
        <4>4. n = RequestCount(fc, Nb[r], Nb[r])
          <5>1. n \in CountIn(fc, Taken[l])
            BY <2>5, <3>6
          <5> QED
            BY <2>14, <3>3, <4>1, <4>3, <5>1, CountByte
        <4> QED
          BY <4>1, <4>4 DEF r
      <3> QED
        BY <3>5, <3>6
    <2>12. Known(s) => fc' = Fc[Taken[2].request]
      BY <2>2, <2>3, <2>5
    <2>13. QueryInv'
      <3>6. s' \in served'
        BY <2>2, <2>8
      <3>7. l > Header /\ l \in Nat
        BY <2>4 DEF Header
      <3>8. Len(query') = l /\ query' = Taken
        BY <2>8 DEF l
      <3>1. need' = n /\ fc' = fc
        BY <2>5
      <3>2. Known(s)' => fc' = Fc[query'[2].request]
        BY <2>8, <2>12
      <3>3. Known(s)' /\ Handled(fc') => l + n = RequestLength(query'[1].request)
        BY <2>8, <2>11, <3>1, <3>8
      <3>4. CASE pc' = "reply"
        <4>1. n = 0 /\ l + n = Len(query')
          BY <2>9, <3>4, <3>7, <3>8
        <4> QED
          BY <3>1, <3>2, <3>3, <3>4, <3>6, <3>7, <3>8, <4>1, QueryReply
      <3>5. CASE pc' = "data"
        <4>1. need' > 0 /\ l + n = Len(query') + need'
          BY <2>9, <3>1, <3>5, <3>8
        <4> QED
          BY <3>1, <3>2, <3>3, <3>5, <3>6, <3>7, <3>8, <4>1, QueryData
      <3> QED
        BY <2>9, <3>4, <3>5
    <2> QED
      BY <2>1, <2>5, <2>9, <2>10, <2>13, TakeStep
  <1> QED
    BY <1>1, <1>2

(* The flow the task takes its requests from, when one is complete. *)
LEMMA FlowAtReply ==
    ASSUME IInv, pc = "reply"
    PROVE  /\ s \in Client /\ s \in served /\ Receiving
           /\ query \in Seq(ByteType) /\ stream[s] \in Seq(ByteType) /\ Len(query) > Header
           /\ sent[s] \in Seq(Request) /\ Len(answered[s]) \in Nat
           /\ answered[s] \in Seq(0..MaxRequests)
           /\ Joined(query, stream[s]) \in Seq(ByteType)
           /\ InFlow(sent[s], Joined(query, stream[s]), end[s] = "open", Len(answered[s]))
  <1>1. Receiving
    BY DEF Receiving
  <1>2. /\ s \in Client /\ s \in served /\ stream[s] \in Seq(ByteType) /\ query \in Seq(ByteType)
    BY <1>1, AtClient
  <1>3. Len(query) > Header
    BY DEF IInv, QueryInv
  <1>4. /\ sent[s] \in Seq(Request) /\ Len(answered[s]) \in Nat
        /\ answered[s] \in Seq(0..MaxRequests)
    BY <1>2, FlowType DEF IInv
  <1>5. Joined(query, stream[s]) \in Seq(ByteType)
    BY <1>2 DEF Joined
  <1>6. InFlow(sent[s], Joined(query, stream[s]), end[s] = "open", Len(answered[s]))
    BY <1>1, <1>2 DEF IInv, FlowInv, Read, Flow
  <1> QED
    BY <1>1, <1>2, <1>3, <1>4, <1>5, <1>6

(* A complete request of a client whose requests are known up to it. *)
LEMMA QueryComplete ==
    ASSUME IInv, pc = "reply", Knows(sent[s], Len(answered[s]) + 1)
    PROVE  /\ Len(query) = RequestLength(query[1].request)
           /\ \A j \in 1..Len(query) : query[j].number = Len(answered[s]) + 1 /\ query[j].at = j
  <1> DEFINE f == Joined(query, stream[s])
             k == Len(answered[s])
  <1>1. /\ query \in Seq(ByteType) /\ stream[s] \in Seq(ByteType) /\ Len(query) > 1
        /\ sent[s] \in Seq(Request) /\ k \in Nat /\ f \in Seq(ByteType)
    BY FlowAtReply DEF Header
  <1>2. InFlow(sent[s], f, end[s] = "open", k)
    BY FlowAtReply
  <1>3. /\ Len(f) = Len(query) + Len(stream[s]) /\ Len(query) \in Nat /\ Len(stream[s]) \in Nat
    BY <1>1 DEF Joined
  <1>4. \A j \in 1..Len(query) : f[j] = query[j]
    BY <1>1, ConcatElements DEF Joined
  <1>5. Knows(sent[s], k)
    <2>1. \A i \in 1..Len(sent[s]) : i <= k => i <= k + 1
      BY <1>1
    <2> QED
      BY <2>1 DEF Knows
  <1>6. Known(s)
    BY <1>5 DEF Known
  <1> HIDE DEF f, k
  <1>7. f # <<>> /\ 1 \in 1..Len(query) /\ 2 \in 1..Len(query)
    BY <1>1, <1>3
  <1>8. f[1] = query[1] /\ f[2] = query[2]
    BY <1>4, <1>7
  <1>9. /\ k + 1 \in 1..Len(sent[s]) /\ f[1].request = sent[s][k + 1] /\ f[1].request \in Request
        /\ \A j \in 1..Len(f) : j <= RequestLength(f[1].request) =>
              f[j].number = k + 1 /\ f[j].at = j /\ f[j].request = f[1].request
    BY <1>1, <1>2, <1>5, <1>7, FirstRequest
  <1>10. Handled(Fc[f[1].request])
    <2>1. k + 1 <= Len(answered[s]) + 1
      BY <1>1 DEF k
    <2> QED
      BY <1>9, <2>1 DEF Knows
  <1>11. fc = Fc[query[2].request] /\ (Handled(fc) => Len(query) = RequestLength(query[1].request))
    BY <1>6 DEF IInv, QueryInv
  <1>12. RequestLength(f[1].request) \in Nat /\ RequestLength(f[1].request) >= 2
    BY <1>9, LengthOfRequest DEF Header
  <1>13. 2 \in 1..Len(f)
    BY <1>1, <1>3
  <1>14. f[2].request = f[1].request
    BY <1>9, <1>12, <1>13
  <1>15. Len(query) = RequestLength(query[1].request)
    BY <1>8, <1>10, <1>11, <1>14
  <1>16. ASSUME NEW j \in 1..Len(query) PROVE query[j].number = k + 1 /\ query[j].at = j
    <2>1. j \in 1..Len(f) /\ j <= RequestLength(f[1].request) /\ f[j] = query[j]
      BY <1>3, <1>4, <1>8, <1>15
    <2> QED
      BY <1>9, <2>1
  <1> QED
    BY <1>15, <1>16 DEF k

LEMMA AnswerStep ==
    ASSUME IInv, Reply, Answer
    PROVE  Conversation'
  <1> DEFINE k == Len(answered[s])
             a == Answers(query)
  <1>1. /\ pc = "reply" /\ answered' = [answered EXCEPT ![s] = Append(@, a)]
        /\ StartReceive(s) /\ UNCHANGED <<stackVars, clientVars, pauses>>
    BY DEF Reply, Answer
  <1>2. /\ s \in Client /\ s \in served /\ Receiving
        /\ query \in Seq(ByteType) /\ stream[s] \in Seq(ByteType) /\ Len(query) > 1
        /\ sent[s] \in Seq(Request) /\ k \in Nat /\ answered[s] \in Seq(0..MaxRequests)
        /\ InFlow(sent[s], Joined(query, stream[s]), end[s] = "open", k)
    BY <1>1, FlowAtReply DEF Header
  <1>3. /\ ClientTypes /\ StackTypes /\ OtherTypes /\ NewInv
    BY ConversationOf DEF Conversation
  <1>4. UNCHANGED <<pending, served, end, sent, stream>> /\ s' = s /\ query' = <<>>
    BY <1>1 DEF stackVars, clientVars, StartReceive
  <1>5. a \in 0..MaxRequests
    <2>1. 1 \in 1..Len(query)
      BY <1>2
    <2>2. query[1].number \in 1..MaxRequests /\ MaxRequests \in Nat
      BY <1>2, <2>1, ElementOf, ByteOf, ServerAssumption
    <2>3. a = query[1].number \/ a = 0
      BY DEF Answers, Garbage
    <2> QED
      BY <2>2, <2>3
  <1> HIDE DEF a
  <1>6. /\ answered'[s] = Append(answered[s], a) /\ Len(answered'[s]) = k + 1
        /\ answered'[s][k + 1] = a /\ \A i \in 1..k : answered'[s][i] = answered[s][i]
        /\ \A c \in Client : c # s => answered'[c] = answered[c]
        /\ answered' \in [Client -> Seq(0..MaxRequests)]
    <2>1. answered \in [Client -> Seq(0..MaxRequests)]
      BY <1>3 DEF OtherTypes
    <2>2. answered'[s] = Append(answered[s], a) /\ Append(answered[s], a) \in Seq(0..MaxRequests)
      BY <1>1, <1>2, <1>5, <2>1
    <2>3. /\ Len(Append(answered[s], a)) = k + 1 /\ Append(answered[s], a)[k + 1] = a
          /\ \A i \in 1..k : Append(answered[s], a)[i] = answered[s][i]
      BY <1>2, <1>5
    <2> QED
      BY <1>1, <1>2, <2>1, <2>2, <2>3
  <1>7. ClientTypes' /\ StackTypes' /\ TaskTypes' /\ OtherTypes'
    BY <1>1, <1>2, <1>3, <1>6, ClientTypesKept, StackTypesKept, StartTypes DEF OtherTypes
  <1>8. NewInv'
    BY <1>2, <1>3, <1>4, <1>6 DEF NewInv
  <1>9. QueryInv' /\ Receiving'
    BY <1>1, <1>2, <1>4, QueryStarted
  <1>10. ASSUME Knows(sent[s], k + 1)
         PROVE  Len(query) = RequestLength(query[1].request) /\ a = k + 1
    <2>1. /\ Len(query) = RequestLength(query[1].request)
          /\ \A j \in 1..Len(query) : query[j].number = k + 1 /\ query[j].at = j
      BY <1>1, <1>10, QueryComplete
    <2>2. 1 \in 1..Len(query)
      BY <1>2
    <2>3. a = query[1].number
      BY <1>2, <2>1, <2>2 DEF a, Answers
    <2> QED
      BY <2>1, <2>2, <2>3
  <1>11. FlowInv'
    <2>1. ASSUME NEW c \in Client, Read(c)'
          PROVE  InFlow(sent'[c], Flow(c)', end'[c] = "open", Len(answered'[c]))
      <3>1. CASE c = s
        <4>1. Flow(c)' = stream[s]
          <5>1. Flow(c)' = Joined(<<>>, stream[s])
            BY <1>4, <1>9, <3>1 DEF Flow
          <5> QED
            BY <1>2, <5>1, EmptyConcat DEF Joined
        <4>2. query # <<>> /\ (end[s] = "open") \in BOOLEAN
          BY <1>2
        <4>3. InFlow(sent[s], stream[s], end[s] = "open", k + 1)
          BY <1>2, <1>10, <4>2, AnsweredInFlow
        <4> QED
          BY <1>4, <1>6, <3>1, <4>1, <4>3
      <3>2. CASE c # s
        <4>1. Read(c) /\ Flow(c)' = Flow(c)
          BY <1>4, <2>1, <3>2 DEF Read, Flow
        <4>2. InFlow(sent[c], Flow(c), end[c] = "open", Len(answered[c]))
          BY <4>1 DEF IInv, FlowInv
        <4> QED
          BY <1>4, <1>6, <3>2, <4>1, <4>2
      <3> QED
        BY <3>1, <3>2
    <2> QED
      BY <2>1 DEF FlowInv
  <1>12. AnswersOwnRequests'
    <2>1. ASSUME NEW c \in Client, NEW i \in DOMAIN answered'[c], KnownUpTo(c, i)'
          PROVE  answered'[c][i] = i
      <3>1. KnownUpTo(c, i)
        BY <1>4, <2>1 DEF KnownUpTo
      <3>2. CASE i \in DOMAIN answered[c]
        <4>1. answered[c][i] = i
          BY <3>1, <3>2 DEF IInv, AnswersOwnRequests
        <4>2. c = s => i \in 1..k
          BY <1>2, <3>2
        <4> QED
          BY <1>6, <4>1, <4>2
      <3>3. CASE i \notin DOMAIN answered[c]
        <4>1. c = s
          BY <1>6, <3>3
        <4>6. answered'[s] \in Seq(0..MaxRequests) /\ Len(answered'[s]) = k + 1
          BY <1>2, <1>6
        <4>2. DOMAIN answered'[s] = 1..(k + 1)
          BY <4>6
        <4>7. DOMAIN answered[s] = 1..k
          BY <1>2
        <4>3. i = k + 1
          <5>1. i \in 1..(k + 1) /\ i \notin 1..k
            BY <3>3, <4>1, <4>2, <4>7
          <5>2. k \in Nat
            BY <1>2
          <5> HIDE DEF k
          <5> QED
            BY <5>1, <5>2
        <4>4. DOMAIN sent[s] = 1..Len(sent[s])
          BY <1>2
        <4>5. Knows(sent[s], k + 1)
          BY <3>1, <4>1, <4>3, <4>4 DEF KnownUpTo, Knows
        <4> QED
          BY <1>6, <1>10, <4>1, <4>3, <4>5
      <3> QED
        BY <3>2, <3>3
    <2> QED
      BY <2>1 DEF AnswersOwnRequests
  <1> QED
    BY <1>7, <1>8, <1>9, <1>11, <1>12 DEF Conversation

LEMMA AcceptKeepsFlows ==
    ASSUME IInv, Accept
    PROVE  UNCHANGED <<sent, stream, answered>> /\ pc = "accept" /\ ~Receiving
  BY DEF Accept, AcceptFails, AcceptWaits, AcceptTakes, clientVars, Receiving

LEMMA AcceptFailsStep ==
    ASSUME IInv, Accept, AcceptFails
    PROVE  Conversation'
  <1>1. /\ listening' = FALSE /\ count' = 0 /\ pending' = <<>> /\ s' = NoClient
        /\ UNCHANGED <<served, sent, stream, arrived, resets, pc, need, query, fc, answered, pauses>>
    BY DEF Accept, AcceptFails
  <1>2. /\ ClientTypes /\ StackTypes /\ TaskTypes /\ OtherTypes /\ NewInv
        /\ pc = "accept" /\ ~Receiving
    BY ConversationOf, AcceptKeepsFlows DEF Conversation
  <1>3. /\ end' \in [Client -> Ends]
        /\ \A c \in Client : end'[c] = end[c] \/ end'[c] = "refused"
    BY <1>2 DEF AcceptFails, ClientTypes, Ends
  <1>4. ClientTypes'
    BY <1>1, <1>2, <1>3 DEF ClientTypes
  <1>5. StackTypes'
    <2>1. listening' \in BOOLEAN
      BY <1>1
    <2>2. <<>> \in Seq(Client)
      OBVIOUS
    <2> QED
      BY <1>1, <1>2, <2>1, <2>2 DEF StackTypes
  <1>6. TaskTypes' /\ OtherTypes'
    BY <1>1, <1>2 DEF TaskTypes, OtherTypes
  <1>7. NewInv'
    BY <1>1, <1>2, <1>3 DEF NewInv
  <1>8. QueryInv' /\ ~Receiving'
    BY <1>1, <1>2, QueryIdle
  <1>9. FlowInv' /\ AnswersOwnRequests'
    <2>1. ASSUME NEW c \in Client, Read(c)'
          PROVE  Read(c) /\ Flow(c)' = Flow(c) /\ (end'[c] = "open" => end[c] = "open")
      BY <1>1, <1>2, <1>3, <1>8, <2>1 DEF Read, Flow
    <2> QED
      BY <1>1, <2>1, FlowsKept
  <1> QED
    BY <1>4, <1>5, <1>6, <1>7, <1>8, <1>9 DEF Conversation

LEMMA AcceptWaitsStep ==
    ASSUME IInv, Accept, AcceptWaits
    PROVE  Conversation'
  <1>1. /\ pc' = "accepting" /\ pc = "accept" /\ ~Receiving
        /\ UNCHANGED <<stackVars, clientVars, s, need, query, fc, answered, pauses>>
    BY AcceptKeepsFlows DEF Accept, AcceptWaits
  <1>2. /\ ClientTypes /\ StackTypes /\ TaskTypes /\ OtherTypes /\ NewInv
    BY ConversationOf DEF Conversation
  <1>3. ClientTypes' /\ StackTypes'
    BY <1>1, <1>2, ClientTypesKept, StackTypesKept
  <1>4. TaskTypes' /\ OtherTypes'
    BY <1>1, <1>2 DEF TaskTypes, OtherTypes
  <1>5. UNCHANGED <<pending, served, end, sent, stream>>
    BY <1>1 DEF stackVars, clientVars
  <1>6. NewInv'
    BY <1>1, <1>2, <1>5, NewKept
  <1>7. QueryInv' /\ ~Receiving'
    BY <1>1, QueryIdle
  <1>8. FlowInv' /\ AnswersOwnRequests'
    <2>1. ASSUME NEW c \in Client, Read(c)'
          PROVE  Read(c) /\ Flow(c)' = Flow(c) /\ (end'[c] = "open" => end[c] = "open")
      BY <1>1, <1>5, <1>7, <2>1 DEF Read, Flow
    <2> QED
      BY <1>1, <1>5, <2>1, FlowsKept
  <1> QED
    BY <1>3, <1>4, <1>6, <1>7, <1>8 DEF Conversation

LEMMA AcceptTakesStep ==
    ASSUME IInv, Accept, AcceptTakes, count > 0
    PROVE  Conversation'
  <1>1. PICK i \in DOMAIN pending :
           /\ First(i) /\ pending' = Unlinked(i) /\ count' = count - 1
           /\ served' = served \cup {pending[i]} /\ StartReceive(pending[i])
           /\ UNCHANGED <<listening, clientVars>>
    BY DEF AcceptTakes
  <1> DEFINE h == pending[i]
  <1>2. /\ served' = served \cup {h} /\ StartReceive(h) /\ count' = count - 1
        /\ UNCHANGED <<listening, clientVars, answered, pauses>>
        /\ pc = "accept" /\ ~Receiving
    BY <1>1, AcceptKeepsFlows DEF Accept
  <1>3. /\ ClientTypes /\ StackTypes /\ OtherTypes /\ NewInv /\ ListInv
    BY ConversationOf DEF Conversation, Inv
  <1>4. /\ i \in 1..Len(pending) /\ h \in Waiting
    BY <1>1, <1>3, EstablishedOf DEF First
  <1>5. pending' \in Seq(Client) /\ h \in Client
    BY <1>1, <1>3, <1>4, UnlinkedList DEF ListInv
  <1> HIDE DEF h
  <1>6. h \notin served /\ end[h] \notin {"new", "half"}
    BY <1>3, <1>4 DEF ListInv, Waiting
  <1>7. UNCHANGED <<end, sent, stream>>
    BY <1>2 DEF clientVars
  <1>8. ClientTypes' /\ StackTypes' /\ TaskTypes' /\ OtherTypes' /\ NewInv'
    <2>1. ClientTypes' /\ TaskTypes' /\ OtherTypes'
      BY <1>2, <1>3, <1>5, ClientTypesKept, StartTypes DEF OtherTypes
    <2>2. count' \in Nat /\ listening' \in BOOLEAN
      BY <1>2, <1>3 DEF StackTypes
    <2>3. StackTypes'
      BY <1>2, <1>3, <1>5, <2>2 DEF StackTypes
    <2>4. NewInv'
      BY <1>2, <1>3, <1>6, <1>7 DEF NewInv
    <2> QED
      BY <2>1, <2>3, <2>4
  <1>9. QueryInv' /\ Receiving' /\ s' = h /\ query' = <<>>
    BY <1>2, <1>5, QueryStarted
  <1>10. FlowInv' /\ AnswersOwnRequests'
    <2>1. ASSUME NEW c \in Client, Read(c)'
          PROVE  Read(c) /\ Flow(c)' = Flow(c) /\ (end'[c] = "open" => end[c] = "open")
      <3>1. Read(c) /\ Flow(c) = stream[c]
        BY <1>2, <1>6, <1>9, <2>1 DEF Read, Flow
      <3>2. CASE c = h
        <4>1. Flow(c)' = Joined(<<>>, stream[c])
          BY <1>7, <1>9, <3>2 DEF Flow
        <4>2. stream[c] \in Seq(ByteType)
          BY <1>3 DEF ClientTypes
        <4> QED
          BY <1>7, <3>1, <4>1, <4>2, EmptyConcat DEF Joined
      <3>3. CASE c # h
        BY <1>7, <1>9, <3>1, <3>3 DEF Flow
      <3> QED
        BY <3>2, <3>3
    <2> QED
      BY <1>2, <1>7, <2>1, FlowsKept
  <1> QED
    BY <1>8, <1>9, <1>10 DEF Conversation

LEMMA AcceptConversation ==
    ASSUME IInv, Accept
    PROVE  Conversation'
  BY AcceptFailsStep, AcceptWaitsStep, AcceptTakesStep DEF Accept

-----------------------------------------------------------------------------
(* The clients. *)

(* A client whose connection is not established. *)
LEMMA ClientIsNew ==
    ASSUME IInv, NEW c \in Client, end[c] \in {"new", "half"}
    PROVE  /\ c \notin served /\ sent[c] = <<>> /\ stream[c] = <<>> /\ answered[c] = <<>>
           /\ ~(Receiving /\ c = s)
  <1>1. c \notin served /\ sent[c] = <<>> /\ stream[c] = <<>>
    BY DEF IInv, NewInv
  <1>2. answered[c] = <<>>
    BY <1>1 DEF IInv, NewInv
  <1> QED
    BY <1>1, <1>2, AtClient

(* The flows when c is established; what it has sent is empty. *)
LEMMA EstablishFlows ==
    ASSUME IInv, NEW c \in Client, end[c] = "half", end' = [end EXCEPT ![c] = "open"],
           UNCHANGED <<sent, stream, answered>>,
           \A d \in Client : d # c /\ Read(d)' => Read(d) /\ Flow(d)' = Flow(d),
           Flow(c)' = <<>>
    PROVE  FlowInv' /\ AnswersOwnRequests'
  <1>1. sent[c] = <<>> /\ answered[c] = <<>>
    BY ClientIsNew
  <1>2. \A d \in Client : d # c => end'[d] = end[d]
    BY DEF IInv, TypeOK
  <1>3. ASSUME NEW d \in Client, Read(d)'
        PROVE  InFlow(sent'[d], Flow(d)', end'[d] = "open", Len(answered'[d]))
    <2>1. CASE d = c
      <3>1. Len(sent'[d]) = Len(answered'[d])
        BY <1>1, <2>1
      <3>2. InFlow(sent'[d], <<>>, end'[d] = "open", Len(answered'[d]))
        BY <3>1, EmptyInFlow
      <3> QED
        BY <2>1, <3>2
    <2>2. CASE d # c
      <3>1. InFlow(sent[d], Flow(d), end[d] = "open", Len(answered[d]))
        BY <1>3, <2>2 DEF IInv, FlowInv
      <3>2. Flow(d)' = Flow(d)
        BY <1>3, <2>2
      <3> QED
        BY <1>2, <2>2, <3>1, <3>2
    <2> QED
      BY <2>1, <2>2
  <1>4. FlowInv'
    BY <1>3 DEF FlowInv
  <1>5. AnswersOwnRequests'
    BY DEF IInv, AnswersOwnRequests, KnownUpTo
  <1> QED
    BY <1>4, <1>5

(* What the two cases of Establish have in common. *)
LEMMA EstablishedTypes ==
    ASSUME IInv, NEW c \in Client, Establish(c)
    PROVE  /\ ClientTypes' /\ NewInv' /\ listening' \in BOOLEAN
           /\ end[c] = "half" /\ end' = [end EXCEPT ![c] = "open"]
           /\ UNCHANGED <<sent, stream, answered, pauses>>
           /\ pending' \in Seq(Client)
  <1>1. PICK i \in DOMAIN pending :
           /\ end[c] = "half" /\ pending[i] = c
           /\ end' = [end EXCEPT ![c] = "open"]
           /\ (pending' = Unlinked(i) /\ served' = served \cup {c}) \/ UNCHANGED <<pending, served>>
           /\ UNCHANGED <<listening, sent, stream, arrived, resets, answered, pauses>>
    BY DEF Establish, HalfOpen
  <1>2. ClientTypes /\ StackTypes /\ NewInv /\ ListInv
    BY ConversationOf DEF Conversation, Inv
  <1>3. /\ end' \in [Client -> Ends]
        /\ end'[c] = "open" /\ \A d \in Client : d # c => end'[d] = end[d]
    BY <1>1, <1>2 DEF ClientTypes, Ends
  <1>4. ClientTypes' /\ listening' \in BOOLEAN
    BY <1>1, <1>2, <1>3 DEF ClientTypes, StackTypes
  <1>5. NewInv'
    BY <1>1, <1>2, <1>3 DEF NewInv
  <1>6. pending' \in Seq(Client)
    <2>1. i \in 1..Len(pending) /\ pending \in Seq(Client) /\ Distinct(pending)
      BY <1>2 DEF ListInv
    <2> QED
      BY <1>1, <2>1, UnlinkedList
  <1> QED
    BY <1>1, <1>4, <1>5, <1>6

LEMMA EstablishStepAccepting ==
    ASSUME IInv, NEW c \in Client, Establish(c), pc = "accepting"
    PROVE  Conversation'
  <1>1. /\ end[c] = "half" /\ end' = [end EXCEPT ![c] = "open"]
        /\ UNCHANGED <<sent, stream, answered, pauses>>
        /\ ClientTypes' /\ NewInv' /\ listening' \in BOOLEAN /\ pending' \in Seq(Client)
    BY EstablishedTypes
  <1>2. served' = served \cup {c} /\ StartReceive(c) /\ count' = count
    BY DEF Establish
  <1>3. StackTypes /\ OtherTypes
    BY ConversationOf DEF Conversation
  <1>4. c \notin served /\ sent[c] = <<>> /\ stream[c] = <<>> /\ answered[c] = <<>>
    BY <1>1, ClientIsNew
  <1>5. StackTypes' /\ TaskTypes' /\ OtherTypes'
    BY <1>1, <1>2, <1>3, StartTypes DEF StackTypes, OtherTypes
  <1>6. QueryInv' /\ Receiving' /\ s' = c /\ query' = <<>>
    BY <1>2, QueryStarted
  <1>7. FlowInv' /\ AnswersOwnRequests'
    <2>1. ASSUME NEW d \in Client, d # c, Read(d)' PROVE Read(d) /\ Flow(d)' = Flow(d)
      <3>1. ~Receiving
        BY DEF Receiving
      <3> QED
        BY <1>1, <1>2, <1>6, <2>1, <3>1 DEF Read, Flow
    <2>2. Flow(c)' = <<>>
      <3>1. Flow(c)' = Joined(<<>>, <<>>)
        BY <1>1, <1>4, <1>6 DEF Flow
      <3> QED
        BY <3>1 DEF Joined
    <2> QED
      BY <1>1, <2>1, <2>2, EstablishFlows
  <1> QED
    BY <1>1, <1>5, <1>6, <1>7 DEF Conversation

LEMMA EstablishStepPending ==
    ASSUME IInv, NEW c \in Client, Establish(c), pc # "accepting"
    PROVE  Conversation'
  <1>1. /\ end[c] = "half" /\ end' = [end EXCEPT ![c] = "open"]
        /\ UNCHANGED <<sent, stream, answered, pauses>>
        /\ ClientTypes' /\ NewInv' /\ listening' \in BOOLEAN /\ pending' \in Seq(Client)
    BY EstablishedTypes
  <1>2. count' = count + 1 /\ UNCHANGED <<served, taskVars>>
    BY DEF Establish
  <1>3. StackTypes /\ TaskTypes /\ OtherTypes /\ QueryInv
    BY ConversationOf DEF Conversation
  <1>4. /\ stream[c] = <<>> /\ ~(Receiving /\ c = s)
    BY <1>1, ClientIsNew
  <1>5. StackTypes' /\ TaskTypes' /\ OtherTypes'
    BY <1>1, <1>2, <1>3, TaskTypesKept DEF StackTypes, OtherTypes
  <1>6. QueryInv' /\ Receiving' = Receiving
    <2>1. Known(s)' = Known(s)
      BY <1>1, <1>2 DEF Known, Knows, taskVars
    <2> QED
      BY <1>2, <1>3, <2>1, QueryKept
  <1>7. FlowInv' /\ AnswersOwnRequests'
    <2>1. s' = s /\ query' = query
      BY <1>2 DEF taskVars
    <2>2. ASSUME NEW d \in Client, d # c, Read(d)' PROVE Read(d) /\ Flow(d)' = Flow(d)
      BY <1>1, <1>2, <1>6, <2>1, <2>2 DEF Read, Flow
    <2>3. Flow(c)' = <<>>
      BY <1>1, <1>4, <1>6, <2>1 DEF Flow
    <2> QED
      BY <1>1, <2>2, <2>3, EstablishFlows
  <1> QED
    BY <1>1, <1>5, <1>6, <1>7 DEF Conversation

LEMMA AskStep ==
    ASSUME IInv, NEW c \in Client, Ask(c)
    PROVE  Conversation'
  <1> DEFINE n == Len(sent[c])
  <1>1. PICK r \in Request :
           /\ end[c] = "open" /\ n < MaxRequests
           /\ sent' = [sent EXCEPT ![c] = Append(@, r)]
           /\ stream' = [stream EXCEPT ![c] = @ \o BytesOf(n + 1, r)]
           /\ UNCHANGED <<end, arrived, resets, stackVars, taskVars, answered, pauses>>
    BY DEF Ask, BytesOf
  <1>2. /\ ClientTypes /\ StackTypes /\ TaskTypes /\ OtherTypes /\ NewInv /\ QueryInv
    BY ConversationOf DEF Conversation
  <1>3. /\ sent[c] \in Seq(Request) /\ stream[c] \in Seq(ByteType) /\ n \in Nat
        /\ Append(sent[c], r) \in Seq(Request) /\ Len(Append(sent[c], r)) = n + 1
        /\ \A i \in 1..n : Append(sent[c], r)[i] = sent[c][i]
    BY <1>2 DEF ClientTypes
  <1>4. n + 1 \in 1..MaxRequests
    BY <1>1, <1>3, ServerAssumption
  <1> DEFINE b == BytesOf(n + 1, r)
  <1>5. b \in Seq(ByteType)
    BY <1>4, NewBytes
  <1> HIDE DEF b
  <1>6. /\ Joined(stream[c], b) \in Seq(ByteType)
        /\ Len(Joined(stream[c], b)) = Len(stream[c]) + Len(b)
        /\ Len(stream[c]) \in Nat /\ Len(b) \in Nat
    <2>1. stream[c] \in Seq(ByteType)
      BY <1>3
    <2> QED
      BY <1>5, <2>1, ConcatOf DEF Joined
  <1>7. /\ stream'[c] = Joined(stream[c], b)
        /\ \A d \in Client : d # c => stream'[d] = stream[d] /\ sent'[d] = sent[d]
        /\ sent'[c] = Append(sent[c], r)
        /\ stream' \in [Client -> Seq(ByteType)] /\ sent' \in [Client -> Seq(Request)]
    <2>1. stream \in [Client -> Seq(ByteType)] /\ sent \in [Client -> Seq(Request)]
      BY <1>2 DEF ClientTypes
    <2>2. stream' = [stream EXCEPT ![c] = Joined(stream[c], b)]
      BY <1>1 DEF Joined, b
    <2> QED
      BY <1>1, <1>3, <1>6, <2>1, <2>2
  <1>8. ClientTypes'
    <2>1. \A d \in Client : arrived'[d] <= Len(stream'[d])
      <3>1. ASSUME NEW d \in Client PROVE arrived[d] <= Len(stream'[d])
        <4>1. arrived[d] <= Len(stream[d]) /\ arrived[d] \in Nat
          BY <1>2 DEF ClientTypes
        <4>2. CASE d = c
          BY <1>6, <1>7, <4>1, <4>2
        <4>3. CASE d # c
          BY <1>7, <4>1, <4>3
        <4> QED
          BY <4>2, <4>3
      <3> QED
        BY <1>1, <3>1
    <2> QED
      BY <1>1, <1>2, <1>7, <2>1 DEF ClientTypes
  <1>9. StackTypes' /\ TaskTypes' /\ OtherTypes'
    BY <1>1, <1>2, StackTypesKept, TaskTypesKept DEF OtherTypes
  <1>10. UNCHANGED <<pending, served, s, query>>
    BY <1>1 DEF stackVars, taskVars
  <1>11. NewInv'
    BY <1>1, <1>2, <1>7, <1>10 DEF NewInv
  <1>12. \A d \in Client, k \in Nat : Knows(sent'[d], k) => Knows(sent[d], k)
    <2>1. ASSUME NEW k \in Nat, Knows(Append(sent[c], r), k) PROVE Knows(sent[c], k)
      BY <1>3, <2>1 DEF Knows
    <2> QED
      BY <1>7, <2>1
  <1>13. QueryInv' /\ Receiving' = Receiving
    <2>1. CASE Receiving
      <3>1. s \in Client /\ Len(answered[s]) \in Nat
        BY <2>1, AtClient, FlowType DEF IInv
      <3>2. Known(s)' => Known(s)
        BY <1>1, <1>10, <1>12, <3>1 DEF Known
      <3> QED
        BY <1>1, <1>2, <1>10, <3>2, QueryKept
    <2>2. CASE ~Receiving
      BY <1>1, <2>2, QueryIdle DEF Receiving, taskVars, QueryInv
    <2> QED
      BY <2>1, <2>2
  <1>14. FlowInv'
    <2>1. ASSUME NEW d \in Client, Read(d)'
          PROVE  InFlow(sent'[d], Flow(d)', end'[d] = "open", Len(answered'[d]))
      <3>1. Read(d)
        BY <1>10, <1>13, <2>1 DEF Read
      <3>2. InFlow(sent[d], Flow(d), end[d] = "open", Len(answered[d]))
        BY <3>1 DEF IInv, FlowInv
      <3>3. CASE d # c
        <4>1. Flow(d)' = Flow(d)
          BY <1>7, <1>10, <1>13, <3>3 DEF Flow
        <4> QED
          BY <1>1, <1>7, <3>2, <3>3, <4>1
      <3>4. CASE d = c
        <4>1. Flow(c) \in Seq(ByteType) /\ Len(answered[c]) \in Nat
          BY FlowType DEF IInv
        <4>2. InFlow(sent[c], Flow(c), TRUE, Len(answered[c]))
          BY <1>1, <3>2, <3>4
        <4>3. InFlow(Append(sent[c], r), Joined(Flow(c), b), TRUE, Len(answered[c]))
          BY <1>3, <1>4, <4>1, <4>2, AskedInFlow DEF b
        <4>4. Flow(c)' = Joined(Flow(c), b)
          <5>1. CASE Receiving /\ c = s
            <6>1. Flow(c)' = Joined(query, Joined(stream[c], b)) /\ Flow(c) = Joined(query, stream[c])
              BY <1>7, <1>10, <1>13, <5>1 DEF Flow
            <6>2. query \in Seq(ByteType) /\ b \in Seq(ByteType)
              BY <1>2, <1>5 DEF TaskTypes
            <6> QED
              BY <1>3, <6>1, <6>2, Regrouped
          <5>2. CASE ~(Receiving /\ c = s)
            BY <1>7, <1>10, <1>13, <5>2 DEF Flow
          <5> QED
            BY <5>1, <5>2
        <4> QED
          BY <1>1, <1>7, <3>4, <4>3, <4>4
      <3> QED
        BY <3>3, <3>4
    <2> QED
      BY <2>1 DEF FlowInv
  <1>15. AnswersOwnRequests'
    <2>1. ASSUME NEW d \in Client, NEW i \in DOMAIN answered[d], KnownUpTo(d, i)'
          PROVE  KnownUpTo(d, i)
      <3>1. CASE d # c
        BY <1>7, <2>1, <3>1 DEF KnownUpTo
      <3>2. CASE d = c
        <4>1. DOMAIN sent[c] = 1..n /\ DOMAIN Append(sent[c], r) = 1..(n + 1)
          BY <1>3
        <4>2. \A k \in 1..n : k \in 1..(n + 1)
          BY <1>3
        <4> QED
          BY <1>3, <1>7, <2>1, <3>2, <4>1, <4>2 DEF KnownUpTo
      <3> QED
        BY <3>1, <3>2
    <2> QED
      BY <1>1, <2>1 DEF IInv, AnswersOwnRequests
  <1> QED
    BY <1>8, <1>9, <1>11, <1>13, <1>14, <1>15 DEF Conversation

(* The steps that change none of what is sent, read and answered. *)
LEMMA QuietStep ==
    ASSUME IInv, ClientTypes', StackTypes',
           UNCHANGED <<sent, stream, served, taskVars, answered, pauses>>,
           \A c \in Client : /\ end'[c] = "open" => end[c] = "open"
                             /\ end'[c] \in {"new", "half"} => end[c] \in {"new", "half"}
    PROVE  Conversation'
  <1>1. /\ TaskTypes /\ OtherTypes /\ NewInv /\ QueryInv
    BY ConversationOf DEF Conversation
  <1>2. TaskTypes' /\ OtherTypes'
    BY <1>1, TaskTypesKept DEF OtherTypes
  <1>3. UNCHANGED <<served, s, query>>
    BY DEF taskVars
  <1>4. NewInv'
    BY <1>1, <1>3 DEF NewInv
  <1>5. QueryInv' /\ Receiving' = Receiving
    <2>1. Known(s)' = Known(s)
      BY <1>3 DEF Known, Knows
    <2> QED
      BY <1>1, <1>3, <2>1, QueryKept
  <1>6. FlowInv' /\ AnswersOwnRequests'
    <2>1. ASSUME NEW c \in Client, Read(c)'
          PROVE  Read(c) /\ Flow(c)' = Flow(c) /\ (end'[c] = "open" => end[c] = "open")
      BY <1>3, <1>5, <2>1 DEF Read, Flow
    <2> QED
      BY <2>1, FlowsKept
  <1> QED
    BY <1>2, <1>4, <1>5, <1>6 DEF Conversation

LEMMA ArriveStep ==
    ASSUME IInv, NEW c \in Client, Arrive(c)
    PROVE  Conversation'
  <1>1. /\ arrived[c] < Len(stream[c]) /\ arrived' = [arrived EXCEPT ![c] = @ + 1]
        /\ UNCHANGED <<end, sent, stream, resets, stackVars, served, taskVars, answered, pauses>>
    BY DEF Arrive, stackVars
  <1>2. ClientTypes /\ StackTypes
    BY ConversationOf DEF Conversation
  <1>3. ClientTypes'
    <2>1. stream[c] \in Seq(ByteType) /\ Len(stream[c]) \in Nat /\ arrived[c] \in Nat
      BY <1>2 DEF ClientTypes
    <2>2. arrived' \in [Client -> Nat]
      BY <1>1, <1>2, <2>1 DEF ClientTypes
    <2>3. \A d \in Client : arrived'[d] <= Len(stream[d])
      BY <1>1, <1>2, <2>1 DEF ClientTypes
    <2> QED
      BY <1>1, <1>2, <2>2, <2>3 DEF ClientTypes
  <1>4. StackTypes'
    BY <1>1, <1>2, StackTypesKept
  <1> QED
    BY <1>1, <1>3, <1>4, QuietStep

LEMMA CloseStep ==
    ASSUME IInv, NEW c \in Client, Close(c)
    PROVE  Conversation'
  <1>1. /\ end[c] = "open" /\ end' = [end EXCEPT ![c] = "fin"]
        /\ UNCHANGED <<sent, stream, arrived, resets, stackVars, served, taskVars, answered, pauses>>
    BY DEF Close, stackVars
  <1>2. ClientTypes /\ StackTypes
    BY ConversationOf DEF Conversation
  <1>3. /\ end' \in [Client -> Ends]
        /\ \A d \in Client : end'[d] = IF d = c THEN "fin" ELSE end[d]
    BY <1>1, <1>2 DEF ClientTypes, Ends
  <1>4. ClientTypes' /\ StackTypes'
    BY <1>1, <1>2, <1>3, StackTypesKept DEF ClientTypes
  <1> QED
    BY <1>1, <1>3, <1>4, QuietStep

LEMMA ConversationSyn ==
    ASSUME IInv, NEW c \in Client, Syn(c)
    PROVE  Conversation'
  <1>1. /\ end[c] = "new" /\ end' = [end EXCEPT ![c] = "half"] /\ pending' = <<c>> \o pending
        /\ UNCHANGED <<listening, count, served, sent, stream, arrived, resets, taskVars, answered, pauses>>
    BY DEF Syn
  <1>2. ClientTypes /\ StackTypes
    BY ConversationOf DEF Conversation
  <1>3. /\ end' \in [Client -> Ends]
        /\ \A d \in Client : end'[d] = IF d = c THEN "half" ELSE end[d]
    BY <1>1, <1>2 DEF ClientTypes, Ends
  <1>4. ClientTypes'
    BY <1>1, <1>2, <1>3 DEF ClientTypes
  <1>5. StackTypes'
    <2>1. pending' \in Seq(Client)
      BY <1>1, <1>2, Prefixed DEF StackTypes
    <2>2. listening' \in BOOLEAN
      BY <1>1, <1>2 DEF StackTypes
    <2> QED
      BY <1>1, <1>2, <2>1, <2>2 DEF StackTypes
  <1> QED
    BY <1>1, <1>3, <1>4, <1>5, QuietStep

LEMMA ConversationGiveUp ==
    ASSUME IInv, NEW c \in Client, GiveUp(c)
    PROVE  Conversation'
  <1>1. PICK i \in DOMAIN pending :
           /\ end[c] = "half" /\ end' = [end EXCEPT ![c] = "reset"] /\ pending' = Unlinked(i)
           /\ UNCHANGED <<listening, count, served, sent, stream, arrived, resets, taskVars, answered, pauses>>
    BY DEF GiveUp, HalfOpen
  <1>2. ClientTypes /\ StackTypes /\ ListInv
    BY ConversationOf DEF Conversation, Inv
  <1>3. /\ end' \in [Client -> Ends]
        /\ \A d \in Client : end'[d] = IF d = c THEN "reset" ELSE end[d]
    BY <1>1, <1>2 DEF ClientTypes, Ends
  <1>4. ClientTypes'
    BY <1>1, <1>2, <1>3 DEF ClientTypes
  <1>5. StackTypes'
    <2>1. i \in 1..Len(pending) /\ pending \in Seq(Client) /\ Distinct(pending)
      BY <1>2 DEF ListInv
    <2>2. pending' \in Seq(Client)
      BY <1>1, <2>1, UnlinkedList
    <2>3. listening' \in BOOLEAN
      BY <1>1, <1>2 DEF StackTypes
    <2> QED
      BY <1>1, <1>2, <2>2, <2>3 DEF StackTypes
  <1> QED
    BY <1>1, <1>3, <1>4, <1>5, QuietStep

LEMMA ConversationReset ==
    ASSUME IInv, NEW c \in Client, Reset(c)
    PROVE  Conversation'
  <1>1. /\ end[c] \in {"open", "fin"} /\ resets < Resets /\ resets' = resets + 1
        /\ end' = [end EXCEPT ![c] = "reset"]
        /\ stream' = [stream EXCEPT ![c] = <<>>] /\ arrived' = [arrived EXCEPT ![c] = 0]
        /\ UNCHANGED <<listening, count, served, sent, taskVars, answered, pauses>>
    BY DEF Reset
  <1>2. /\ ClientTypes /\ StackTypes /\ TaskTypes /\ OtherTypes /\ NewInv /\ QueryInv
    BY ConversationOf DEF Conversation
  <1>3. \A d \in Client : end'[d] = IF d = c THEN "reset" ELSE end[d]
    BY <1>1, <1>2 DEF ClientTypes
  <1>4. stream'[c] = <<>> /\ \A d \in Client : d # c => stream'[d] = stream[d]
    BY <1>1, <1>2 DEF ClientTypes
  <1>5. pending' \in Seq(Client)
    BY ResetList, ConversationOf DEF Inv
  <1>6. ClientTypes'
    <2>1. end' \in [Client -> Ends]
      BY <1>1, <1>2 DEF ClientTypes, Ends
    <2>2. stream' \in [Client -> Seq(ByteType)]
      <3>1. <<>> \in Seq(ByteType)
        OBVIOUS
      <3> QED
        BY <1>1, <1>2, <3>1 DEF ClientTypes
    <2>3. arrived' \in [Client -> Nat]
      BY <1>1, <1>2 DEF ClientTypes
    <2>4. ASSUME NEW d \in Client PROVE arrived'[d] <= Len(stream'[d])
      <3>1. CASE d = c
        <4>1. arrived'[d] = 0 /\ Len(stream'[d]) = 0
          BY <1>1, <1>2, <1>4, <3>1 DEF ClientTypes
        <4> QED
          BY <4>1
      <3>2. CASE d # c
        BY <1>1, <1>2, <1>4, <3>2 DEF ClientTypes
      <3> QED
        BY <3>1, <3>2
    <2>5. resets' \in 0..Resets
      BY <1>1, <1>2, ServerAssumption DEF ClientTypes
    <2> QED
      BY <1>1, <1>2, <2>1, <2>2, <2>3, <2>4, <2>5 DEF ClientTypes
  <1>7. StackTypes' /\ TaskTypes' /\ OtherTypes'
    <2>1. listening' \in BOOLEAN
      BY <1>1, <1>2 DEF StackTypes
    <2>2. StackTypes'
      BY <1>1, <1>2, <1>5, <2>1 DEF StackTypes
    <2>3. TaskTypes'
      BY <1>1, <1>2, TaskTypesKept
    <2> QED
      BY <1>1, <1>2, <2>2, <2>3 DEF OtherTypes
  <1>8. NewInv'
    BY <1>1, <1>2, <1>3, <1>4 DEF NewInv
  <1>9. UNCHANGED <<s, query, sent, answered, served>>
    BY <1>1 DEF taskVars
  <1>10. QueryInv' /\ Receiving' = Receiving
    <2>1. Known(s)' = Known(s)
      BY <1>9 DEF Known, Knows
    <2> QED
      BY <1>1, <1>2, <2>1, QueryKept
  <1>11. FlowInv'
    <2>1. ASSUME NEW d \in Client, Read(d)'
          PROVE  InFlow(sent'[d], Flow(d)', end'[d] = "open", Len(answered'[d]))
      <3>1. Read(d)
        BY <1>9, <1>10, <2>1 DEF Read
      <3>2. InFlow(sent[d], Flow(d), end[d] = "open", Len(answered[d]))
        BY <3>1 DEF IInv, FlowInv
      <3>3. CASE d # c
        <4>1. Flow(d)' = Flow(d)
          BY <1>4, <1>9, <1>10, <3>3 DEF Flow
        <4> QED
          BY <1>3, <1>9, <3>2, <3>3, <4>1
      <3>4. CASE d = c
        <4>1. Flow(c) \in Seq(ByteType) /\ stream[c] \in Seq(ByteType)
          BY FlowType DEF IInv
        <4>2. PICK g \in Seq(ByteType) : Flow(c)' = g /\ Part(Flow(c), g, 0)
          <5>1. CASE Receiving /\ c = s
            <6>1. query \in Seq(ByteType)
              BY <1>2 DEF TaskTypes
            <6>2. Flow(c)' = query
              BY <1>4, <1>9, <1>10, <5>1, <6>1, EmptyConcat DEF Flow, Joined
            <6>3. Flow(c) = Joined(query, stream[c])
              BY <5>1 DEF Flow
            <6>4. Part(Joined(query, stream[c]), query, 0)
              <7>1. /\ Len(Joined(query, stream[c])) = Len(query) + Len(stream[c])
                    /\ Len(query) \in Nat /\ Len(stream[c]) \in Nat
                    /\ \A i \in 1..Len(query) : Joined(query, stream[c])[i] = query[i]
                BY <4>1, <6>1, ConcatOf, ConcatElements DEF Joined
              <7>2. \A i \in 1..Len(query) : i + 0 = i
                OBVIOUS
              <7> QED
                BY <7>1, <7>2 DEF Part
            <6> QED
              BY <6>1, <6>2, <6>3, <6>4
          <5>2. CASE ~(Receiving /\ c = s)
            <6>1. Flow(c)' = <<>>
              BY <1>4, <1>9, <1>10, <5>2 DEF Flow
            <6>2. Part(Flow(c), <<>>, 0) /\ <<>> \in Seq(ByteType)
              BY <4>1 DEF Part
            <6> QED
              BY <6>1, <6>2
          <5> QED
            BY <5>1, <5>2
        <4>3. InFlow(sent[c], g, FALSE, Len(answered[c]))
          BY <3>2, <3>4, <4>1, <4>2, PrefixInFlow
        <4>4. (end'[c] = "open") = FALSE
          BY <1>3
        <4> QED
          BY <1>9, <3>4, <4>2, <4>3, <4>4
      <3> QED
        BY <3>3, <3>4
    <2> QED
      BY <2>1 DEF FlowInv
  <1>12. AnswersOwnRequests'
    BY <1>9 DEF IInv, AnswersOwnRequests, KnownUpTo
  <1> QED
    BY <1>6, <1>7, <1>8, <1>10, <1>11, <1>12 DEF Conversation

LEMMA StutterStep ==
    ASSUME IInv, UNCHANGED vars
    PROVE  Conversation'
  <1>1. UNCHANGED <<clientVars, sent, stream, stackVars, served, taskVars, answered, pauses, end>>
    BY DEF vars, clientVars, stackVars
  <1>2. ClientTypes' /\ StackTypes'
    BY <1>1, ClientTypesKept, StackTypesKept, ConversationOf DEF Conversation
  <1> QED
    BY <1>1, <1>2, QuietStep

LEMMA ConversationInitial == Init => IInv
  <1> SUFFICES ASSUME Init PROVE IInv
    OBVIOUS
  <1>1. Inv
    BY Initial
  <1>2. <<>> \in Seq(Request) /\ <<>> \in Seq(ByteType) /\ <<>> \in Seq(Client)
        /\ <<>> \in Seq(0..MaxRequests) /\ Len(<<>>) = 0
    OBVIOUS
  <1>3. ClientTypes
    BY <1>2, ServerAssumption DEF Init, ClientTypes, Ends
  <1>4. StackTypes
    <2>1. listening \in BOOLEAN
      BY DEF Init
    <2> QED
      BY <1>2, <2>1 DEF Init, StackTypes
  <1>5. TaskTypes
    <2>1. 0 \in 0..MaxAdu /\ 0 \in 0..255
      BY ServerAssumption
    <2> QED
      BY <1>2, <2>1 DEF Init, TaskTypes
  <1>6. OtherTypes
    BY <1>2, ServerAssumption DEF Init, OtherTypes
  <1>7. NewInv
    BY DEF Init, NewInv
  <1>8. QueryInv /\ ~Receiving
    BY DEF Init, QueryInv, Receiving
  <1>9. FlowInv
    <2>1. ASSUME NEW c \in Client
          PROVE  InFlow(sent[c], Flow(c), end[c] = "open", Len(answered[c]))
      <3>1. Flow(c) = <<>> /\ ~(end[c] = "open")
        BY <1>8 DEF Init, Flow
      <3>2. InFlow(sent[c], <<>>, end[c] = "open", Len(answered[c]))
        BY <3>1, EmptyInFlow
      <3> QED
        BY <3>1, <3>2
    <2> QED
      BY <2>1 DEF FlowInv
  <1>10. AnswersOwnRequests
    <2>1. \A c \in Client : DOMAIN answered[c] = {}
      BY DEF Init
    <2> QED
      BY <2>1 DEF AnswersOwnRequests
  <1> QED
    BY <1>1, <1>3, <1>4, <1>5, <1>6, <1>7, <1>8, <1>9, <1>10, ConversationOf DEF Conversation

LEMMA ConversationInductive == IInv /\ [Next]_vars => IInv'
  <1> SUFFICES ASSUME IInv, [Next]_vars PROVE IInv'
    OBVIOUS
  <1>1. Inv'
    BY Inductive DEF IInv
  <1>2. Conversation'
    <2>1. CASE Accept
      BY <2>1, AcceptConversation
    <2>2. CASE ReceiveFunction
      BY <2>2, ReceiveFunctionStep
    <2>3. CASE ReceiveMeta
      BY <2>3, ReceiveMetaStep
    <2>4. CASE ReceiveData
      BY <2>4, ReceiveDataStep
    <2>5. CASE ReceiveFails \/ ReceiveTimesOut
      BY <2>5, ReceiveFailsStep
    <2>6. CASE Reply
      BY <2>6, AnswerStep, ReplyFailsStep DEF Reply
    <2>7. ASSUME NEW c \in Client, Syn(c) \/ Establish(c) \/ GiveUp(c) PROVE Conversation'
      BY <2>7, ConversationSyn, EstablishStepAccepting, EstablishStepPending, ConversationGiveUp
    <2>8. ASSUME NEW c \in Client, Ask(c) PROVE Conversation'
      BY <2>8, AskStep
    <2>9. ASSUME NEW c \in Client, Arrive(c) PROVE Conversation'
      BY <2>9, ArriveStep
    <2>10. ASSUME NEW c \in Client, Close(c) PROVE Conversation'
      BY <2>10, CloseStep
    <2>11. ASSUME NEW c \in Client, Reset(c) PROVE Conversation'
      BY <2>11, ConversationReset
    <2>12. CASE UNCHANGED vars
      BY <2>12, StutterStep
    <2> QED
      BY <2>1, <2>2, <2>3, <2>4, <2>5, <2>6, <2>7, <2>8, <2>9, <2>10, <2>11, <2>12
      DEF Next, SlaveStep
  <1>3. (Inv /\ Conversation => IInv)'
    BY ConversationOf, PTL
  <1> QED
    BY <1>1, <1>2, <1>3

LEMMA ConversationInvariant == Spec => []IInv
  BY ConversationInitial, ConversationInductive, PTL DEF Spec

(* Every variable keeps its type: no more bytes are counted as arrived than*)
(* were sent, no more is asked of the socket than a message may hold, and  *)
(* the count of the stack never goes below 0, also when clients give up in *)
(* the handshake (modbus.c:320-420, tcp.c:918-990, 1226-1291).             *)
THEOREM TypeCorrect == Spec => []TypeOK
<1>1. IInv => TypeOK
  BY DEF IInv
<1> QED
  BY <1>1, ConversationInvariant, PTL

(* Each answer is for the request of this client that is next, whatever    *)
(* pieces the requests arrive in and whatever was left behind on an earlier*)
(* connection, up to the first request of a function the server does not   *)
(* know (receive_msg, modbus.c:320-420, modbus_slave.c:170-246).           *)
THEOREM OwnRequestsAnswered == Spec => []AnswersOwnRequests
<1>1. IInv => AnswersOwnRequests
  BY DEF IInv
<1> QED
  BY <1>1, ConversationInvariant, PTL
=============================================================================
