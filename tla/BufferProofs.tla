---------------------------- MODULE BufferProofs ----------------------------
(* Theorems about Buffer, for any objects, addresses, items and arguments: *)
(* a caller that keeps the preconditions (Careless = {}) never reaches     *)
(* memory that is not its buffer's, every block has one owner, and the     *)
(* buffers are the sequences of items that ItemBuffer describes. First     *)
(* what each operation of Storage does to the memory and the contents,     *)
(* then that each call of BufferBase, with its precondition, meets theirs. *)
EXTENDS Buffer, SequenceTheorems, TLAPS

Members == [m_head : Blocks \cup {Null}, m_tail : Nat, m_end : Nat,
            m_capacity : Nat, m_init : BOOLEAN]

StorageType ==
    /\ alive \subseteq Objects
    /\ obj \in [Objects -> Members]
    /\ room \in [Blocks -> Seq(Items)]
    /\ fault \in BOOLEAN

StorageOK == StorageType /\ NoFault /\ Owned

\* o holds these items now, and every other object what it held.
NowHolds(o, items) == contentsBar' = [contentsBar EXCEPT ![o] = items]

\* o holds what p held, and p nothing.
NowGivenBy(o, p) == contentsBar' = [contentsBar EXCEPT ![o] = contentsBar[p], ![p] = <<>>]

LEMMA OneChanged ==
  ASSUME NEW o \in Objects, NEW items, Contents(o)' = items,
         \A q \in Objects \ {o} : Contents(q)' = Contents(q)
  PROVE  NowHolds(o, items)
BY DEF NowHolds, contentsBar

(* Sequences of items as the operations build them.                        *)
LEMMA PadIsSeq ==
  ASSUME NEW n \in Nat, NEW items \in Seq(Items)
  PROVE  Pad(items, n) \in Seq(Items) /\ Len(Pad(items, n)) = n
<1>1. \A i \in 1..n : (IF i <= Len(items) THEN items[i] ELSE Blank) \in Items
  BY StorageAssumption, ElementOfSeq, LenProperties
<1>2. Pad(items, n) \in [1..n -> Items]
  BY <1>1 DEF Pad
<1> QED
  BY <1>2, SeqDef, LenProperties DEF Pad

LEMMA WrittenIsSeq ==
  ASSUME NEW rooms \in Seq(Items), NEW k \in Nat, NEW items \in Seq(Items)
  PROVE  /\ Written(rooms, k, items) \in Seq(Items)
         /\ Len(Written(rooms, k, items)) = Len(rooms)
<1>0. Len(rooms) \in Nat /\ Len(items) \in Nat
  BY LenProperties
<1>1. ASSUME NEW i \in 1..Len(rooms)
      PROVE  (IF k < i /\ i <= k + Len(items) THEN items[i - k] ELSE rooms[i]) \in Items
  <2>1. CASE k < i /\ i <= k + Len(items)
    <3>1. i - k \in 1..Len(items)
      BY <2>1, <1>0
    <3> QED
      BY <3>1, <2>1, ElementOfSeq
  <2>2. CASE ~(k < i /\ i <= k + Len(items))
    BY <2>2, ElementOfSeq
  <2> QED
    BY <2>1, <2>2
<1>2. Written(rooms, k, items) \in [1..Len(rooms) -> Items]
  BY <1>1 DEF Written
<1> QED
  BY <1>0, <1>2, SeqDef, LenProperties DEF Written

\* The first n items of a sequence.
LEMMA Front ==
  ASSUME NEW rooms \in Seq(Items), NEW n \in 0..Len(rooms)
  PROVE  /\ SubSeq(rooms, 1, n) \in Seq(Items)
         /\ Len(SubSeq(rooms, 1, n)) = n
         /\ \A i \in 1..n : SubSeq(rooms, 1, n)[i] = rooms[i]
<1>1. Len(rooms) \in Nat
  BY LenProperties
<1>2. \A i \in 1..n : rooms[i] \in Items
  BY <1>1, ElementOfSeq
<1> QED
  BY <1>1, <1>2, SubSeqProperties

\* The front of what reserve made holds the items.
LEMMA FrontOfPad ==
  ASSUME NEW n \in Nat, NEW items \in Seq(Items), Len(items) <= n
  PROVE  SubSeq(Pad(items, n), 1, Len(items)) = items
<1> DEFINE front == SubSeq(Pad(items, n), 1, Len(items))
<1>1. Len(items) \in Nat
  BY LenProperties
<1>2. /\ front \in Seq(Items) /\ Len(front) = Len(items)
      /\ \A i \in 1..Len(items) : front[i] = Pad(items, n)[i]
  BY <1>1, PadIsSeq, Front
<1>3. \A i \in 1..Len(items) : Pad(items, n)[i] = items[i]
  BY <1>1 DEF Pad
<1> HIDE DEF front
<1>4. front = items
  BY <1>2, <1>3, SeqEqual
<1> QED
  BY <1>4 DEF front

\* Nothing was written.
LEMMA WrittenNothing ==
  ASSUME NEW rooms \in Seq(Items), NEW k \in Nat
  PROVE  Written(rooms, k, <<>>) = rooms
<1> DEFINE w == Written(rooms, k, <<>>)
<1>1. <<>> \in Seq(Items) /\ Len(<<>>) = 0 /\ Len(rooms) \in Nat
  BY EmptySeq, LenProperties
<1>2. w \in Seq(Items) /\ Len(w) = Len(rooms)
  BY <1>1, WrittenIsSeq
<1>3. \A i \in 1..Len(rooms) : w[i] = rooms[i]
  BY <1>1 DEF Written
<1> HIDE DEF w
<1>4. w = rooms
  BY <1>2, <1>3, SeqEqual
<1> QED
  BY <1>4 DEF w

\* Items were written behind the first k, and end what is looked at.
LEMMA WrittenBehind ==
  ASSUME NEW rooms \in Seq(Items), NEW k \in Nat, NEW items \in Seq(Items),
         k + Len(items) <= Len(rooms)
  PROVE  SubSeq(Written(rooms, k, items), 1, k + Len(items)) = SubSeq(rooms, 1, k) \o items
<1> DEFINE w == Written(rooms, k, items)
           n == k + Len(items)
           a == SubSeq(w, 1, n)
           c == SubSeq(rooms, 1, k)
           z == c \o items
<1>1. Len(items) \in Nat /\ Len(rooms) \in Nat /\ n \in 0..Len(rooms) /\ k \in 0..Len(rooms)
  BY LenProperties
<1>2. w \in Seq(Items) /\ Len(w) = Len(rooms)
  BY WrittenIsSeq
<1>3. \A i \in 1..Len(rooms) :
         w[i] = IF k < i /\ i <= n THEN items[i - k] ELSE rooms[i]
  BY DEF Written
<1>4. c \in Seq(Items) /\ Len(c) = k /\ \A i \in 1..k : c[i] = rooms[i]
  BY <1>1, Front
<1> HIDE DEF w, n, c
<1>5. a \in Seq(Items) /\ Len(a) = n /\ \A i \in 1..n : a[i] = w[i]
  BY <1>1, <1>2, Front
<1>6. z \in Seq(Items) /\ Len(z) = k + Len(items)
      /\ \A i \in 1..k + Len(items) : z[i] = IF i <= k THEN c[i] ELSE items[i - k]
  BY <1>4, ConcatProperties
<1> HIDE DEF a, z
<1>7. n = k + Len(items)
  BY DEF n
<1>8. ASSUME NEW i \in 1..n PROVE a[i] = z[i]
  <2>1. i \in 1..Len(rooms) /\ i \in 1..k + Len(items) /\ i \in Int
    BY <1>1, <1>7
  <2>2. a[i] = w[i]
    BY <1>5
  <2>3. CASE i <= k
    <3>1. i \in 1..k /\ w[i] = rooms[i] /\ z[i] = c[i]
      BY <1>1, <1>3, <1>6, <2>1, <2>3
    <3> QED
      BY <1>4, <2>2, <3>1
  <2>4. CASE k < i
    BY <1>3, <1>6, <1>7, <2>1, <2>2, <2>4
  <2> QED
    BY <2>1, <2>3, <2>4
<1>9. a = z
  BY <1>5, <1>6, <1>7, <1>8, SeqEqual
<1> QED
  BY <1>9 DEF a, z, w, n, c

\* Items were written to the front.
LEMMA WrittenFront ==
  ASSUME NEW rooms \in Seq(Items), NEW items \in Seq(Items), Len(items) <= Len(rooms)
  PROVE  SubSeq(Written(rooms, 0, items), 1, Len(items)) = items
<1>1. Len(items) \in Nat /\ 0 + Len(items) = Len(items)
  BY LenProperties
<1>2. SubSeq(Written(rooms, 0, items), 1, Len(items)) = SubSeq(rooms, 1, 0) \o items
  BY <1>1, WrittenBehind
<1>3. SubSeq(rooms, 1, 0) = <<>>
  BY SubSeqEmpty
<1> QED
  BY <1>2, <1>3, ConcatEmptySeq

\* One of the first n items was replaced.
LEMMA WrittenOne ==
  ASSUME NEW rooms \in Seq(Items), NEW n \in 0..Len(rooms), NEW i \in 0..n - 1, NEW v \in Items
  PROVE  SubSeq(Written(rooms, i, <<v>>), 1, n) = [SubSeq(rooms, 1, n) EXCEPT ![i + 1] = v]
<1> DEFINE w == Written(rooms, i, <<v>>)
           a == SubSeq(w, 1, n)
           c == SubSeq(rooms, 1, n)
           z == [c EXCEPT ![i + 1] = v]
<1>1. Len(rooms) \in Nat /\ i \in Nat /\ n \in Nat
  BY LenProperties
<1>2. <<v>> \in Seq(Items) /\ Len(<<v>>) = 1 /\ <<v>>[1] = v
  OBVIOUS
<1>3. w \in Seq(Items) /\ Len(w) = Len(rooms)
  BY <1>1, <1>2, WrittenIsSeq
<1>4. \A j \in 1..Len(rooms) : w[j] = IF j = i + 1 THEN v ELSE rooms[j]
  BY <1>1, <1>2 DEF Written
<1>5. c \in Seq(Items) /\ Len(c) = n /\ \A j \in 1..n : c[j] = rooms[j]
  BY Front
<1> HIDE DEF w, c
<1>6. a \in Seq(Items) /\ Len(a) = n /\ \A j \in 1..n : a[j] = w[j]
  BY <1>3, Front
<1>7. z \in Seq(Items) /\ Len(z) = n /\ \A j \in 1..n : z[j] = IF j = i + 1 THEN v ELSE c[j]
  BY <1>1, <1>5, ExceptSeq
<1> HIDE DEF a, z
<1>8. ASSUME NEW j \in 1..n PROVE a[j] = z[j]
  <2>1. j \in 1..Len(rooms)
    BY <1>1
  <2> QED
    BY <1>4, <1>5, <1>6, <1>7, <2>1
<1>9. a = z
  BY <1>6, <1>7, <1>8, SeqEqual
<1> QED
  BY <1>9 DEF a, z, w, c

\* The next n items of a sequence, behind the first k.
NextItems(rooms, k, n) == [i \in 1..n |-> rooms[k + i]]

LEMMA FrontAndNext ==
  ASSUME NEW rooms \in Seq(Items), NEW k \in Nat, NEW n \in Nat, k + n <= Len(rooms)
  PROVE  /\ NextItems(rooms, k, n) \in [1..n -> Items]
         /\ SubSeq(rooms, 1, k + n) = SubSeq(rooms, 1, k) \o NextItems(rooms, k, n)
<1> DEFINE items == NextItems(rooms, k, n)
           w == Written(rooms, k, items)
<1>1. Len(rooms) \in Nat
  BY LenProperties
<1>2. \A i \in 1..n : k + i \in 1..Len(rooms) /\ rooms[k + i] \in Items
  BY <1>1, ElementOfSeq
<1>3. items \in [1..n -> Items]
  BY <1>2 DEF NextItems
<1>4. items \in Seq(Items) /\ Len(items) = n
  BY <1>3
<1>5. \A i \in 1..n : items[i] = rooms[k + i]
  BY DEF NextItems
<1> HIDE DEF items
<1>6. \A j \in 1..Len(rooms) : w[j] = rooms[j]
  <2> SUFFICES ASSUME NEW j \in 1..Len(rooms) PROVE w[j] = rooms[j]
    OBVIOUS
  <2>1. w[j] = IF k < j /\ j <= k + n THEN items[j - k] ELSE rooms[j]
    BY <1>4 DEF Written
  <2>2. CASE k < j /\ j <= k + n
    <3>1. j - k \in 1..n /\ k + (j - k) = j
      BY <1>1, <2>2
    <3> QED
      BY <1>5, <2>1, <2>2, <3>1
  <2> QED
    BY <2>1, <2>2
<1>7. w \in Seq(Items) /\ Len(w) = Len(rooms)
  BY <1>4, WrittenIsSeq
<1> HIDE DEF w
<1>8. w = rooms
  BY <1>6, <1>7, SeqEqual
<1>9. SubSeq(w, 1, k + Len(items)) = SubSeq(rooms, 1, k) \o items
  BY <1>4, WrittenBehind DEF w
<1> QED
  BY <1>3, <1>4, <1>8, <1>9 DEF items

\* A part that ends among the first n items is a part of those.
LEMMA PartOfFront ==
  ASSUME NEW rooms \in Seq(Items), NEW n \in 0..Len(rooms),
         NEW f \in Nat, NEW l \in Nat, l <= n
  PROVE  SubSeq(rooms, f + 1, l) = SubSeq(SubSeq(rooms, 1, n), f + 1, l)
<1> DEFINE c == SubSeq(rooms, 1, n)
           a == SubSeq(rooms, f + 1, l)
           z == SubSeq(c, f + 1, l)
<1>1. Len(rooms) \in Nat /\ n \in Nat
  BY LenProperties
<1>2. c \in Seq(Items) /\ Len(c) = n /\ \A i \in 1..n : c[i] = rooms[i]
  BY Front
<1>3. \A i \in f + 1..l : rooms[i] \in Items
  BY <1>1, ElementOfSeq
<1>4. \A i \in f + 1..l : c[i] = rooms[i] /\ c[i] \in Items
  BY <1>1, <1>2, <1>3
<1> HIDE DEF c
<1>5. /\ a \in Seq(Items) /\ Len(a) = IF f + 1 <= l THEN l - (f + 1) + 1 ELSE 0
      /\ \A i \in 1..l - (f + 1) + 1 : a[i] = rooms[f + 1 + i - 1]
  BY <1>3, SubSeqProperties
<1>6. /\ z \in Seq(Items) /\ Len(z) = IF f + 1 <= l THEN l - (f + 1) + 1 ELSE 0
      /\ \A i \in 1..l - (f + 1) + 1 : z[i] = c[f + 1 + i - 1]
  BY <1>4, SubSeqProperties
<1> HIDE DEF a, z
<1>7. \A i \in 1..Len(a) : a[i] = z[i]
  <2> SUFFICES ASSUME NEW i \in 1..Len(a) PROVE a[i] = z[i]
    OBVIOUS
  <2>1. i \in 1..l - (f + 1) + 1 /\ f + 1 + i - 1 \in f + 1..l
    BY <1>1, <1>5
  <2> QED
    BY <1>4, <1>5, <1>6, <2>1
<1>8. a = z
  BY <1>5, <1>6, <1>7, SeqEqual
<1> QED
  BY <1>8 DEF a, z, c

\* What Owned says of the object o, when it is constructed.
LEMMA OwnerKnows ==
  ASSUME StorageOK, NEW o \in alive
  PROVE  /\ o \in Objects
         /\ obj[o] \in Members
         /\ Rooms(o) \in Seq(Items)
         /\ Len(Rooms(o)) \in Nat
         /\ obj[o].m_tail <= Len(Rooms(o))
         /\ obj[o].m_end = Len(Rooms(o))
         /\ obj[o].m_init <=> obj[o].m_head # Null
         /\ obj[o].m_init => CanRelease(o) /\ obj[o].m_capacity = Len(Rooms(o))
         /\ ~obj[o].m_init => Rooms(o) = <<>> /\ Len(Rooms(o)) = 0 /\ obj[o].m_tail = 0
<1>1. o \in Objects /\ obj[o] \in Members
  BY DEF StorageOK, StorageType
<1>2. Rooms(o) \in Seq(Items) /\ Len(Rooms(o)) \in Nat
  BY <1>1, EmptySeq, LenProperties DEF StorageOK, StorageType, Members, Rooms
<1>3. CASE obj[o].m_head = Null
  <2>1. obj[o] = MovedFrom(obj[o])
    BY <1>3 DEF StorageOK, Owned
  <2>2. obj[o].m_tail = 0 /\ obj[o].m_end = 0 /\ obj[o].m_init = FALSE
    BY <1>1, <2>1 DEF MovedFrom, Members
  <2>3. Rooms(o) = <<>> /\ Len(Rooms(o)) = 0
    BY <1>3, EmptySeq DEF Rooms
  <2> QED
    BY <1>1, <1>2, <1>3, <2>2, <2>3 DEF Members
<1>4. CASE obj[o].m_head # Null
  <2>1. obj[o].m_init /\ CanRelease(o) /\ obj[o].m_tail <= obj[o].m_end
    BY <1>4 DEF StorageOK, Owned
  <2>2. obj[o].m_end = Len(Rooms(o)) /\ obj[o].m_capacity = Len(Rooms(o))
    BY <2>1 DEF CanRelease
  <2> QED
    BY <1>1, <1>2, <1>4, <2>1, <2>2 DEF Members
<1> QED
  BY <1>3, <1>4

LEMMA ContentsOfOwner ==
  ASSUME StorageOK, NEW o \in alive
  PROVE  Contents(o) \in Seq(Items) /\ Len(Contents(o)) = obj[o].m_tail
<1>1. \A i \in 1..obj[o].m_tail : Rooms(o)[i] \in Items
  BY OwnerKnows, ElementOfSeq DEF Members
<1>2. obj[o].m_tail \in Nat
  BY OwnerKnows DEF Members
<1> QED
  BY <1>1, <1>2, SubSeqProperties DEF Contents

-----------------------------------------------------------------------------
(* Ownership.                                                              *)

\* The members m agree with a block that has these rooms.
Fits(m, rooms) ==
    IF m.m_head = Null
    THEN m = MovedFrom(m)
    ELSE /\ m.m_init
         /\ m.m_capacity = Len(rooms)
         /\ m.m_end = Len(rooms)
         /\ m.m_tail <= m.m_end

LEMMA OwnedFits ==
  ASSUME NEW o \in alive
  PROVE  Fits(obj[o], Rooms(o)) <=>
           IF obj[o].m_head = Null
           THEN obj[o] = MovedFrom(obj[o])
           ELSE obj[o].m_init /\ CanRelease(o) /\ obj[o].m_tail <= obj[o].m_end
BY DEF Fits, CanRelease

(* The object o gets the members m: it keeps its block, has none, or gives *)
(* it back and takes a free one.                                           *)
LEMMA Rehoused ==
  ASSUME StorageOK, StorageType', NoFault',
         NEW o \in Objects, NEW m \in Members, NEW rooms \in Seq(Items),
         m.m_head \in (Blocks \ Used) \cup {obj[o].m_head, Null},
         m.m_head = Null <=> rooms = <<>>,
         Fits(m, rooms),
         alive' = alive \cup {o},
         obj' = [obj EXCEPT ![o] = m],
         room' = [x \in Blocks |-> IF x = m.m_head THEN rooms
                                   ELSE IF x = obj[o].m_head THEN <<>> ELSE room[x]]
  PROVE  StorageOK' /\ NowHolds(o, SubSeq(rooms, 1, m.m_tail))
<1> USE StorageAssumption
<1>1. /\ obj \in [Objects -> Members]
      /\ alive \subseteq Objects
      /\ m.m_head \in Blocks \cup {Null}
      /\ \A q \in Objects : obj[q].m_head \in Blocks \cup {Null}
  BY DEF StorageOK, StorageType, Members
<1>2. /\ \A q \in Objects \ alive : obj[q] = Raw /\ obj[q].m_head = Null
      /\ \A q, r \in Objects : obj[q].m_head = obj[r].m_head => q = r \/ obj[q].m_head = Null
      /\ Used = {obj[q].m_head : q \in alive} \ {Null}
  <2>1. Raw.m_head = Null
    BY DEF Raw
  <2> QED
    BY <2>1 DEF StorageOK, Owned
<1>3. /\ obj'[o] = m
      /\ \A q \in Objects \ {o} : obj'[q] = obj[q]
  BY <1>1
<1>4. ASSUME NEW q \in alive, q # o, obj[q].m_head # Null
      PROVE  /\ obj[q].m_head \notin {m.m_head, obj[o].m_head}
             /\ room'[obj[q].m_head] = room[obj[q].m_head]
  BY <1>1, <1>2, <1>4
<1>5. Rooms(o)' = rooms
  BY <1>1, <1>3 DEF Rooms
<1>6. ASSUME NEW q \in Objects, q # o PROVE Rooms(q)' = Rooms(q)
  BY <1>1, <1>2, <1>3, <1>4, <1>6 DEF Rooms
<1>7. \A q \in alive' : Fits(obj'[q], Rooms(q)')
  <2>1. Fits(obj'[o], Rooms(o)')
    BY <1>3, <1>5 DEF Fits
  <2>2. ASSUME NEW q \in alive, q # o PROVE Fits(obj'[q], Rooms(q)')
    <3>1. Fits(obj[q], Rooms(q))
      BY OwnedFits DEF StorageOK, Owned
    <3> QED
      BY <1>1, <1>3, <1>6, <2>2, <3>1
  <2> QED
    BY <2>1, <2>2
<1>8. \A q \in Objects \ alive' : obj'[q] = Raw
  BY <1>2, <1>3
<1>9. \A q, r \in Objects :
         obj'[q].m_head = obj'[r].m_head => q = r \/ obj'[q].m_head = Null
  BY <1>1, <1>2, <1>3
<1>10. Used' = {obj'[q].m_head : q \in alive'} \ {Null}
  <2>1. ASSUME NEW b \in Used' PROVE b \in {obj'[q].m_head : q \in alive'} \ {Null}
    <3>1. CASE b = m.m_head
      BY <1>3, <3>1, <2>1 DEF Used
    <3>2. CASE b # m.m_head
      <4>1. b \in Used /\ b # obj[o].m_head
        BY <2>1, <3>2 DEF Used
      <4>2. PICK q \in alive : obj[q].m_head = b
        BY <1>2, <4>1
      <4> QED
        BY <1>1, <1>3, <2>1, <4>1, <4>2 DEF Used
    <3> QED
      BY <3>1, <3>2
  <2>2. ASSUME NEW q \in alive', obj'[q].m_head # Null PROVE obj'[q].m_head \in Used'
    <3>1. CASE q = o
      BY <1>1, <1>3, <2>2, <3>1 DEF Used
    <3>2. CASE q # o
      <4>1. obj[q].m_head \in Used
        BY <1>1, <1>2, <1>3, <2>2, <3>2
      <4> QED
        BY <1>1, <1>3, <1>4, <2>2, <3>2, <4>1 DEF Used
    <3> QED
      BY <3>1, <3>2
  <2> QED
    BY <2>1, <2>2
<1>11. NowHolds(o, SubSeq(rooms, 1, m.m_tail))
  <2>1. Contents(o)' = SubSeq(rooms, 1, m.m_tail)
    BY <1>5, <1>3 DEF Contents
  <2>2. \A q \in Objects \ {o} : Contents(q)' = Contents(q)
    BY <1>3, <1>6 DEF Contents
  <2> QED
    BY <2>1, <2>2, OneChanged
<1> QED
  BY <1>7, <1>8, <1>9, <1>10, <1>11 DEF StorageOK, Owned, Fits, CanRelease

-----------------------------------------------------------------------------
(* The operations that change one object.                                  *)

\* A constructor that is given room for its items.
LEMMA ConstructKeeps ==
  ASSUME StorageOK, NEW o \in Objects, NEW s \in Nat, NEW items \in Seq(Items),
         Len(items) <= s, Construct(o, s, items)
  PROVE  StorageOK' /\ NowHolds(o, items)
<1> USE StorageAssumption
<1>1. /\ Len(items) \in Nat
      /\ o \notin alive
      /\ alive' = alive \cup {o}
      /\ fault' = fault
  BY LenProperties DEF Construct
<1>2. obj[o] = Raw /\ Raw \in Members /\ Raw.m_head = Null /\ Raw.m_tail = 0
  BY <1>1 DEF StorageOK, Owned, Raw, Members
<1>3. CASE s = 0
  <2>1. obj' = obj /\ room' = room
    BY <1>1, <1>3 DEF Construct
  <2>2. Raw = MovedFrom(Raw)
    <3>1. Raw.m_tail = 0 /\ Raw.m_end = 0 /\ Raw.m_init = FALSE
      BY DEF Raw
    <3> QED
      BY <1>2, <3>1 DEF MovedFrom, Members
  <2>3. Used' = Used
    BY <2>1 DEF Used
  <2>4. {obj[q].m_head : q \in alive \cup {o}} \ {Null} = {obj[q].m_head : q \in alive} \ {Null}
    BY <1>2
  <2>5. \A q \in Objects : Rooms(q)' = Rooms(q)
    BY <2>1 DEF Rooms
  <2>6. StorageType' /\ NoFault'
    BY <1>1, <2>1 DEF StorageOK, StorageType, NoFault
  <2>7. \A q \in alive' : Fits(obj[q], Rooms(q))
    <3>1. Fits(obj[o], Rooms(o))
      BY <1>2, <2>2 DEF Fits
    <3> QED
      BY <1>1, <3>1, OwnedFits DEF StorageOK, Owned
  <2>8. \A q \in alive' : Fits(obj'[q], Rooms(q)')
    <3>1. alive' \subseteq Objects
      BY <1>1 DEF StorageOK, StorageType
    <3> QED
      BY <2>1, <2>5, <2>7, <3>1
  <2>9. /\ \A q \in Objects \ alive' : obj'[q] = Raw
        /\ \A q, r \in Objects :
              obj'[q].m_head = obj'[r].m_head => q = r \/ obj'[q].m_head = Null
        /\ Used' = {obj'[q].m_head : q \in alive'} \ {Null}
    BY <1>1, <2>1, <2>3, <2>4 DEF StorageOK, Owned
  <2>10. NowHolds(o, items)
    <3>1. items = <<>>
      BY <1>1, <1>3, EmptySeq
    <3>2. Rooms(o) = <<>> /\ obj[o].m_tail = 0
      BY <1>2 DEF Rooms
    <3>3. Contents(o) = <<>>
      BY <3>2, SubSeqEmpty DEF Contents
    <3>4. \A q \in Objects : Contents(q)' = Contents(q)
      BY <2>1, <2>5 DEF Contents
    <3> QED
      BY <3>1, <3>3, <3>4, OneChanged
  <2> QED
    BY <2>6, <2>8, <2>9, <2>10 DEF StorageOK, Owned, Fits, CanRelease
<1>4. CASE s # 0
  <2>1. PICK b \in Blocks \ Used :
           /\ room' = [room EXCEPT ![b] = Pad(items, s)]
           /\ obj' = [obj EXCEPT ![o] = Holding(b, s, Len(items))]
    BY <1>1, <1>4 DEF Construct
  <2> DEFINE m == Holding(b, s, Len(items))
             rooms == Pad(items, s)
  <2>2. rooms \in Seq(Items) /\ Len(rooms) = s /\ rooms # <<>>
    BY <1>4, PadIsSeq, EmptySeq
  <2>3. m \in Members /\ m.m_head = b /\ m.m_tail = Len(items)
    BY <1>1 DEF Holding, Members
  <2>4. Fits(m, rooms)
    BY <1>1, <2>2 DEF Holding, Fits
  <2>5. StorageType' /\ NoFault'
    BY <1>1, <2>1, <2>2, <2>3 DEF StorageOK, StorageType, NoFault
  <2>6. room' = [x \in Blocks |-> IF x = m.m_head THEN rooms
                                  ELSE IF x = obj[o].m_head THEN <<>> ELSE room[x]]
    BY <1>2, <2>1, <2>3 DEF StorageOK, StorageType
  <2>7. obj' = [obj EXCEPT ![o] = m]
    BY <2>1
  <2>8. SubSeq(rooms, 1, m.m_tail) = items
    BY <2>3, FrontOfPad
  <2> HIDE DEF m, rooms
  <2> QED
    BY <1>1, <2>2, <2>3, <2>4, <2>5, <2>6, <2>7, <2>8, Rehoused
<1> QED
  BY <1>3, <1>4

\* resize and the writes behind it, to a size that is not zero.
LEMMA ReallocateKeeps ==
  ASSUME StorageOK, NEW o \in alive, NEW s \in Nat \ {0}, NEW items \in Seq(Items),
         Len(items) <= s, Reallocate(o, s, items)
  PROVE  StorageOK' /\ NowHolds(o, items)
<1> USE StorageAssumption
<1>1. Len(items) \in Nat /\ o \in Objects
  BY LenProperties, OwnerKnows
<1>2. CanResize(o)
  BY OwnerKnows DEF CanResize
<1>3. PICK b \in (Blocks \ Used) \cup ({obj[o].m_head} \ {Null}) :
         /\ room' = [x \in Blocks |-> IF x = b THEN Pad(items, s)
                                     ELSE IF x = obj[o].m_head THEN <<>> ELSE room[x]]
         /\ obj' = [obj EXCEPT ![o] = Holding(b, s, Len(items))]
         /\ UNCHANGED <<alive, fault>>
  <2>1. ~(~CanResize(o) \/ Len(items) > s)
    BY <1>1, <1>2
  <2> QED
    BY <2>1 DEF Reallocate
<1>4. b \in Blocks /\ b # Null
  BY <1>3, OwnerKnows DEF Members
<1> DEFINE m == Holding(b, s, Len(items))
           rooms == Pad(items, s)
<1>5. rooms \in Seq(Items) /\ Len(rooms) = s /\ rooms # <<>>
  BY PadIsSeq, EmptySeq
<1>6. m \in Members /\ m.m_head = b /\ m.m_tail = Len(items)
  BY <1>1, <1>4 DEF Holding, Members
<1>7. Fits(m, rooms)
  BY <1>1, <1>4, <1>5 DEF Holding, Fits
<1>8. StorageType' /\ NoFault'
  BY <1>3, <1>5, <1>6, EmptySeq DEF StorageOK, StorageType, NoFault
<1>9. /\ alive' = alive \cup {o}
      /\ obj' = [obj EXCEPT ![o] = m]
      /\ room' = [x \in Blocks |-> IF x = m.m_head THEN rooms
                                  ELSE IF x = obj[o].m_head THEN <<>> ELSE room[x]]
  BY <1>3, <1>6
<1>10. m.m_head \in (Blocks \ Used) \cup {obj[o].m_head, Null}
  BY <1>3, <1>6
<1>11. SubSeq(rooms, 1, m.m_tail) = items
  BY <1>6, FrontOfPad
<1> HIDE DEF m, rooms
<1> QED
  BY <1>1, <1>4, <1>5, <1>6, <1>7, <1>8, <1>9, <1>10, <1>11, Rehoused

\* The tail of o moves within its block, and the rooms get other items.
LEMMA TailMoveKeeps ==
  ASSUME StorageOK, StorageType', NEW o \in alive, NEW n \in Nat,
         n <= Len(Rooms(o)),
         NEW rooms \in Seq(Items), Len(rooms) = Len(Rooms(o)),
         obj' = [obj EXCEPT ![o].m_tail = n],
         room' = [x \in Blocks |-> IF x = obj[o].m_head THEN rooms ELSE room[x]],
         UNCHANGED <<alive, fault>>
  PROVE  StorageOK' /\ NowHolds(o, SubSeq(rooms, 1, n))
<1> DEFINE m == [obj[o] EXCEPT !.m_tail = n]
<1>1. o \in Objects /\ obj[o] \in Members
  BY OwnerKnows
<1>2. m \in Members /\ m.m_head = obj[o].m_head /\ m.m_tail = n
  BY <1>1 DEF Members
<1>3. obj' = [obj EXCEPT ![o] = m]
  OBVIOUS
<1>4. alive' = alive \cup {o} /\ NoFault'
  BY DEF StorageOK, NoFault
<1>5. Fits(obj[o], Rooms(o))
  BY OwnedFits DEF StorageOK, Owned
<1>6. Fits(m, rooms)
  <2>1. CASE obj[o].m_head = Null
    <3>1. Len(Rooms(o)) = 0 /\ obj[o].m_tail = 0
      BY <2>1, OwnerKnows
    <3>2. m = obj[o]
      BY <1>1, <3>1 DEF Members
    <3> QED
      BY <1>5, <2>1, <3>2 DEF Fits
  <2>2. CASE obj[o].m_head # Null
    BY <1>1, <1>5, <2>2 DEF Fits, Members
  <2> QED
    BY <2>1, <2>2
<1>7. m.m_head = Null <=> rooms = <<>>
  <2>1. Rooms(o) = <<>> <=> rooms = <<>>
    BY OwnerKnows, EmptySeq
  <2>2. CASE obj[o].m_head = Null
    BY <1>2, <2>1, <2>2 DEF Rooms
  <2>3. CASE obj[o].m_head # Null
    <3>1. obj[o].m_head \in Used
      BY <2>3 DEF StorageOK, Owned
    <3> QED
      BY <1>2, <2>1, <2>3, <3>1 DEF Used, Rooms
  <2> QED
    BY <2>2, <2>3
<1>8. room' = [x \in Blocks |-> IF x = m.m_head THEN rooms
                                ELSE IF x = obj[o].m_head THEN <<>> ELSE room[x]]
  BY <1>2
<1> HIDE DEF m
<1> QED
  BY <1>1, <1>2, <1>3, <1>4, <1>6, <1>7, <1>8, Rehoused

\* A write that stays inside the block of o, if it has one.
LEMMA WriteKeeps ==
  ASSUME StorageOK, NEW o \in alive, NEW k \in Nat, NEW items \in Seq(Items),
         NEW n \in Nat, n <= Len(Rooms(o)), k + Len(items) <= Len(Rooms(o)),
         WriteInPlace(o, k, items, n)
  PROVE  StorageOK' /\ NowHolds(o, SubSeq(Written(Rooms(o), k, items), 1, n))
<1> USE StorageAssumption
<1>1. /\ o \in Objects /\ obj[o] \in Members
      /\ Rooms(o) \in Seq(Items) /\ Len(Rooms(o)) \in Nat /\ Len(items) \in Nat
  BY OwnerKnows, LenProperties
<1>2. /\ room' = IF items = <<>> THEN room
                 ELSE [room EXCEPT ![obj[o].m_head] = Written(@, k, items)]
      /\ obj' = [obj EXCEPT ![o].m_tail = n]
      /\ UNCHANGED <<alive, fault>>
  BY <1>1 DEF WriteInPlace
<1>3. obj[o].m_head \in Blocks \cup {Null}
  BY <1>1 DEF Members
<1> DEFINE rooms == Written(Rooms(o), k, items)
<1>4. /\ rooms \in Seq(Items) /\ Len(rooms) = Len(Rooms(o))
      /\ items = <<>> => rooms = Rooms(o)
  BY <1>1, WrittenIsSeq, WrittenNothing
<1>5. room' = [x \in Blocks |-> IF x = obj[o].m_head THEN rooms ELSE room[x]]
  <2>1. room = [x \in Blocks |-> room[x]]
    BY DEF StorageOK, StorageType
  <2>2. CASE obj[o].m_head = Null
    <3>1. items = <<>>
      BY <1>1, <2>2, OwnerKnows, EmptySeq
    <3> QED
      BY <1>2, <2>1, <2>2, <3>1
  <2>3. CASE obj[o].m_head # Null
    <3>1. Rooms(o) = room[obj[o].m_head]
      BY <2>3 DEF Rooms
    <3> QED
      BY <1>2, <1>3, <1>4, <2>1, <2>3, <3>1
  <2> QED
    BY <2>2, <2>3
<1>6. StorageType'
  <2>1. [obj[o] EXCEPT !.m_tail = n] \in Members
    BY <1>1 DEF Members
  <2>2. obj' \in [Objects -> Members]
    BY <1>2, <2>1 DEF StorageOK, StorageType
  <2> HIDE DEF rooms
  <2>3. room' \in [Blocks -> Seq(Items)]
    BY <1>4, <1>5 DEF StorageOK, StorageType
  <2> QED
    BY <1>2, <2>2, <2>3 DEF StorageOK, StorageType
<1> HIDE DEF rooms
<1>7. StorageOK' /\ NowHolds(o, SubSeq(rooms, 1, n))
  BY <1>1, <1>2, <1>4, <1>5, <1>6, TailMoveKeeps
<1> QED
  BY <1>7 DEF rooms

-----------------------------------------------------------------------------
(* The operations that change two objects, or end one.                     *)

\* A moved-from object holds nothing and fits.
LEMMA MovedFromFits ==
  ASSUME NEW m \in Members, NEW rooms
  PROVE  /\ MovedFrom(m) \in Members
         /\ MovedFrom(m).m_head = Null
         /\ MovedFrom(m).m_tail = 0
         /\ Fits(MovedFrom(m), rooms)
<1>1. /\ MovedFrom(m) \in Members
      /\ MovedFrom(m).m_head = Null
      /\ MovedFrom(m).m_tail = 0
      /\ MovedFrom(m).m_end = 0
      /\ MovedFrom(m).m_init = FALSE
  BY DEF MovedFrom, Members
<1>2. MovedFrom(MovedFrom(m)) = MovedFrom(m)
  BY <1>1 DEF MovedFrom, Members
<1> QED
  BY <1>1, <1>2 DEF Fits

(* The object o gives back its block, if it has one, and takes over that   *)
(* of p, which is left without.                                            *)
LEMMA HandedOver ==
  ASSUME StorageOK, NEW o \in Objects, NEW p \in alive, o # p,
         NEW m \in Members, m.m_head = obj[p].m_head, m.m_tail = obj[p].m_tail,
         Fits(m, Rooms(p)),
         alive' = alive \cup {o},
         obj' = [obj EXCEPT ![o] = m, ![p] = MovedFrom(obj[p])],
         room' = [x \in Blocks |-> IF x = obj[o].m_head THEN <<>> ELSE room[x]],
         fault' = fault
  PROVE  StorageOK' /\ NowGivenBy(o, p)
<1> USE StorageAssumption
<1>1. /\ obj \in [Objects -> Members]
      /\ alive \subseteq Objects
      /\ p \in Objects
      /\ obj[p] \in Members
      /\ \A q \in Objects : obj[q].m_head \in Blocks \cup {Null}
  BY DEF StorageOK, StorageType, Members
<1>2. /\ \A q \in Objects \ alive : obj[q] = Raw /\ obj[q].m_head = Null
      /\ \A q, r \in Objects : obj[q].m_head = obj[r].m_head => q = r \/ obj[q].m_head = Null
      /\ Used = {obj[q].m_head : q \in alive} \ {Null}
  <2>1. Raw.m_head = Null
    BY DEF Raw
  <2> QED
    BY <2>1 DEF StorageOK, Owned
<1> DEFINE n == MovedFrom(obj[p])
<1>3. n \in Members /\ n.m_head = Null /\ n.m_tail = 0 /\ \A rooms : Fits(n, rooms)
  BY <1>1, MovedFromFits
<1>4. obj' = [obj EXCEPT ![o] = m, ![p] = n]
  OBVIOUS
<1> HIDE DEF n
<1>5. /\ obj'[o] = m
      /\ obj'[p] = n
      /\ \A q \in Objects \ {o, p} : obj'[q] = obj[q]
  BY <1>1, <1>4
<1>6. ASSUME NEW q \in alive, q # o, obj[q].m_head # Null
      PROVE  obj[q].m_head # obj[o].m_head /\ room'[obj[q].m_head] = room[obj[q].m_head]
  BY <1>1, <1>2, <1>6
<1>7. StorageType' /\ NoFault'
  <2>1. obj' \in [Objects -> Members]
    BY <1>1, <1>3, <1>4
  <2>2. room' \in [Blocks -> Seq(Items)]
    BY EmptySeq DEF StorageOK, StorageType
  <2> QED
    BY <1>1, <2>1, <2>2 DEF StorageOK, StorageType, NoFault
<1>8. /\ Rooms(o)' = Rooms(p) /\ Rooms(p)' = <<>>
      /\ \A q \in Objects \ {o, p} : Rooms(q)' = Rooms(q)
  <2>1. ASSUME NEW q \in Objects \ {o, p} PROVE Rooms(q)' = Rooms(q)
    BY <1>1, <1>2, <1>5, <1>6 DEF Rooms
  <2>2. Rooms(o)' = Rooms(p) /\ Rooms(p)' = <<>>
    BY <1>1, <1>3, <1>5, <1>6 DEF Rooms
  <2> QED
    BY <2>1, <2>2
<1>9. \A q \in alive' : Fits(obj'[q], Rooms(q)')
  <2>1. ASSUME NEW q \in alive, q \notin {o, p} PROVE Fits(obj'[q], Rooms(q)')
    <3>1. Fits(obj[q], Rooms(q))
      BY OwnedFits DEF StorageOK, Owned
    <3> QED
      BY <1>1, <1>5, <1>8, <2>1, <3>1
  <2> QED
    BY <1>3, <1>5, <1>8, <2>1
<1>10. NowGivenBy(o, p)
  <2>1. Contents(o)' = Contents(p)
    BY <1>5, <1>8 DEF Contents
  <2>2. Contents(p)' = <<>>
    <3>1. Contents(p)' = SubSeq(<<>>, 1, 0)
      BY <1>3, <1>5, <1>8 DEF Contents
    <3> QED
      BY <3>1, SubSeqEmpty
  <2>3. \A q \in Objects \ {o, p} : Contents(q)' = Contents(q)
    BY <1>5, <1>8 DEF Contents
  <2> QED
    BY <1>1, <2>1, <2>2, <2>3 DEF NowGivenBy, contentsBar
<1>11. \A q \in Objects \ alive' : obj'[q] = Raw
  BY <1>2, <1>5
<1>12. \A q, r \in Objects :
          obj'[q].m_head = obj'[r].m_head => q = r \/ obj'[q].m_head = Null
  BY <1>1, <1>2, <1>3, <1>5
<1>13. Used' = {obj'[q].m_head : q \in alive'} \ {Null}
  <2>1. ASSUME NEW b \in Used' PROVE b \in {obj'[q].m_head : q \in alive'} \ {Null}
    <3>1. b \in Used /\ b # obj[o].m_head
      BY <2>1 DEF Used
    <3>2. PICK q \in alive : obj[q].m_head = b
      BY <1>2, <3>1
    <3>3. b # Null /\ q # o
      BY <1>2, <3>1, <3>2
    <3>4. CASE q = p
      BY <1>5, <3>2, <3>3, <3>4
    <3>5. CASE q # p
      BY <1>1, <1>5, <3>2, <3>3, <3>5
    <3> QED
      BY <3>4, <3>5
  <2>2. ASSUME NEW q \in alive', obj'[q].m_head # Null PROVE obj'[q].m_head \in Used'
    <3>1. PICK r \in alive : r # o /\ obj[r].m_head = obj'[q].m_head
      <4>1. CASE q = o
        BY <1>5, <4>1
      <4>2. CASE q # o
        BY <1>1, <1>3, <1>5, <2>2, <4>2
      <4> QED
        BY <4>1, <4>2
    <3>2. obj[r].m_head \in Used
      BY <1>1, <1>2, <2>2, <3>1
    <3> QED
      BY <1>6, <2>2, <3>1, <3>2 DEF Used
  <2> QED
    BY <2>1, <2>2
<1> QED
  BY <1>7, <1>9, <1>10, <1>11, <1>12, <1>13 DEF StorageOK, Owned, Fits, CanRelease

LEMMA MoveConstructKeeps ==
  ASSUME StorageOK, NEW o \in Objects, NEW p \in Objects, MoveConstruct(o, p)
  PROVE  StorageOK' /\ NowGivenBy(o, p)
<1> USE StorageAssumption
<1>1. /\ o \notin alive /\ p \in alive /\ o # p
      /\ alive' = alive \cup {o}
      /\ obj' = [obj EXCEPT ![o] = obj[p], ![p] = MovedFrom(obj[p])]
      /\ room' = room /\ fault' = fault
  BY DEF MoveConstruct
<1>2. obj[p] \in Members /\ Fits(obj[p], Rooms(p))
  BY <1>1, OwnerKnows, OwnedFits DEF StorageOK, Owned
<1>3. obj[o].m_head = Null
  BY <1>1 DEF StorageOK, Owned, Raw
<1>4. room' = [x \in Blocks |-> IF x = obj[o].m_head THEN <<>> ELSE room[x]]
  BY <1>1, <1>3 DEF StorageOK, StorageType
<1> QED
  BY <1>1, <1>2, <1>4, HandedOver

\* A move between two blocks of the same length.
LEMMA MoveAssignKeeps ==
  ASSUME StorageOK, NEW o \in Objects, NEW p \in Objects, o # p,
         obj[o].m_init, obj[p].m_init, obj[o].m_capacity = obj[p].m_capacity,
         MoveAssign(o, p)
  PROVE  StorageOK' /\ NowGivenBy(o, p)
<1>1. /\ o \in alive /\ p \in alive
  BY DEF MoveAssign
<1>2. /\ obj[o] \in Members /\ obj[p] \in Members
      /\ CanRelease(o) /\ obj[o].m_head \in Blocks
  BY <1>1, OwnerKnows DEF Members
<1> DEFINE m == [obj[p] EXCEPT !.m_capacity = obj[o].m_capacity, !.m_init = TRUE]
<1>3. m = obj[p]
  BY <1>2 DEF Members
<1>4. /\ room' = [room EXCEPT ![obj[o].m_head] = <<>>]
      /\ obj' = [obj EXCEPT ![o] = m, ![p] = MovedFrom(obj[p])]
      /\ UNCHANGED <<alive, fault>>
  BY <1>1, <1>2 DEF MoveAssign, Members
<1>5. room' = [x \in Blocks |-> IF x = obj[o].m_head THEN <<>> ELSE room[x]]
  BY <1>4 DEF StorageOK, StorageType
<1>6. Fits(obj[p], Rooms(p))
  BY <1>1, OwnedFits DEF StorageOK, Owned
<1>7. alive' = alive \cup {o}
  BY <1>1, <1>4
<1> HIDE DEF m
<1> QED
  BY <1>1, <1>2, <1>3, <1>4, <1>5, <1>6, <1>7, HandedOver

LEMMA DestroyKeeps ==
  ASSUME StorageOK, NEW o \in Objects, Destroy(o)
  PROVE  StorageOK' /\ NowHolds(o, <<>>)
<1> USE StorageAssumption
<1>1. /\ obj \in [Objects -> Members]
      /\ alive \subseteq Objects
      /\ o \in alive
      /\ \A q \in Objects : obj[q].m_head \in Blocks \cup {Null}
  BY DEF Destroy, StorageOK, StorageType, Members
<1>2. /\ obj[o].m_init => CanRelease(o)
      /\ obj[o].m_init <=> obj[o].m_head # Null
  BY <1>1, OwnerKnows
<1>3. /\ alive' = alive \ {o}
      /\ room' = IF obj[o].m_init THEN [room EXCEPT ![obj[o].m_head] = <<>>] ELSE room
      /\ obj' = [obj EXCEPT ![o] = Raw]
      /\ fault' = fault
  BY <1>2 DEF Destroy
<1>4. room' = [x \in Blocks |-> IF x = obj[o].m_head THEN <<>> ELSE room[x]]
  BY <1>1, <1>2, <1>3 DEF StorageOK, StorageType
<1>5. /\ \A q \in Objects \ alive : obj[q] = Raw
      /\ \A q, r \in Objects : obj[q].m_head = obj[r].m_head => q = r \/ obj[q].m_head = Null
      /\ Used = {obj[q].m_head : q \in alive} \ {Null}
  BY DEF StorageOK, Owned
<1>6. Raw \in Members /\ Raw.m_head = Null /\ Raw.m_tail = 0
  BY DEF Raw, Members
<1>7. /\ obj'[o] = Raw
      /\ \A q \in Objects \ {o} : obj'[q] = obj[q]
  BY <1>1, <1>3
<1>8. StorageType' /\ NoFault'
  <2>1. obj' \in [Objects -> Members] /\ alive' \subseteq Objects
    BY <1>1, <1>3, <1>6
  <2>2. room' \in [Blocks -> Seq(Items)]
    BY <1>4, EmptySeq DEF StorageOK, StorageType
  <2> QED
    BY <1>3, <2>1, <2>2 DEF StorageOK, StorageType, NoFault
<1>9. ASSUME NEW q \in Objects, q # o PROVE Rooms(q)' = Rooms(q)
  BY <1>1, <1>4, <1>5, <1>6, <1>7, <1>9 DEF Rooms
<1>10. \A q \in alive' : Fits(obj'[q], Rooms(q)')
  <2>1. ASSUME NEW q \in alive, q # o PROVE Fits(obj'[q], Rooms(q)')
    <3>1. Fits(obj[q], Rooms(q))
      BY OwnedFits DEF StorageOK, Owned
    <3> QED
      BY <1>1, <1>7, <1>9, <2>1, <3>1
  <2> QED
    BY <1>3, <2>1
<1>11. \A q \in Objects \ alive' : obj'[q] = Raw
  BY <1>3, <1>5, <1>7
<1>12. \A q, r \in Objects :
          obj'[q].m_head = obj'[r].m_head => q = r \/ obj'[q].m_head = Null
  BY <1>1, <1>5, <1>6, <1>7
<1>13. Used' = {obj'[q].m_head : q \in alive'} \ {Null}
  <2>1. ASSUME NEW b \in Used' PROVE b \in {obj'[q].m_head : q \in alive'} \ {Null}
    <3>1. b \in Used /\ b # obj[o].m_head
      BY <1>4, <2>1 DEF Used
    <3>2. PICK q \in alive : obj[q].m_head = b
      BY <1>5, <3>1
    <3> QED
      BY <1>1, <1>3, <1>5, <1>7, <3>1, <3>2
  <2>2. ASSUME NEW q \in alive', obj'[q].m_head # Null PROVE obj'[q].m_head \in Used'
    <3>1. q \in alive /\ q # o /\ obj'[q] = obj[q]
      BY <1>1, <1>3, <1>7
    <3>2. obj[q].m_head \in Used /\ obj[q].m_head # obj[o].m_head
      BY <1>1, <1>5, <2>2, <3>1
    <3> QED
      BY <1>4, <3>1, <3>2 DEF Used
  <2> QED
    BY <2>1, <2>2
<1>14. NowHolds(o, <<>>)
  <2>1. Contents(o)' = <<>>
    BY <1>6, <1>7, SubSeqEmpty DEF Contents
  <2>2. \A q \in Objects \ {o} : Contents(q)' = Contents(q)
    BY <1>7, <1>9 DEF Contents
  <2> QED
    BY <2>1, <2>2, OneChanged
<1> QED
  BY <1>8, <1>10, <1>11, <1>12, <1>13, <1>14 DEF StorageOK, Owned, Fits, CanRelease

-----------------------------------------------------------------------------
BufferOK == StorageOK /\ m_read \in [Objects -> Nat] /\ out \in Items \cup Codes

(* What a careful caller and every public call of a buffer may assume.     *)
LEMMA BufferKnows ==
  ASSUME StorageOK, NEW o \in alive
  PROVE  /\ o \in Objects
         /\ obj[o] \in Members
         /\ Rooms(o) \in Seq(Items) /\ Len(Rooms(o)) \in Nat
         /\ size(o) \in Nat /\ obj[o].m_capacity \in Nat
         /\ size(o) <= Len(Rooms(o))
         /\ size(o) <= obj[o].m_capacity
         /\ obj[o].m_end = Len(Rooms(o))
         /\ obj[o].m_init \in BOOLEAN
         /\ obj[o].m_init => obj[o].m_capacity = Len(Rooms(o))
         /\ ~obj[o].m_init => Len(Rooms(o)) = 0 /\ size(o) = 0
BY OwnerKnows DEF Members, size

LEMMA SameStorage ==
  ASSUME StorageOK, UNCHANGED storageVars
  PROVE  StorageOK' /\ contentsBar' = contentsBar
<1>1. alive' = alive /\ obj' = obj /\ room' = room /\ fault' = fault
  BY DEF storageVars
<1>2. Used' = Used /\ \A o : Rooms(o)' = Rooms(o)
  BY <1>1 DEF Used, Rooms
<1>3. StorageType' /\ NoFault' /\ contentsBar' = contentsBar
  BY <1>1, <1>2 DEF StorageOK, StorageType, NoFault, contentsBar, Contents
<1>4. \A o \in alive' : Fits(obj'[o], Rooms(o)')
  BY <1>1, <1>2, OwnedFits DEF StorageOK, Owned
<1>5. /\ \A o \in Objects \ alive' : obj'[o] = Raw
      /\ \A o, p \in Objects :
            obj'[o].m_head = obj'[p].m_head => o = p \/ obj'[o].m_head = Null
      /\ Used' = {obj'[o].m_head : o \in alive'} \ {Null}
  BY <1>1, <1>2 DEF StorageOK, Owned
<1> QED
  BY <1>3, <1>4, <1>5 DEF StorageOK, Owned, Fits, CanRelease

LEMMA SmallModulo == \A x, n \in Nat : x < n => x % n = x
OBVIOUS

LEMMA FilledIsSeq ==
  ASSUME NEW n \in Nat, NEW v \in Items
  PROVE  [i \in 1..n |-> v] \in Seq(Items) /\ Len([i \in 1..n |-> v]) = n
<1>1. [i \in 1..n |-> v] \in [1..n -> Items]
  OBVIOUS
<1> QED
  BY <1>1, SeqDef, LenProperties

-----------------------------------------------------------------------------
(* The calls that change the storage, one lemma each.                      *)

LEMMA CopyKeeps ==
  ASSUME Careless = {}, StorageOK, NEW o \in Objects, NEW p \in Objects, Copy(o, p)
  PROVE  /\ StorageOK' /\ o \in alive /\ p \in alive
         /\ Contents(o) = <<>> /\ NowHolds(o, Contents(p))
<1>1. /\ o # p /\ CopyAssign(o, p)
      /\ size(o) = 0 /\ obj[o].m_capacity >= obj[p].m_capacity
      /\ obj[o].m_init \/ size(p) = 0
  BY DEF Copy, Careful, CopyAssignNeeds
<1>2. o \in alive /\ p \in alive
  BY <1>1 DEF CopyAssign
<1>3. WriteInPlace(o, 0, Contents(p), size(o) + size(p))
  BY <1>1 DEF CopyAssign, size
<1>4. Contents(p) \in Seq(Items) /\ Len(Contents(p)) = size(p)
  BY <1>2, ContentsOfOwner DEF size
<1>5. /\ size(o) + size(p) \in Nat
      /\ size(o) + size(p) <= Len(Rooms(o))
      /\ 0 + size(p) <= Len(Rooms(o))
      /\ size(o) + size(p) = size(p)
  BY <1>1, <1>2, BufferKnows
<1>6. SubSeq(Written(Rooms(o), 0, Contents(p)), 1, size(p)) = Contents(p)
  BY <1>2, <1>4, <1>5, BufferKnows, WrittenFront
<1>7. Contents(o) = <<>>
  BY <1>1, <1>2, ContentsOfOwner, EmptySeq DEF size
<1>8. StorageOK' /\ NowHolds(o, SubSeq(Written(Rooms(o), 0, Contents(p)), 1, size(p)))
  BY <1>2, <1>3, <1>4, <1>5, WriteKeeps
<1> QED
  BY <1>2, <1>6, <1>7, <1>8

LEMMA AppendKeeps ==
  ASSUME StorageOK, NEW o \in Objects, NEW items \in Seq(Items), append(o, items)
  PROVE  StorageOK' /\ NowHolds(o, Contents(o) \o items)
<1>1. o \in alive /\ Len(items) \in Nat
  BY LenProperties DEF append
<1>2. Contents(o) \in Seq(Items) /\ Len(Contents(o)) = size(o)
  BY <1>1, ContentsOfOwner DEF size
<1>3. CASE overflow(o, Len(items))
  <2> DEFINE s == ResizedTo(o, Len(items))
             all == Contents(o) \o items
  <2>1. Reallocate(o, s, all)
    BY <1>3 DEF append
  <2>2. all \in Seq(Items) /\ Len(all) = size(o) + Len(items)
    BY <1>1, <1>2, ConcatProperties
  <2>3. Len(items) > 0
    BY <1>1, <1>3, BufferKnows DEF overflow, size
  <2>4. s \in Nat \ {0} /\ Len(all) <= s
    BY <1>1, <2>2, <2>3, BufferKnows DEF ResizedTo
  <2> HIDE DEF s, all
  <2>5. StorageOK' /\ NowHolds(o, all)
    BY <1>1, <2>1, <2>2, <2>4, ReallocateKeeps
  <2> QED
    BY <2>5 DEF all
<1>4. CASE ~overflow(o, Len(items))
  <2>1. WriteInPlace(o, size(o), items, size(o) + Len(items))
    BY <1>4 DEF append
  <2>2. size(o) \in Nat /\ size(o) + Len(items) \in Nat /\ size(o) + Len(items) <= Len(Rooms(o))
    BY <1>1, <1>4, BufferKnows DEF overflow, size
  <2>3. SubSeq(Written(Rooms(o), size(o), items), 1, size(o) + Len(items)) = Contents(o) \o items
    BY <1>1, <2>2, BufferKnows, WrittenBehind DEF Contents, size
  <2>4. StorageOK' /\ NowHolds(o, SubSeq(Written(Rooms(o), size(o), items), 1, size(o) + Len(items)))
    BY <1>1, <2>1, <2>2, WriteKeeps
  <2> QED
    BY <2>3, <2>4
<1> QED
  BY <1>3, <1>4

LEMMA AssignKeeps ==
  ASSUME Careless = {}, StorageOK,
         NEW o \in Objects, NEW items \in Seq(Items), assign(o, items)
  PROVE  StorageOK' /\ NowHolds(o, items)
<1>1. o \in alive /\ Len(items) \in Nat /\ AssignNeeds(o, Len(items))
  BY LenProperties DEF assign, Careful
<1>2. CASE obj[o].m_capacity < Len(items)
  <2>1. Reallocate(o, ResizedTo(o, Len(items)), items)
    BY <1>2 DEF assign
  <2>2. ResizedTo(o, Len(items)) \in Nat \ {0} /\ Len(items) <= ResizedTo(o, Len(items))
    BY <1>1, <1>2, BufferKnows DEF ResizedTo
  <2> QED
    BY <1>1, <2>1, <2>2, ReallocateKeeps
<1>3. CASE ~(obj[o].m_capacity < Len(items))
  <2>1. WriteInPlace(o, 0, items, Len(items))
    BY <1>3 DEF assign
  <2>2. Len(items) <= Len(Rooms(o)) /\ 0 + Len(items) <= Len(Rooms(o))
    BY <1>1, <1>3, BufferKnows DEF AssignNeeds
  <2>3. SubSeq(Written(Rooms(o), 0, items), 1, Len(items)) = items
    BY <1>1, <2>2, BufferKnows, WrittenFront
  <2>4. StorageOK' /\ NowHolds(o, SubSeq(Written(Rooms(o), 0, items), 1, Len(items)))
    BY <1>1, <2>1, <2>2, WriteKeeps
  <2> QED
    BY <2>3, <2>4
<1> QED
  BY <1>2, <1>3

LEMMA PushBackKeeps ==
  ASSUME Careless = {}, StorageOK, NEW o \in Objects, NEW v \in Items, push_back(o, v)
  PROVE  StorageOK' /\ NowHolds(o, Contents(o) \o <<v>>)
<1>1. o \in alive /\ obj[o].m_capacity > 0
  BY DEF push_back, Careful, PushBackNeeds
<1>2. Contents(o) \in Seq(Items) /\ Len(Contents(o)) = size(o)
  BY <1>1, ContentsOfOwner DEF size
<1>3. <<v>> \in Seq(Items) /\ Len(<<v>>) = 1
  OBVIOUS
<1>4. CASE full(o)
  <2> DEFINE s == ResizedTo(o, obj[o].m_capacity * 2)
             all == Contents(o) \o <<v>>
  <2>1. Reallocate(o, s, all)
    BY <1>4 DEF push_back
  <2>2. all \in Seq(Items) /\ Len(all) = size(o) + 1
    BY <1>2, <1>3, ConcatProperties
  <2>3. s \in Nat \ {0} /\ Len(all) <= s
    BY <1>1, <2>2, BufferKnows DEF ResizedTo
  <2> HIDE DEF s, all
  <2>4. StorageOK' /\ NowHolds(o, all)
    BY <1>1, <2>1, <2>2, <2>3, ReallocateKeeps
  <2> QED
    BY <2>4 DEF all
<1>5. CASE ~full(o)
  <2>1. WriteInPlace(o, size(o), <<v>>, size(o) + 1)
    BY <1>5 DEF push_back
  <2>2. size(o) \in Nat /\ size(o) + 1 \in Nat /\ size(o) + 1 <= Len(Rooms(o))
    BY <1>1, <1>5, BufferKnows DEF full, size
  <2> DEFINE one == <<v>>
  <2>3. one \in Seq(Items) /\ Len(one) = 1 /\ WriteInPlace(o, size(o), one, size(o) + 1)
    BY <1>3, <2>1
  <2> HIDE DEF one
  <2>4. SubSeq(Written(Rooms(o), size(o), one), 1, size(o) + 1) = Contents(o) \o one
    <3>1. Rooms(o) \in Seq(Items) /\ size(o) + Len(one) = size(o) + 1
      BY <1>1, <2>3, BufferKnows
    <3>2. SubSeq(Written(Rooms(o), size(o), one), 1, size(o) + Len(one))
             = SubSeq(Rooms(o), 1, size(o)) \o one
      BY <2>2, <2>3, <3>1, WrittenBehind
    <3> QED
      BY <3>1, <3>2 DEF Contents, size
  <2>5. StorageOK' /\ NowHolds(o, SubSeq(Written(Rooms(o), size(o), one), 1, size(o) + 1))
    BY <1>1, <2>2, <2>3, WriteKeeps
  <2> QED
    BY <2>4, <2>5 DEF one
<1> QED
  BY <1>4, <1>5

LEMMA PushBackOwnKeeps ==
  ASSUME Careless = {}, StorageOK, NEW o \in Objects, NEW i \in Nat, PushBackOwn(o, i)
  PROVE  StorageOK' /\ \E v \in Items : NowHolds(o, Contents(o) \o <<v>>)
<1>1. o \in alive /\ i < size(o) /\ push_back(o, Rooms(o)[i + 1])
  BY DEF PushBackOwn, Careful
<1>2. i + 1 \in 1..Len(Rooms(o)) /\ Rooms(o) \in Seq(Items)
  BY <1>1, BufferKnows
<1>3. Rooms(o)[i + 1] \in Items
  BY <1>2, ElementOfSeq
<1> QED
  BY <1>1, <1>3, PushBackKeeps

LEMMA CopyFromKeeps ==
  ASSUME Careless = {}, StorageOK,
         NEW o \in Objects, NEW items \in Seq(Items), copy_from(o, items)
  PROVE  StorageOK' /\ Contents(o) = <<>> /\ NowHolds(o, items)
<1>1. /\ o \in alive /\ Len(items) \in Nat
      /\ size(o) = 0 /\ ~overflow(o, Len(items))
      /\ WriteInPlace(o, 0, items, size(o) + Len(items))
  BY LenProperties DEF copy_from, Careful, CopyFrom, size
<1>2. /\ size(o) + Len(items) \in Nat
      /\ size(o) + Len(items) <= Len(Rooms(o))
      /\ 0 + Len(items) <= Len(Rooms(o))
      /\ size(o) + Len(items) = Len(items)
  BY <1>1, BufferKnows DEF overflow, size
<1>3. SubSeq(Written(Rooms(o), 0, items), 1, Len(items)) = items
  BY <1>1, <1>2, BufferKnows, WrittenFront
<1>4. Contents(o) = <<>>
  BY <1>1, ContentsOfOwner, EmptySeq DEF size
<1>5. StorageOK' /\ NowHolds(o, SubSeq(Written(Rooms(o), 0, items), 1, Len(items)))
  BY <1>1, <1>2, WriteKeeps
<1> QED
  BY <1>3, <1>4, <1>5

\* clear and update_tail write nothing and move the tail.
LEMMA TailKeeps ==
  ASSUME StorageOK, NEW o \in alive, NEW n \in Nat, n <= Len(Rooms(o)),
         obj' = [obj EXCEPT ![o].m_tail = n], UNCHANGED <<alive, room, fault>>
  PROVE  StorageOK' /\ NowHolds(o, SubSeq(Rooms(o), 1, n))
<1>1. <<>> \in Seq(Items) /\ Len(<<>>) = 0
  BY EmptySeq
<1>2. 0 + Len(<<>>) <= Len(Rooms(o))
  BY <1>1, BufferKnows
<1>3. WriteInPlace(o, 0, <<>>, n)
  BY <1>1, <1>2, BufferKnows DEF WriteInPlace
<1>4. Written(Rooms(o), 0, <<>>) = Rooms(o)
  BY BufferKnows, WrittenNothing
<1>5. StorageOK' /\ NowHolds(o, SubSeq(Written(Rooms(o), 0, <<>>), 1, n))
  BY <1>1, <1>2, <1>3, WriteKeeps
<1> QED
  BY <1>4, <1>5

LEMMA SetItemKeeps ==
  ASSUME Careless = {}, StorageOK,
         NEW o \in Objects, NEW i \in Nat, NEW v \in Items, SetItem(o, i, v)
  PROVE  /\ StorageOK'
         /\ \/ UNCHANGED storageVars /\ out' = THROW
            \/ /\ i < size(o) /\ out' = OK
               /\ NowHolds(o, [Contents(o) EXCEPT ![i + 1] = v])
<1>1. o \in alive /\ (i < size(o) \/ i > obj[o].m_capacity)
  BY DEF SetItem, Careful
<1>2. CASE obj[o].m_capacity < i
  BY <1>2, SameStorage DEF SetItem, KeepStorage, Returns
<1>3. CASE ~(obj[o].m_capacity < i)
  <2>1. WriteInPlace(o, i, <<v>>, size(o)) /\ out' = OK
    BY <1>3 DEF SetItem, Returns
  <2>2. size(o) \in Nat /\ size(o) <= Len(Rooms(o)) /\ i + 1 <= Len(Rooms(o))
    BY <1>1, <1>3, BufferKnows
  <2>3. <<v>> \in Seq(Items) /\ Len(<<v>>) = 1
    OBVIOUS
  <2>4. StorageOK' /\ NowHolds(o, SubSeq(Written(Rooms(o), i, <<v>>), 1, size(o)))
    BY <1>1, <2>1, <2>2, <2>3, WriteKeeps
  <2>5. i < size(o) /\ i \in 0..size(o) - 1 /\ size(o) \in 0..Len(Rooms(o))
    BY <1>1, <1>3, BufferKnows
  <2>6. SubSeq(Written(Rooms(o), i, <<v>>), 1, size(o)) = [Contents(o) EXCEPT ![i + 1] = v]
    BY <1>1, <2>5, BufferKnows, WrittenOne DEF Contents, size
  <2> QED
    BY <2>1, <2>4, <2>5, <2>6
<1> QED
  BY <1>2, <1>3

LEMMA AtKeeps ==
  ASSUME Careless = {}, StorageOK, NEW o \in Objects, NEW i \in Nat, at(o, i)
  PROVE  /\ UNCHANGED storageVars /\ out' \in Items \cup Codes
         /\ out' = THROW \/ \E j \in DOMAIN Contents(o) : out' = Contents(o)[j]
<1>1. o \in alive /\ (i < size(o) \/ i > obj[o].m_capacity)
  BY DEF at, Careful
<1>2. CASE obj[o].m_capacity < i
  BY <1>2 DEF at, KeepStorage, Returns, Codes
<1>3. CASE ~(obj[o].m_capacity < i)
  <2>1. /\ i + 1 \in 1..Len(Rooms(o)) /\ ~(i >= Len(Rooms(o)))
        /\ Rooms(o) \in Seq(Items)
    BY <1>1, <1>3, BufferKnows
  <2>2. Rooms(o)[i + 1] \in Items
    BY <2>1, ElementOfSeq
  <2>3. i + 1 \in 1..size(o) /\ size(o) \in 0..Len(Rooms(o))
    BY <1>1, <1>3, BufferKnows
  <2>4. i + 1 \in DOMAIN Contents(o) /\ Contents(o)[i + 1] = Rooms(o)[i + 1]
    BY <1>1, <2>1, <2>3, ContentsOfOwner, LenProperties, Front DEF Contents, size
  <2> QED
    BY <1>3, <2>1, <2>2, <2>4 DEF at, KeepStorage, Returns
<1> QED
  BY <1>2, <1>3

\* d is made and holds the items of o behind the first f, up to the l-th.
PartIsMade(d, o, f, l) ==
    /\ d \notin alive /\ alive' = alive \cup {d}
    /\ l <= size(o)
    /\ SetRead(d, 0)
    /\ NowHolds(d, SubSeq(Contents(o), f + 1, l))

\* The part of o that NewPart copies lies within its contents.
LEMMA NewPartKeeps ==
  ASSUME StorageOK, NEW d \in Objects, NEW o \in alive,
         NEW f \in Nat, NEW n \in Nat, f + n <= size(o), NewPart(d, o, f, n)
  PROVE  StorageOK' /\ PartIsMade(d, o, f, f + n)
<1>1. ~(f + n > Len(Rooms(o))) /\ obj[o].m_capacity \in Nat /\ n <= obj[o].m_capacity
  BY BufferKnows
<1> DEFINE part == SubSeq(Rooms(o), f + 1, f + n)
<1>2. part \in Seq(Items) /\ Len(part) = n
  <2>1. \A i \in f + 1..f + n : Rooms(o)[i] \in Items
    BY <1>1, BufferKnows, ElementOfSeq
  <2> QED
    BY <2>1, SubSeqProperties
<1>3. Construct(d, obj[o].m_capacity, part) /\ SetRead(d, 0)
  BY <1>1 DEF NewPart
<1>4. part = SubSeq(Contents(o), f + 1, f + n)
  <2>1. size(o) \in 0..Len(Rooms(o)) /\ f + n \in Nat
    BY BufferKnows
  <2> QED
    BY <2>1, BufferKnows, PartOfFront DEF Contents, size
<1> HIDE DEF part
<1>5. StorageOK' /\ NowHolds(d, part)
  BY <1>1, <1>2, <1>3, ConstructKeeps
<1>6. d \notin alive /\ alive' = alive \cup {d}
  BY <1>1, <1>2, <1>3 DEF Construct
<1> QED
  BY <1>3, <1>4, <1>5, <1>6 DEF PartIsMade

\* Where the part ends that extract or substr is asked for.
PartEnd(o, f, n) == IF f + n <= size(o) THEN f + n ELSE size(o)

LEMMA ExtractKeeps ==
  ASSUME Careless = {}, StorageOK, NEW d \in Objects, NEW o \in Objects,
         NEW f \in Sizes, NEW n \in Sizes, extract(d, o, f, n)
  PROVE  /\ StorageOK'
         /\ \/ /\ UNCHANGED <<storageVars, m_read>> /\ out' = OUT_OF_RANGE
               /\ ~(f + n <= size(o))
            \/ /\ PartIsMade(d, o, f, PartEnd(o, f, n)) /\ out' = OK /\ f <= size(o)
               /\ f + n <= size(o)
<1>1. o \in alive /\ f \in Nat /\ n \in Nat /\ f + n < SizeMod
  BY DEF extract, Careful, ExtractNeeds, Sizes
<1>2. EndOf(f, n) = f + n
  BY <1>1, SmallModulo, BufferAssumption DEF EndOf
<1>3. CASE size(o) < EndOf(f, n)
  <2>1. ~(f + n <= size(o))
    BY <1>1, <1>2, <1>3, BufferKnows
  <2> QED
    BY <1>3, <2>1, SameStorage DEF extract, KeepStorage, KeepRead, Returns
<1>4. CASE ~(size(o) < EndOf(f, n))
  <2>1. NewPart(d, o, f, n) /\ out' = OK
    BY <1>4 DEF extract, Returns
  <2>2. f + n <= size(o) /\ f <= size(o)
    BY <1>1, <1>2, <1>4, BufferKnows
  <2> QED
    BY <1>1, <2>1, <2>2, NewPartKeeps DEF PartEnd
<1> QED
  BY <1>3, <1>4

LEMMA SubstrKeeps ==
  ASSUME Careless = {}, StorageOK, NEW d \in Objects, NEW o \in Objects,
         NEW f \in Sizes, NEW n \in Sizes, substr(d, o, f, n)
  PROVE  StorageOK' /\ PartIsMade(d, o, f, PartEnd(o, f, n)) /\ out' = OK
<1>1. /\ o \in alive /\ f \in Nat /\ n \in Nat
      /\ f <= size(o) /\ f + n < SizeMod /\ n < SizeMod
  BY BufferAssumption DEF substr, Careful, SubstrNeeds, ExtractNeeds, Sizes
<1>2. EndOf(f, n) = f + n /\ size(o) \in Nat
  <2>1. f + n \in Nat /\ SizeMod \in Nat
    BY <1>1, BufferAssumption
  <2>2. (f + n) % SizeMod = f + n
    BY <1>1, <2>1, SmallModulo
  <2> QED
    BY <1>1, <2>2, BufferKnows DEF EndOf
<1>3. CASE size(o) < EndOf(f, n)
  <2>1. size(o) - f \in Nat /\ size(o) - f < SizeMod
    BY <1>1, <1>2, <1>3, BufferAssumption
  <2>2. (size(o) - f) % SizeMod = size(o) - f
    BY <2>1, SmallModulo, BufferAssumption
  <2>3. NewPart(d, o, f, size(o) - f)
    BY <1>3, <2>2 DEF substr
  <2>4. f + (size(o) - f) = size(o) /\ PartEnd(o, f, n) = size(o)
    BY <1>1, <1>2, <1>3 DEF PartEnd
  <2>5. f + (size(o) - f) <= size(o)
    BY <1>2, <2>4
  <2>6. StorageOK' /\ PartIsMade(d, o, f, f + (size(o) - f))
    BY <1>1, <2>1, <2>3, <2>5, NewPartKeeps
  <2> QED
    BY <2>4, <2>6 DEF substr, Returns
<1>4. CASE ~(size(o) < EndOf(f, n))
  <2>1. NewPart(d, o, f, n) /\ f + n <= size(o)
    BY <1>1, <1>2, <1>4 DEF substr
  <2> QED
    BY <1>1, <2>1, NewPartKeeps DEF PartEnd, substr, Returns
<1> QED
  BY <1>3, <1>4

-----------------------------------------------------------------------------
(* A step of a careful caller leaves every block with its one owner.       *)
LEMMA LifetimeKeeps ==
  ASSUME Careless = {}, StorageOK, NEW o \in Objects, Lifetime(o)
  PROVE  StorageOK'
<1> USE StorageAssumption, BufferAssumption
<1>1. ASSUME NEW s \in 0..MaxRooms, New(o, s) PROVE StorageOK'
  <2>1. s \in Nat /\ <<>> \in Seq(Items) /\ Len(<<>>) <= s
    BY EmptySeq
  <2> QED
    BY <1>1, <2>1, ConstructKeeps DEF New
<1>2. ASSUME NEW s \in 0..MaxRooms, NEW v \in Items, NewFilled(o, s, v) PROVE StorageOK'
  <2> DEFINE items == [i \in 1..s |-> v]
  <2>1. s \in Nat /\ items \in Seq(Items) /\ Len(items) <= s
    BY FilledIsSeq
  <2>2. Construct(o, s, items)
    BY <1>2 DEF NewFilled
  <2> HIDE DEF items
  <2> QED
    BY <2>1, <2>2, ConstructKeeps
<1>3. ASSUME NEW items \in Args, NewList(o, items) PROVE StorageOK'
  <2>1. items \in Seq(Items) /\ Len(items) \in Nat /\ Len(items) <= Len(items)
    BY LenProperties
  <2> QED
    BY <1>3, <2>1, ConstructKeeps DEF NewList
<1>4. ASSUME NEW p \in Objects, NewCopy(o, p) PROVE StorageOK'
  <2>1. p \in alive /\ Construct(o, obj[p].m_capacity, Contents(p))
    BY <1>4 DEF NewCopy, CopyConstruct
  <2>2. /\ Contents(p) \in Seq(Items)
        /\ obj[p].m_capacity \in Nat /\ Len(Contents(p)) <= obj[p].m_capacity
    BY <2>1, ContentsOfOwner, BufferKnows DEF size
  <2> QED
    BY <2>1, <2>2, ConstructKeeps
<1>5. ASSUME NEW p \in Objects, NewMoved(o, p) PROVE StorageOK'
  BY <1>5, MoveConstructKeeps DEF NewMoved
<1>6. ASSUME NEW p \in Objects, Copy(o, p) PROVE StorageOK'
  BY <1>6, CopyKeeps
<1>7. ASSUME NEW p \in Objects, Move(o, p) PROVE StorageOK'
  BY <1>7, MoveAssignKeeps DEF Move, Careful, MoveAssignNeeds
<1>8. ASSUME Delete(o) PROVE StorageOK'
  BY <1>8, DestroyKeeps DEF Delete
<1> QED
  BY <1>1, <1>2, <1>3, <1>4, <1>5, <1>6, <1>7, <1>8 DEF Lifetime

LEMMA WritesKeep ==
  ASSUME Careless = {}, StorageOK, NEW o \in Objects, Write(o)
  PROVE  StorageOK'
<1> USE BufferAssumption
<1>1. CASE clear(o)
  <2>1. o \in alive /\ 0 <= Len(Rooms(o))
    BY <1>1, BufferKnows DEF clear
  <2> QED
    BY <1>1, <2>1, TailKeeps DEF clear
<1>2. ASSUME NEW items \in Args, append(o, items) PROVE StorageOK'
  BY <1>2, AppendKeeps
<1>3. ASSUME NEW items \in Args, assign(o, items) PROVE StorageOK'
  BY <1>3, AssignKeeps
<1>4. ASSUME NEW items \in Args, copy_from(o, items) PROVE StorageOK'
  BY <1>4, CopyFromKeeps
<1>5. ASSUME NEW p \in Objects, AppendBuffer(o, p) PROVE StorageOK'
  BY <1>5, AppendKeeps, ContentsOfOwner DEF AppendBuffer
<1>6. ASSUME NEW p \in Objects, AssignBuffer(o, p) PROVE StorageOK'
  <2>1. PICK items \in Seq(Items) : assign(o, items)
    BY <1>6, ContentsOfOwner, EmptySeq DEF AssignBuffer
  <2> QED
    BY <2>1, AssignKeeps
<1>7. ASSUME NEW v \in Items, push_back(o, v) PROVE StorageOK'
  BY <1>7, PushBackKeeps
<1>8. ASSUME NEW v \in Items, NEW i \in Sizes, SetItem(o, i, v) PROVE StorageOK'
  <2>1. i \in Nat
    BY DEF Sizes
  <2> QED
    BY <1>8, <2>1, SetItemKeeps
<1>9. ASSUME NEW i \in Sizes, PushBackOwn(o, i) PROVE StorageOK'
  BY <1>9, PushBackOwnKeeps DEF Sizes
<1>10. ASSUME NEW n \in Sizes, update_tail(o, n) PROVE StorageOK'
  <2>1. o \in alive /\ ~overflow(o, n) /\ n \in Nat
    BY <1>10 DEF update_tail, Careful, Sizes
  <2>2. obj[o].m_tail + n \in Nat /\ obj[o].m_tail + n <= Len(Rooms(o))
    BY <2>1, BufferKnows DEF overflow, size
  <2>3. obj' = [obj EXCEPT ![o].m_tail = obj[o].m_tail + n] /\ UNCHANGED <<alive, room, fault>>
    BY <1>10 DEF update_tail
  <2> QED
    BY <2>1, <2>2, <2>3, TailKeeps
<1> QED
  BY <1>1, <1>2, <1>3, <1>4, <1>5, <1>6, <1>7, <1>8, <1>9, <1>10 DEF Write

LEMMA ReadsKeep ==
  ASSUME Careless = {}, StorageOK, NEW o \in Objects, Read(o)
  PROVE  StorageOK'
<1>1. ASSUME NEW i \in Sizes, at(o, i) PROVE StorageOK'
  BY <1>1, AtKeeps, SameStorage, BufferAssumption DEF Sizes
<1>2. ASSUME NEW i \in Sizes, position(o, i) PROVE StorageOK'
  BY <1>2, SameStorage DEF position, KeepStorage
<1>3. CASE read(o)
  BY <1>3, SameStorage DEF read, KeepStorage
<1>4. CASE put_back(o)
  BY <1>4, SameStorage DEF put_back, KeepStorage
<1>5. ASSUME NEW d \in Objects \ alive, NEW f \in Sizes, NEW n \in Sizes,
             extract(d, o, f, n) \/ substr(d, o, f, n)
      PROVE  StorageOK'
  BY <1>5, ExtractKeeps, SubstrKeeps
<1> QED
  BY <1>1, <1>2, <1>3, <1>4, <1>5 DEF Read

LEMMA StorageStep ==
  ASSUME Careless = {}, StorageOK, [Next]_vars
  PROVE  StorageOK'
<1>1. CASE UNCHANGED vars
  BY <1>1, SameStorage DEF vars, storageVars
<1>2. CASE Next
  BY <1>2, LifetimeKeeps, WritesKeep, ReadsKeep DEF Next
<1> QED
  BY <1>1, <1>2

(* The read position and the answer of a call have their types.            *)
LEMMA ReadingStep ==
  ASSUME Careless = {}, BufferOK, [Next]_vars
  PROVE  m_read' \in [Objects -> Nat] /\ out' \in Items \cup Codes
<1> DEFINE Typed == m_read' \in [Objects -> Nat] /\ out' \in Items \cup Codes
<1> SUFFICES Typed
  OBVIOUS
<1>0. m_read \in [Objects -> Nat] /\ out \in Items \cup Codes /\ StorageOK
  BY DEF BufferOK
<1>1. CASE UNCHANGED vars
  BY <1>0, <1>1 DEF vars
<1>2. ASSUME NEW o \in Objects, Lifetime(o) PROVE Typed
  <2>1. ASSUME NEW n \in Nat, SetRead(o, n), Returns(OK) PROVE Typed
    BY <1>0, <2>1 DEF SetRead, Returns, Codes
  <2>2. \A p \in Objects : m_read[p] \in Nat
    BY <1>0
  <2> HIDE DEF Typed
  <2>3. ASSUME NEW s, New(o, s) PROVE Typed
    BY <2>1, <2>3 DEF New
  <2>4. ASSUME NEW s, NEW v, NewFilled(o, s, v) PROVE Typed
    BY <2>1, <2>4 DEF NewFilled
  <2>5. ASSUME NEW items, NewList(o, items) PROVE Typed
    BY <2>1, <2>5 DEF NewList
  <2>6. ASSUME NEW p \in Objects, NewCopy(o, p) \/ NewMoved(o, p) PROVE Typed
    BY <2>1, <2>2, <2>6 DEF NewCopy, NewMoved
  <2>7. ASSUME NEW p \in Objects, Copy(o, p) \/ Move(o, p) PROVE Typed
    BY <2>1, <2>2, <2>7 DEF Copy, Move
  <2>8. CASE Delete(o)
    BY <2>1, <2>8 DEF Delete
  <2> QED
    BY <1>2, <2>3, <2>4, <2>5, <2>6, <2>7, <2>8 DEF Lifetime
<1>3. ASSUME NEW o \in Objects, Write(o) PROVE Typed
  <2>1. ASSUME NEW items, append(o, items) PROVE Typed
    BY <1>0, <2>1 DEF append, KeepRead, Returns, Codes
  <2>2. ASSUME NEW items, assign(o, items) PROVE Typed
    BY <1>0, <2>2 DEF assign, SetRead, Returns, Codes
  <2>3. ASSUME NEW v, push_back(o, v) PROVE Typed
    BY <1>0, <2>3 DEF push_back, KeepRead, Returns, Codes
  <2>4. ASSUME NEW i \in Sizes, PushBackOwn(o, i) PROVE Typed
    BY <1>0, <2>3, <2>4 DEF PushBackOwn, KeepRead, Returns, Codes
  <2>5. ASSUME NEW i \in Sizes, NEW v \in Items, SetItem(o, i, v) PROVE Typed
    BY <1>0, <2>5 DEF SetItem, KeepRead, Returns, Codes
  <2>6. CASE clear(o)
    BY <1>0, <2>6 DEF clear, SetRead, Returns, Codes
  <2>7. ASSUME NEW n \in Sizes, update_tail(o, n) PROVE Typed
    BY <1>0, <2>7 DEF update_tail, KeepRead, Returns, Codes
  <2>8. ASSUME NEW items, copy_from(o, items) PROVE Typed
    BY <1>0, <2>8 DEF copy_from, KeepRead, Returns, Codes
  <2> HIDE DEF Typed
  <2> QED
    BY <1>3, <2>1, <2>2, <2>3, <2>4, <2>5, <2>6, <2>7, <2>8 DEF Write, AppendBuffer, AssignBuffer
<1>4. ASSUME NEW o \in Objects, Read(o) PROVE Typed
  <2>1. ASSUME NEW i \in Sizes, at(o, i) PROVE Typed
    <3>1. m_read' = m_read
      BY <2>1 DEF at, KeepRead
    <3> QED
      BY <1>0, <2>1, <3>1, AtKeeps, BufferAssumption DEF Sizes
  <2>2. ASSUME NEW i \in Sizes, position(o, i) PROVE Typed
    BY <1>0, <2>2, BufferAssumption DEF position, KeepRead, SetRead, Returns, Codes, Sizes
  <2>3. CASE read(o)
    <3>1. m_read' \in [Objects -> Nat]
      BY <1>0, <2>3 DEF read, SetRead
    <3>2. o \in alive /\ m_read[o] \in Nat
      BY <1>0, <2>3 DEF read
    <3>3. CASE m_read[o] + 1 > size(o)
      BY <2>3, <3>1, <3>3 DEF read, Returns, Codes
    <3>4. CASE ~(m_read[o] + 1 > size(o))
      <4>1. m_read[o] + 1 \in 1..Len(Rooms(o)) /\ Rooms(o) \in Seq(Items)
        BY <1>0, <3>2, <3>4, BufferKnows
      <4>2. Rooms(o)[m_read[o] + 1] \in Items
        BY <4>1, ElementOfSeq
      <4> QED
        BY <2>3, <3>1, <3>4, <4>2 DEF read, Returns
    <3> QED
      BY <3>3, <3>4
  <2>4. CASE put_back(o)
    BY <1>0, <2>4 DEF put_back, KeepRead, SetRead, Returns, Codes
  <2>5. ASSUME NEW d, NEW f, NEW n, extract(d, o, f, n) \/ substr(d, o, f, n) PROVE Typed
    BY <1>0, <2>5 DEF extract, substr, NewPart, KeepRead, SetRead, Returns, Codes
  <2> HIDE DEF Typed
  <2> QED
    BY <1>4, <2>1, <2>2, <2>3, <2>4, <2>5 DEF Read
<1> HIDE DEF Typed
<1> QED
  BY <1>1, <1>2, <1>3, <1>4 DEF Next

LEMMA InitBuffer == Init => BufferOK
<1> SUFFICES ASSUME Init PROVE BufferOK
  OBVIOUS
<1> USE StorageAssumption DEF Init, StorageInit
<1>1. Raw \in Members /\ Raw.m_head = Null
  BY DEF Raw, Members
<1>2. StorageType /\ NoFault
  BY <1>1, EmptySeq DEF StorageType, NoFault
<1>3. Used = {}
  BY DEF Used
<1>4. Owned
  BY <1>1, <1>3 DEF Owned
<1> QED
  BY <1>2, <1>4 DEF BufferOK, StorageOK, Codes

-----------------------------------------------------------------------------
(* A buffer is a sequence of items with a cursor: the steps of ItemBuffer. *)

LEMMA InitItems == Init => IB!Init
<1> SUFFICES ASSUME Init PROVE IB!Init
  OBVIOUS
<1>1. \A o \in Objects : Contents(o) = <<>>
  <2> SUFFICES ASSUME NEW o \in Objects PROVE Contents(o) = <<>>
    OBVIOUS
  <2>1. obj[o].m_head = Null /\ obj[o].m_tail = 0
    BY DEF Init, StorageInit, Raw
  <2> QED
    BY <2>1, SubSeqEmpty DEF Contents, Rooms
<1> QED
  BY <1>1 DEF Init, StorageInit, IB!Init, contentsBar

LEMMA Becoming ==
  ASSUME NEW o \in Objects, NEW items, NEW n, NowHolds(o, items), SetRead(o, n)
  PROVE  IB!Becomes(o, items, n)
BY DEF NowHolds, SetRead, IB!Becomes

LEMMA BecomingUnread ==
  ASSUME BufferOK, NEW o \in Objects, NEW items, NowHolds(o, items), KeepRead
  PROVE  IB!Becomes(o, items, m_read[o])
<1>1. m_read' = [m_read EXCEPT ![o] = m_read[o]]
  BY DEF BufferOK, KeepRead
<1> QED
  BY <1>1 DEF NowHolds, IB!Becomes

LEMMA NowGiven ==
  ASSUME NEW o \in Objects, NEW p \in alive, o # p, alive' = alive \cup {o},
         NowGivenBy(o, p), SetRead(o, m_read[p]), Returns(OK)
  PROVE  IB!Next
<1>1. IB!Move(o, p)
  BY DEF NowGivenBy, SetRead, Returns, IB!Move, IB!Returns
<1> QED
  BY <1>1 DEF IB!Next

LEMMA LifetimeItems ==
  ASSUME Careless = {}, BufferOK, NEW o \in Objects, Lifetime(o)
  PROVE  IB!Next
<1> USE StorageAssumption, BufferAssumption
<1>0. StorageOK /\ alive \subseteq Objects
  BY DEF BufferOK, StorageOK, StorageType
<1>1. ASSUME NEW s \in Nat, NEW items \in Seq(Items), Len(items) <= s, Construct(o, s, items)
      PROVE  o \in Objects \ alive /\ alive' = alive \cup {o} /\ NowHolds(o, items)
  <2>1. NowHolds(o, items)
    BY <1>0, <1>1, ConstructKeeps
  <2>2. Len(items) \in Nat
    BY LenProperties
  <2> QED
    BY <1>1, <2>1, <2>2 DEF Construct
<1>2. ASSUME NEW s \in 0..MaxRooms, NEW v \in Items, NEW n \in 0..s,
             Construct(o, s, [i \in 1..n |-> v]), SetRead(o, 0), Returns(OK)
      PROVE  IB!Next
  <2> DEFINE items == [i \in 1..n |-> v]
  <2>1. s \in Nat /\ n \in 0..MaxRooms /\ items \in Seq(Items) /\ Len(items) <= s
    BY FilledIsSeq
  <2>2. Construct(o, s, items)
    BY <1>2
  <2> HIDE DEF items
  <2>3. o \in Objects \ alive /\ alive' = alive \cup {o} /\ IB!Becomes(o, items, 0)
    BY <1>1, <1>2, <2>1, <2>2, Becoming
  <2>4. IB!New(o)
    BY <1>2, <2>1, <2>3 DEF items, IB!New, IB!Returns, Returns
  <2> QED
    BY <2>3, <2>4 DEF IB!Next
<1>3. ASSUME NEW s \in 0..MaxRooms, New(o, s) PROVE IB!Next
  <2> DEFINE none == [i \in 1..0 |-> Blank]
  <2>1. none \in Seq(Items) /\ Len(none) = 0
    BY FilledIsSeq
  <2>2. none = <<>>
    BY <2>1, EmptySeq
  <2>3. 0 \in 0..s
    OBVIOUS
  <2>4. Construct(o, s, none) /\ SetRead(o, 0) /\ Returns(OK)
    BY <1>3, <2>2 DEF New
  <2> QED
    BY <1>2, <2>3, <2>4
<1>4. ASSUME NEW s \in 0..MaxRooms, NEW v \in Items, NewFilled(o, s, v) PROVE IB!Next
  BY <1>2, <1>4 DEF NewFilled
<1>5. ASSUME NEW items \in Args, NewList(o, items) PROVE IB!Next
  <2>1. items \in Seq(Items) /\ Len(items) \in Nat /\ Len(items) <= Len(items)
    BY LenProperties
  <2>2. Construct(o, Len(items), items) /\ SetRead(o, 0) /\ Returns(OK)
    BY <1>5 DEF NewList
  <2>3. o \in Objects \ alive /\ alive' = alive \cup {o} /\ IB!Becomes(o, items, 0)
    BY <1>1, <2>1, <2>2, Becoming
  <2>4. IB!New(o)
    BY <2>2, <2>3 DEF IB!New, IB!Returns, Returns
  <2> QED
    BY <2>3, <2>4 DEF IB!Next
<1>6. ASSUME NEW p \in Objects, NewCopy(o, p) PROVE IB!Next
  <2>1. /\ p \in alive /\ Construct(o, obj[p].m_capacity, Contents(p))
        /\ SetRead(o, m_read[p]) /\ Returns(OK)
    BY <1>6 DEF NewCopy, CopyConstruct
  <2>2. /\ Contents(p) \in Seq(Items)
        /\ obj[p].m_capacity \in Nat /\ Len(Contents(p)) <= obj[p].m_capacity
    BY <1>0, <2>1, ContentsOfOwner, BufferKnows DEF size
  <2>3. /\ o \in Objects \ alive /\ alive' = alive \cup {o}
        /\ IB!Becomes(o, Contents(p), m_read[p])
    BY <1>1, <2>1, <2>2, Becoming
  <2>4. contentsBar[p] = Contents(p)
    BY DEF contentsBar
  <2>5. IB!New(o)
    BY <2>1, <2>3, <2>4 DEF IB!New, IB!Returns, Returns
  <2> QED
    BY <2>3, <2>5 DEF IB!Next
<1>7. ASSUME NEW p \in Objects, NewMoved(o, p) PROVE IB!Next
  <2>1. /\ MoveConstruct(o, p) /\ p \in alive /\ o # p /\ alive' = alive \cup {o}
        /\ SetRead(o, m_read[p]) /\ Returns(OK)
    BY <1>7 DEF NewMoved, MoveConstruct
  <2>2. NowGivenBy(o, p)
    BY <1>0, <2>1, MoveConstructKeeps
  <2> QED
    BY <2>1, <2>2, NowGiven
<1>8. ASSUME NEW p \in Objects, Copy(o, p) PROVE IB!Next
  <2>1. /\ o \in alive /\ p \in alive /\ Contents(o) = <<>> /\ NowHolds(o, Contents(p))
    BY <1>0, <1>8, CopyKeeps
  <2>2. SetRead(o, m_read[p]) /\ Returns(OK) /\ alive' = alive
    <3>1. CopyAssign(o, p) /\ o # p /\ obj[o].m_capacity >= obj[p].m_capacity
      BY <1>8 DEF Copy, Careful, CopyAssignNeeds
    <3>2. alive' = alive
      BY <3>1 DEF CopyAssign, WriteInPlace, Crash
    <3> QED
      BY <1>8, <3>2 DEF Copy
  <2>3. IB!Becomes(o, contentsBar[p], m_read[p]) /\ contentsBar[o] = <<>>
    BY <2>1, <2>2, Becoming DEF contentsBar
  <2>4. IB!Write(o)
    BY <2>1, <2>2, <2>3 DEF IB!Write, IB!Returns, Returns
  <2> QED
    BY <2>1, <2>4 DEF IB!Next
<1>9. ASSUME NEW p \in Objects, Move(o, p) PROVE IB!Next
  <2>1. /\ o # p /\ MoveAssign(o, p) /\ obj[o].m_init /\ obj[p].m_init
        /\ obj[o].m_capacity = obj[p].m_capacity
        /\ SetRead(o, m_read[p]) /\ Returns(OK)
    BY <1>9 DEF Move, Careful, MoveAssignNeeds
  <2>2. NowGivenBy(o, p)
    BY <1>0, <2>1, MoveAssignKeeps
  <2>3. o \in alive /\ p \in alive /\ alive' = alive
    BY <2>1 DEF MoveAssign, Crash, storageVars
  <2>4. alive' = alive \cup {o}
    BY <2>3
  <2> QED
    BY <2>1, <2>2, <2>3, <2>4, NowGiven
<1>10. CASE Delete(o)
  <2>1. Destroy(o) /\ SetRead(o, 0) /\ Returns(OK) /\ o \in alive
    BY <1>10 DEF Delete, Destroy
  <2>2. alive' = alive \ {o}
    BY <1>0, <2>1, OwnerKnows DEF Destroy
  <2>3. IB!Becomes(o, <<>>, 0)
    BY <1>0, <2>1, DestroyKeeps, Becoming
  <2>4. IB!Delete(o)
    BY <2>1, <2>2, <2>3 DEF IB!Delete, IB!Returns, Returns
  <2> QED
    BY <2>1, <2>4 DEF IB!Next
<1> QED
  BY <1>3, <1>4, <1>5, <1>6, <1>7, <1>8, <1>9, <1>10 DEF Lifetime

\* Behind what o held come items that a caller can add.
LEMMA Added ==
  ASSUME BufferOK, NEW o \in alive, NEW items,
         items \in Args \cup {<<v>> : v \in Items} \cup {contentsBar[p] : p \in alive},
         NowHolds(o, Contents(o) \o items), KeepRead, Returns(OK), alive' = alive
  PROVE  IB!Write(o)
<1>1. o \in Objects /\ contentsBar[o] = Contents(o)
  BY DEF BufferOK, StorageOK, StorageType, contentsBar
<1>2. IB!Becomes(o, contentsBar[o] \o items, m_read[o])
  BY <1>1, BecomingUnread
<1> QED
  BY <1>2 DEF IB!Write, IB!Returns, Returns

\* o holds other items now, and is read from the first.
LEMMA Replaced ==
  ASSUME BufferOK, NEW o \in alive, NEW items,
         items \in Args \cup {<<>>} \cup {contentsBar[p] : p \in alive},
         NowHolds(o, items), SetRead(o, 0), Returns(OK), alive' = alive
  PROVE  IB!Write(o)
<1>1. IB!Becomes(o, items, 0)
  BY Becoming DEF BufferOK, StorageOK, StorageType
<1> QED
  BY <1>1 DEF IB!Write, IB!Returns, Returns

\* The calls that write neither make nor end an object.
LEMMA WritesKeepAlive ==
  ASSUME NEW o \in Objects, Write(o)
  PROVE  o \in alive /\ alive' = alive
<1>1. ASSUME NEW items, append(o, items) \/ assign(o, items) \/ copy_from(o, items)
      PROVE  o \in alive /\ alive' = alive
  BY <1>1 DEF append, assign, copy_from, CopyFrom, WriteInPlace, Reallocate, Crash
<1>2. ASSUME NEW v, push_back(o, v) PROVE o \in alive /\ alive' = alive
  BY <1>2 DEF push_back, WriteInPlace, Reallocate, Crash
<1>3. ASSUME NEW i, PushBackOwn(o, i) PROVE o \in alive /\ alive' = alive
  BY <1>2, <1>3 DEF PushBackOwn, Crash
<1>4. ASSUME NEW i, NEW v, SetItem(o, i, v) PROVE o \in alive /\ alive' = alive
  BY <1>4 DEF SetItem, KeepStorage, storageVars, WriteInPlace, Crash
<1>5. ASSUME NEW n, clear(o) \/ update_tail(o, n) PROVE o \in alive /\ alive' = alive
  BY <1>5 DEF clear, update_tail
<1> QED
  BY <1>1, <1>2, <1>3, <1>4, <1>5 DEF Write, AppendBuffer, AssignBuffer

LEMMA WriteItems ==
  ASSUME Careless = {}, BufferOK, NEW o \in Objects, Write(o)
  PROVE  IB!Next
<1> USE BufferAssumption
<1>0. /\ StorageOK /\ o \in alive /\ alive' = alive
      /\ \A p \in alive : p \in Objects /\ contentsBar[p] = Contents(p)
  BY WritesKeepAlive DEF BufferOK, StorageOK, StorageType, contentsBar
<1>1. CASE clear(o)
  <2>1. 0 <= Len(Rooms(o)) /\ obj' = [obj EXCEPT ![o].m_tail = 0]
        /\ UNCHANGED <<alive, room, fault>>
    BY <1>0, <1>1, BufferKnows DEF clear
  <2>2. NowHolds(o, SubSeq(Rooms(o), 1, 0))
    BY <1>0, <2>1, TailKeeps
  <2>3. SubSeq(Rooms(o), 1, 0) = <<>>
    BY SubSeqEmpty
  <2>4. SetRead(o, 0) /\ Returns(OK)
    BY <1>1 DEF clear
  <2>5. IB!Write(o)
    BY <1>0, <2>2, <2>3, <2>4, Replaced
  <2> QED
    BY <1>0, <2>5 DEF IB!Next
<1>2. ASSUME NEW items \in Args, append(o, items) PROVE IB!Next
  <2>1. NowHolds(o, Contents(o) \o items) /\ KeepRead /\ Returns(OK)
    BY <1>0, <1>2, AppendKeeps DEF append
  <2>2. IB!Write(o)
    BY <1>0, <2>1, Added
  <2> QED
    BY <1>0, <2>2 DEF IB!Next
<1>3. ASSUME NEW items \in Args, assign(o, items) PROVE IB!Next
  <2>1. NowHolds(o, items) /\ SetRead(o, 0) /\ Returns(OK)
    BY <1>0, <1>3, AssignKeeps DEF assign
  <2>2. IB!Write(o)
    BY <1>0, <2>1, Replaced
  <2> QED
    BY <1>0, <2>2 DEF IB!Next
<1>4. ASSUME NEW items \in Args, copy_from(o, items) PROVE IB!Next
  <2>1. NowHolds(o, items) /\ Contents(o) = <<>> /\ KeepRead /\ Returns(OK)
    BY <1>0, <1>4, CopyFromKeeps DEF copy_from
  <2>2. Contents(o) \o items = items
    BY <2>1, ConcatEmptySeq
  <2>3. IB!Write(o)
    BY <1>0, <2>1, <2>2, Added
  <2> QED
    BY <1>0, <2>3 DEF IB!Next
<1>5. ASSUME NEW p \in Objects, AppendBuffer(o, p) PROVE IB!Next
  <2> DEFINE items == Contents(p)
  <2>1. p \in alive /\ append(o, items) /\ items \in Seq(Items) /\ items = contentsBar[p]
    BY <1>0, <1>5, ContentsOfOwner DEF AppendBuffer
  <2> HIDE DEF items
  <2>2. NowHolds(o, Contents(o) \o items) /\ KeepRead /\ Returns(OK)
    BY <1>0, <2>1, AppendKeeps DEF append
  <2>3. IB!Write(o)
    BY <1>0, <2>1, <2>2, Added
  <2> QED
    BY <1>0, <2>3 DEF IB!Next
<1>6. ASSUME NEW p \in Objects, AssignBuffer(o, p) PROVE IB!Next
  <2> DEFINE items == IF o = p THEN <<>> ELSE Contents(p)
  <2>1. p \in alive /\ assign(o, items)
    BY <1>6 DEF AssignBuffer
  <2>2. items \in Seq(Items) /\ items \in {<<>>} \cup {contentsBar[q] : q \in alive}
    BY <1>0, <2>1, ContentsOfOwner, EmptySeq
  <2> HIDE DEF items
  <2>3. NowHolds(o, items) /\ SetRead(o, 0) /\ Returns(OK)
    BY <1>0, <2>1, <2>2, AssignKeeps DEF assign
  <2>4. IB!Write(o)
    BY <1>0, <2>2, <2>3, Replaced
  <2> QED
    BY <1>0, <2>4 DEF IB!Next
<1>7. ASSUME NEW v \in Items, NowHolds(o, Contents(o) \o <<v>>), KeepRead, Returns(OK)
      PROVE  IB!Next
  <2>1. IB!Write(o)
    BY <1>0, <1>7, Added
  <2> QED
    BY <1>0, <2>1 DEF IB!Next
<1>8. ASSUME NEW v \in Items, push_back(o, v) PROVE IB!Next
  <2>1. NowHolds(o, Contents(o) \o <<v>>) /\ KeepRead /\ Returns(OK)
    BY <1>0, <1>8, PushBackKeeps DEF push_back
  <2> QED
    BY <1>7, <2>1
<1>9. ASSUME NEW v \in Items, NEW i \in Sizes, SetItem(o, i, v)
      PROVE  IB!Next
  <2>1. i \in Nat /\ KeepRead
    BY <1>9 DEF Sizes, SetItem
  <2>2. CASE UNCHANGED storageVars /\ out' = THROW
    <3>1. IB!Look(o)
      BY <1>0, <2>1, <2>2, SameStorage DEF KeepRead, IB!Look, IB!Returns
    <3> QED
      BY <1>0, <3>1 DEF IB!Next
  <2>3. CASE /\ i < size(o) /\ out' = OK
             /\ NowHolds(o, [Contents(o) EXCEPT ![i + 1] = v])
    <3>1. IB!Becomes(o, [contentsBar[o] EXCEPT ![i + 1] = v], m_read[o])
      BY <1>0, <2>1, <2>3, BecomingUnread
    <3>2. i + 1 \in DOMAIN contentsBar[o]
      <4>1. i + 1 \in 1..size(o)
        BY <1>0, <2>1, <2>3, BufferKnows
      <4> QED
        BY <1>0, <4>1, ContentsOfOwner, LenProperties DEF size
    <3>3. IB!Write(o)
      BY <1>0, <2>3, <3>1, <3>2 DEF IB!Write, IB!Returns
    <3> QED
      BY <1>0, <3>3 DEF IB!Next
  <2> QED
    BY <1>0, <1>9, <2>1, <2>2, <2>3, SetItemKeeps
<1>10. ASSUME NEW i \in Sizes, PushBackOwn(o, i) PROVE IB!Next
  <2>1. i \in Nat
    BY DEF Sizes
  <2>2. PICK v \in Items : NowHolds(o, Contents(o) \o <<v>>)
    BY <1>0, <1>10, <2>1, PushBackOwnKeeps
  <2>3. KeepRead /\ Returns(OK)
    BY <1>10 DEF PushBackOwn, push_back
  <2> QED
    BY <1>7, <2>2, <2>3
<1>11. ASSUME NEW n \in Sizes, update_tail(o, n) PROVE IB!Next
  <2>1. ~overflow(o, n) /\ obj' = [obj EXCEPT ![o].m_tail = obj[o].m_tail + n]
        /\ UNCHANGED <<alive, room, fault>> /\ KeepRead /\ Returns(OK)
    BY <1>11 DEF update_tail, Careful
  <2>2. /\ n \in Nat /\ size(o) \in Nat /\ size(o) + n \in Nat
        /\ Rooms(o) \in Seq(Items) /\ size(o) + n <= Len(Rooms(o))
    BY <1>0, <2>1, BufferKnows DEF overflow, size, Sizes
  <2> DEFINE items == NextItems(Rooms(o), size(o), n)
  <2>3. items \in [1..n -> Items] /\ SubSeq(Rooms(o), 1, size(o) + n) = Contents(o) \o items
    BY <2>2, FrontAndNext DEF Contents, size
  <2> HIDE DEF items
  <2>4. obj' = [obj EXCEPT ![o].m_tail = size(o) + n]
    BY <2>1 DEF size
  <2>5. NowHolds(o, Contents(o) \o items)
    BY <1>0, <2>1, <2>2, <2>3, <2>4, TailKeeps
  <2>6. IB!Becomes(o, contentsBar[o] \o items, m_read[o])
    BY <1>0, <2>1, <2>5, BecomingUnread
  <2>7. n \in (0..MaxRooms) \cup Sizes
    OBVIOUS
  <2>8. IB!Write(o)
    BY <1>0, <2>1, <2>3, <2>6, <2>7 DEF IB!Write, IB!Returns, Returns
  <2> QED
    BY <1>0, <2>8 DEF IB!Next
<1> QED
  BY <1>1, <1>2, <1>3, <1>4, <1>5, <1>6, <1>8, <1>9, <1>10, <1>11 DEF Write

LEMMA ReadItems ==
  ASSUME Careless = {}, BufferOK, NEW o \in Objects, Read(o)
  PROVE  IB!Next
<1>0. /\ StorageOK /\ alive \subseteq Objects
      /\ \A p \in Objects : contentsBar[p] = Contents(p) /\ m_read[p] \in Nat
  BY DEF BufferOK, StorageOK, StorageType, contentsBar
<1>1. ASSUME o \in alive, UNCHANGED storageVars
      PROVE  /\ alive' = alive /\ contentsBar' = contentsBar
             /\ size(o) \in Nat /\ size(o) = Len(contentsBar[o])
  BY <1>0, <1>1, SameStorage, BufferKnows, ContentsOfOwner DEF storageVars, size
<1>2. ASSUME NEW i \in Sizes, at(o, i) PROVE IB!Next
  <2>1. o \in alive /\ KeepRead /\ i \in Nat
    BY <1>2 DEF at, Sizes
  <2>2. UNCHANGED storageVars
        /\ (out' = THROW \/ \E j \in DOMAIN Contents(o) : out' = Contents(o)[j])
    BY <1>0, <1>2, <2>1, AtKeeps
  <2>3. IB!Look(o)
    BY <1>0, <1>1, <2>1, <2>2 DEF KeepRead, IB!Look, IB!Returns
  <2> QED
    BY <2>1, <2>3 DEF IB!Next
<1>3. ASSUME NEW i \in Sizes, position(o, i) PROVE IB!Next
  <2>1. o \in alive /\ UNCHANGED storageVars /\ i \in Nat
    BY <1>3 DEF position, KeepStorage, Sizes
  <2>2. CASE i > size(o)
    <3>1. IB!Look(o)
      BY <1>1, <1>3, <2>1, <2>2 DEF position, KeepRead, Returns, IB!Look, IB!Returns
    <3> QED
      BY <2>1, <3>1 DEF IB!Next
  <2>3. CASE ~(i > size(o))
    <3>1. i \in 0..Len(contentsBar[o])
      BY <1>1, <2>1, <2>3
    <3>2. IB!Seek(o)
      BY <1>1, <1>3, <2>1, <2>3, <3>1 DEF position, SetRead, Returns, IB!Seek, IB!Returns
    <3> QED
      BY <2>1, <3>2 DEF IB!Next
  <2> QED
    BY <2>2, <2>3
<1>4. CASE read(o)
  <2>1. o \in alive /\ UNCHANGED storageVars /\ m_read' = [m_read EXCEPT ![o] = m_read[o] + 1]
    BY <1>4 DEF read, KeepStorage, SetRead
  <2>2. out' = IF m_read[o] < Len(contentsBar[o]) THEN contentsBar[o][m_read[o] + 1] ELSE THROW
    <3>1. CASE m_read[o] + 1 > size(o)
      BY <1>0, <1>1, <1>4, <2>1, <3>1 DEF read, Returns
    <3>2. CASE ~(m_read[o] + 1 > size(o))
      <4>1. m_read[o] + 1 \in 1..size(o) /\ m_read[o] < Len(contentsBar[o])
        BY <1>0, <1>1, <2>1, <3>2
      <4>2. size(o) \in 0..Len(Rooms(o)) /\ Rooms(o) \in Seq(Items)
        BY <1>0, <2>1, BufferKnows
      <4>3. Contents(o)[m_read[o] + 1] = Rooms(o)[m_read[o] + 1]
        BY <4>1, <4>2, Front DEF Contents, size
      <4> QED
        BY <1>0, <1>4, <3>2, <4>1, <4>3 DEF read, Returns
    <3> QED
      BY <3>1, <3>2
  <2>3. IB!Read(o)
    BY <1>1, <2>1, <2>2 DEF IB!Read, IB!Returns
  <2> QED
    BY <2>1, <2>3 DEF IB!Next
<1>5. CASE put_back(o)
  <2>1. o \in alive /\ UNCHANGED storageVars
    BY <1>5 DEF put_back, KeepStorage
  <2>2. IB!PutBack(o)
    BY <1>1, <1>5, <2>1 DEF put_back, KeepRead, SetRead, Returns, IB!PutBack, IB!Returns
  <2> QED
    BY <2>1, <2>2 DEF IB!Next
<1>6. ASSUME NEW d \in Objects, NEW f \in Sizes, NEW l \in Nat, o \in alive,
             PartIsMade(d, o, f, l), f <= l, out' = OK
      PROVE  IB!Next
  <2>1. d \in Objects \ alive /\ alive' = alive \cup {d}
        /\ IB!Becomes(d, SubSeq(contentsBar[o], f + 1, l), 0)
    BY <1>0, <1>6, Becoming DEF PartIsMade
  <2>2. f \in 0..Len(contentsBar[o]) /\ l \in 0..Len(contentsBar[o])
    BY <1>0, <1>6, BufferKnows, ContentsOfOwner DEF PartIsMade, Sizes, size
  <2>3. IB!New(d)
    BY <1>6, <2>1, <2>2 DEF IB!New, IB!Returns
  <2> QED
    BY <2>1, <2>3 DEF IB!Next
<1>7. ASSUME NEW d \in Objects, NEW f \in Sizes, NEW n \in Sizes,
             extract(d, o, f, n) \/ substr(d, o, f, n)
      PROVE  IB!Next
  <2>1. o \in alive
    BY <1>7 DEF extract, substr
  <2>2. CASE UNCHANGED <<storageVars, m_read>> /\ out' = OUT_OF_RANGE
    <3>1. IB!Look(o)
      BY <1>1, <2>1, <2>2 DEF IB!Look, IB!Returns
    <3> QED
      BY <2>1, <3>1 DEF IB!Next
  <2>3. CASE PartIsMade(d, o, f, PartEnd(o, f, n)) /\ out' = OK /\ f <= size(o)
    <3>1. PartEnd(o, f, n) \in Nat /\ f <= PartEnd(o, f, n)
      BY <1>0, <2>1, <2>3, BufferKnows DEF PartEnd, Sizes
    <3> QED
      BY <1>6, <2>1, <2>3, <3>1
  <2>4. CASE extract(d, o, f, n)
    BY <1>0, <2>2, <2>3, <2>4, ExtractKeeps
  <2>5. CASE substr(d, o, f, n)
    BY <1>0, <2>3, <2>5, SubstrKeeps DEF substr, Careful, SubstrNeeds
  <2> QED
    BY <1>7, <2>4, <2>5
<1> QED
  BY <1>2, <1>3, <1>4, <1>5, <1>7 DEF Read

-----------------------------------------------------------------------------
(* With a careful caller the types, the memory and its owners stay right.  *)
THEOREM Invariance == ASSUME Careless = {} PROVE Spec => []BufferOK
<1>1. BufferOK /\ [Next]_vars => BufferOK'
  BY StorageStep, ReadingStep DEF BufferOK
<1> QED
  BY <1>1, InitBuffer, PTL DEF Spec

(* Buffers keep their types.                                               *)
THEOREM TypeCorrect == ASSUME Careless = {} PROVE Spec => []TypeOK
<1>1. BufferOK => TypeOK
  BY DEF BufferOK, StorageOK, StorageType, Members, TypeOK
<1> QED
  BY <1>1, Invariance, PTL

(* No call reads or writes outside its block, or gives a block back wrongly. *)
THEOREM CarefulIsSafe == ASSUME Careless = {} PROVE Spec => []NoFault
<1>1. BufferOK => NoFault
  BY DEF BufferOK, StorageOK
<1> QED
  BY <1>1, Invariance, PTL

(* Every block has exactly one owner, which knows its length.              *)
THEOREM BlocksAreOwned == ASSUME Careless = {} PROVE Spec => []Owned
<1>1. BufferOK => Owned
  BY DEF BufferOK, StorageOK
<1> QED
  BY <1>1, Invariance, PTL

(* A buffer that is used with care is a sequence of items with a cursor:   *)
(* every call does what ItemBuffer says of it, whether it reallocates,     *)
(* writes in place, copies or hands a block over.                          *)
THEOREM Refinement == ASSUME Careless = {} PROVE Spec => ImplementsItemBuffer
<1>1. BufferOK /\ [Next]_vars => [IB!Next]_IB!itemVars
  <2> SUFFICES ASSUME BufferOK, [Next]_vars PROVE [IB!Next]_IB!itemVars
    OBVIOUS
  <2>1. CASE UNCHANGED vars
    <3>1. contentsBar' = contentsBar
      BY <2>1, SameStorage DEF vars, storageVars, BufferOK
    <3> QED
      BY <2>1, <3>1 DEF vars, IB!itemVars
  <2>2. CASE Next
    BY <2>2, LifetimeItems, WriteItems, ReadItems DEF Next
  <2> QED
    BY <2>1, <2>2
<1> QED
  BY <1>1, InitItems, Invariance, PTL DEF Spec, IB!Spec, ImplementsItemBuffer

(* extract makes a buffer of exactly the items asked for or, when there    *)
(* are not that many, none; substr makes one of those that there are.      *)
THEOREM PartsAreExact == ASSUME Careless = {} PROVE Spec => PartIsExact
<1> DEFINE Exact(d, o, f, n) ==
              /\ extract(d, o, f, n) /\ f + n <= size(o) => IsPart(d, o, f + 1, f + n)
              /\ extract(d, o, f, n) /\ f + n > size(o) =>
                    alive' = alive /\ out' = OUT_OF_RANGE
              /\ substr(d, o, f, n) =>
                    IsPart(d, o, f + 1, IF f + n <= size(o) THEN f + n ELSE size(o))
<1>1. ASSUME BufferOK, NEW d \in Objects \ alive, NEW o \in alive,
             NEW f \in Sizes, NEW n \in Sizes
      PROVE  Exact(d, o, f, n)
  <2>1. StorageOK /\ d \in Objects /\ o \in Objects
    BY <1>1 DEF BufferOK, StorageOK, StorageType
  <2>2. f + n \in Nat /\ size(o) \in Nat
    BY <2>1, BufferKnows DEF Sizes
  <2>3. PartIsMade(d, o, f, PartEnd(o, f, n)) => IsPart(d, o, f + 1, PartEnd(o, f, n))
    BY <2>1 DEF PartIsMade, NowHolds, contentsBar, IsPart
  <2>4. ASSUME extract(d, o, f, n), f + n <= size(o) PROVE IsPart(d, o, f + 1, f + n)
    <3>1. PartIsMade(d, o, f, PartEnd(o, f, n)) /\ PartEnd(o, f, n) = f + n
      BY <2>1, <2>4, ExtractKeeps DEF PartEnd
    <3> QED
      BY <2>3, <3>1
  <2>5. ASSUME extract(d, o, f, n), f + n > size(o)
        PROVE  alive' = alive /\ out' = OUT_OF_RANGE
    <3>1. ~(f + n <= size(o))
      BY <2>2, <2>5
    <3> QED
      BY <2>1, <2>5, <3>1, ExtractKeeps DEF storageVars
  <2>6. ASSUME substr(d, o, f, n)
        PROVE  IsPart(d, o, f + 1, IF f + n <= size(o) THEN f + n ELSE size(o))
    BY <2>1, <2>3, <2>6, SubstrKeeps DEF PartEnd
  <2> QED
    BY <2>4, <2>5, <2>6
<1>2. BufferOK => [\A d \in Objects \ alive, o \in alive, f, n \in Sizes :
                      Exact(d, o, f, n)]_vars
  BY <1>1
<1> QED
  BY <1>2, Invariance, PTL DEF Spec, PartIsExact
=============================================================================
