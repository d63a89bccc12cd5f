------------------------------- MODULE Buffer -------------------------------
(* Sml::BufferBase (include/buffer.hpp): a StorageBase that grows when it  *)
(* is written past its end, with a position for reading. Where a call has  *)
(* a precondition that the code does not check, the condition stands here  *)
(* behind Careful(call), often as an operator whose name ends in Needs: it *)
(* is the caller's, and a call named in Careless is made without it.       *)
EXTENDS Storage

CONSTANTS
    Args,       \* the item sequences passed to the calls
    SizeMod,    \* size_type counts modulo this
    MaxReads,   \* bound: no read once the position is here
    OK, OUT_OF_RANGE, UNDER_FLOW,   \* return codes
    THROW       \* std::out_of_range

ASSUME BufferAssumption ==
    /\ Args \subseteq Seq(Items)
    /\ SizeMod \in Nat
    /\ MaxReads \in Nat

VARIABLES
    m_read,     \* m_read[o]: the read position of o
    out         \* what the last call returned, or threw

vars == <<alive, obj, room, fault, m_read, out>>

Codes == {OK, OUT_OF_RANGE, UNDER_FLOW, THROW}
size(o) == obj[o].m_tail
\* Mutant: one item too many is let in.
overflow_ByOne(o, n) == obj[o].m_tail + n > obj[o].m_end + 1

overflow(o, n) == obj[o].m_tail + n > obj[o].m_end
full(o) == obj[o].m_tail = obj[o].m_end

Returns(v) == out' = v
KeepStorage == UNCHANGED storageVars
KeepRead == UNCHANGED m_read
SetRead(o, n) == m_read' = [m_read EXCEPT ![o] = n]

Init ==
    /\ StorageInit
    /\ m_read = [o \in Objects |-> 0]
    /\ out = OK

-----------------------------------------------------------------------------
(* The constructors, assignments and the destructor. m_read goes along     *)
(* with a copy and with a move, and a moved-from buffer keeps it.          *)

New(o, s) == Construct(o, s, <<>>) /\ SetRead(o, 0) /\ Returns(OK)

NewFilled(o, s, v) ==
    Construct(o, s, [i \in 1..s |-> v]) /\ SetRead(o, 0) /\ Returns(OK)

NewList(o, items) ==
    Construct(o, Len(items), items) /\ SetRead(o, 0) /\ Returns(OK)

NewCopy(o, p) == CopyConstruct(o, p) /\ SetRead(o, m_read[p]) /\ Returns(OK)

NewMoved(o, p) == MoveConstruct(o, p) /\ SetRead(o, m_read[p]) /\ Returns(OK)

\* operator= replaces the contents only of an empty target with room enough.
CopyAssignNeeds(o, p) ==
    /\ size(o) = 0
    /\ obj[o].m_capacity >= obj[p].m_capacity
    /\ obj[o].m_init \/ size(p) = 0

Copy(o, p) ==
    /\ o # p
    /\ Careful("copy_assign") => CopyAssignNeeds(o, p)
    /\ CopyAssign(o, p)
    /\ SetRead(o, m_read[p])
    /\ Returns(OK)

MoveAssignNeeds(o, p) ==
    /\ obj[o].m_init /\ obj[p].m_init
    /\ obj[o].m_capacity = obj[p].m_capacity

Move(o, p) ==
    /\ o # p
    /\ Careful("move_assign") => MoveAssignNeeds(o, p)
    /\ MoveAssign(o, p)
    /\ SetRead(o, m_read[p])
    /\ Returns(OK)

Delete(o) == Destroy(o) /\ SetRead(o, 0) /\ Returns(OK)

-----------------------------------------------------------------------------
(* Writing.                                                                *)

\* Mutant: clear keeps the read position.
clear_KeepRead(o) ==
    /\ o \in alive
    /\ obj' = [obj EXCEPT ![o].m_tail = 0]
    /\ UNCHANGED <<alive, room, fault>>
    /\ KeepRead
    /\ Returns(OK)

clear(o) ==
    /\ o \in alive
    /\ obj' = [obj EXCEPT ![o].m_tail = 0]
    /\ SetRead(o, 0)
    /\ UNCHANGED <<alive, room, fault>>
    /\ Returns(OK)

append(o, items) ==
    /\ o \in alive
    /\ IF overflow(o, Len(items))
       THEN Reallocate(o, ResizedTo(o, Len(items)), Contents(o) \o items)
       ELSE WriteInPlace(o, size(o), items, size(o) + Len(items))
    /\ KeepRead
    /\ Returns(OK)

\* append of a buffer; p may be o itself.
AppendBuffer(o, p) == p \in alive /\ append(o, Contents(p))

\* A moved-from buffer keeps a capacity it has no rooms for.
AssignNeeds(o, n) == obj[o].m_init \/ n = 0 \/ obj[o].m_capacity < n

assign(o, items) ==
    /\ o \in alive
    /\ Careful("assign") => AssignNeeds(o, Len(items))
    /\ IF obj[o].m_capacity < Len(items)
       THEN Reallocate(o, ResizedTo(o, Len(items)), items)
       ELSE WriteInPlace(o, 0, items, Len(items))
    /\ SetRead(o, 0)
    /\ Returns(OK)

\* assign of a buffer. Assigned to itself, it loses its contents, which are
\* cleared before they are copied.
AssignBuffer(o, p) ==
    p \in alive /\ assign(o, IF o = p THEN <<>> ELSE Contents(p))

\* resize() asks for twice the capacity on top of the capacity.
PushBackNeeds(o) == obj[o].m_capacity > 0

push_back(o, v) ==
    /\ o \in alive
    /\ Careful("push_back") => PushBackNeeds(o)
    /\ IF full(o)
       THEN Reallocate(o, ResizedTo(o, obj[o].m_capacity * 2), Contents(o) \o <<v>>)
       ELSE WriteInPlace(o, size(o), <<v>>, size(o) + 1)
    /\ KeepRead
    /\ Returns(OK)

\* push_back(a[i]): the reference is into the block that resize gives back.
PushBackOwn(o, i) ==
    /\ o \in alive
    /\ i < size(o)
    /\ Careful("own_item") => ~full(o)
    /\ IF full(o) THEN Crash /\ KeepRead /\ Returns(OK)
       ELSE push_back(o, Rooms(o)[i + 1])

copy_from(o, items) ==
    /\ o \in alive
    /\ Careful("copy_from") => size(o) = 0 /\ ~overflow(o, Len(items))
    /\ CopyFrom(o, items)
    /\ KeepRead
    /\ Returns(OK)

\* The tail is moved over rooms that were written through ptr().
update_tail(o, n) ==
    /\ o \in alive
    /\ Careful("update_tail") => ~overflow(o, n)
    /\ obj' = [obj EXCEPT ![o].m_tail = @ + n]
    /\ UNCHANGED <<alive, room, fault>>
    /\ KeepRead
    /\ Returns(OK)

\* a[i] = v. The check lets i = capacity() pass.
SetItem(o, i, v) ==
    /\ o \in alive
    /\ Careful("index") => i < size(o) \/ i > obj[o].m_capacity
    /\ IF obj[o].m_capacity < i THEN KeepStorage /\ Returns(THROW)
       ELSE WriteInPlace(o, i, <<v>>, size(o)) /\ Returns(OK)
    /\ KeepRead

-----------------------------------------------------------------------------
(* Reading.                                                                *)

at(o, i) ==
    /\ o \in alive
    /\ Careful("index") => i < size(o) \/ i > obj[o].m_capacity
    /\ IF obj[o].m_capacity < i THEN KeepStorage /\ Returns(THROW)
       ELSE IF i >= Len(Rooms(o)) THEN Crash /\ Returns(OK)
       ELSE KeepStorage /\ Returns(Rooms(o)[i + 1])
    /\ KeepRead

\* The position moves on even when there is nothing left to read.
read(o) ==
    /\ o \in alive
    /\ m_read[o] < MaxReads
    /\ SetRead(o, m_read[o] + 1)
    /\ Returns(IF m_read[o] + 1 > size(o) THEN THROW ELSE Rooms(o)[m_read[o] + 1])
    /\ KeepStorage

\* Mutant: the position is put back below the first item.
put_back_Underflow(o) ==
    /\ o \in alive
    /\ SetRead(o, m_read[o] - 1)
    /\ Returns(OK)
    /\ KeepStorage

put_back(o) ==
    /\ o \in alive
    /\ IF m_read[o] > 0
       THEN SetRead(o, m_read[o] - 1) /\ Returns(OK)
       ELSE KeepRead /\ Returns(UNDER_FLOW)
    /\ KeepStorage

position(o, newPos) ==
    /\ o \in alive
    /\ IF newPos > size(o)
       THEN KeepRead /\ Returns(OUT_OF_RANGE)
       ELSE SetRead(o, newPos) /\ Returns(OK)
    /\ KeepStorage

\* The sum of extract's and substr's arguments wraps around. Neither checks
\* that it does not, or substr that it begins inside the buffer.
EndOf(first, length) == (first + length) % SizeMod
ExtractNeeds(first, length) == first + length < SizeMod
SubstrNeeds(o, first, length) == first <= size(o) /\ ExtractNeeds(first, length)

\* The result d: as many rooms as o has, holding the items of o from first on.
NewPart(d, o, first, length) ==
    IF first + length > Len(Rooms(o)) THEN Crash /\ KeepRead
    ELSE /\ Construct(d, obj[o].m_capacity, SubSeq(Rooms(o), first + 1, first + length))
         /\ SetRead(d, 0)

\* Mutant: the part may reach to the capacity instead of to the last item.
extract_ByCapacity(d, o, first, length) ==
    /\ o \in alive
    /\ Careful("extract") => ExtractNeeds(first, length)
    /\ IF obj[o].m_capacity < EndOf(first, length)
       THEN KeepStorage /\ KeepRead /\ Returns(OUT_OF_RANGE)
       ELSE NewPart(d, o, first, length) /\ Returns(OK)

extract(d, o, first, length) ==
    /\ o \in alive
    /\ Careful("extract") => ExtractNeeds(first, length)
    /\ IF size(o) < EndOf(first, length)
       THEN KeepStorage /\ KeepRead /\ Returns(OUT_OF_RANGE)
       ELSE NewPart(d, o, first, length) /\ Returns(OK)

substr(d, o, first, length) ==
    /\ o \in alive
    /\ Careful("substr") => SubstrNeeds(o, first, length)
    /\ NewPart(d, o, first,
               IF size(o) < EndOf(first, length)
               THEN (size(o) - first) % SizeMod ELSE length)
    /\ Returns(OK)

-----------------------------------------------------------------------------
Sizes == 0..SizeMod - 1

Lifetime(o) ==
    \/ \E s \in 0..MaxRooms : New(o, s)
    \/ \E s \in 0..MaxRooms, v \in Items : NewFilled(o, s, v)
    \/ \E items \in Args : NewList(o, items)
    \/ \E p \in Objects : NewCopy(o, p) \/ NewMoved(o, p) \/ Copy(o, p) \/ Move(o, p)
    \/ Delete(o)

Write(o) ==
    \/ clear(o)
    \/ \E items \in Args : append(o, items) \/ assign(o, items) \/ copy_from(o, items)
    \/ \E p \in Objects : AppendBuffer(o, p) \/ AssignBuffer(o, p)
    \/ \E v \in Items : push_back(o, v) \/ \E i \in Sizes : SetItem(o, i, v)
    \/ \E i \in Sizes : PushBackOwn(o, i)
    \/ \E n \in Sizes : update_tail(o, n)

Read(o) ==
    \/ \E i \in Sizes : at(o, i) \/ position(o, i)
    \/ read(o)
    \/ put_back(o)
    \/ \E d \in Objects \ alive, f, n \in Sizes : extract(d, o, f, n) \/ substr(d, o, f, n)

Next == \E o \in Objects : Lifetime(o) \/ Write(o) \/ Read(o)

Spec == Init /\ [][Next]_vars

-----------------------------------------------------------------------------
TypeOK ==
    /\ alive \subseteq Objects
    /\ obj \in [Objects -> [m_head : Blocks \cup {Null}, m_tail : Nat, m_end : Nat,
                            m_capacity : Nat, m_init : BOOLEAN]]
    /\ room \in [Blocks -> Seq(Items)]
    /\ fault \in BOOLEAN
    /\ m_read \in [Objects -> Nat]
    /\ out \in Items \cup Codes

(* A buffer that is used with care is a sequence of items with a cursor:   *)
(* no reallocation, copy or move loses, repeats or reorders an item, and   *)
(* the reads return them in order.                                         *)
contentsBar == [o \in Objects |-> Contents(o)]

IB == INSTANCE ItemBuffer
      WITH contents <- contentsBar, cursor <- m_read, Sizes <- (0..MaxRooms) \cup Sizes
ImplementsItemBuffer == IB!Spec

IsPart(d, o, from, to) ==
    alive' = alive \cup {d} /\ Contents(d)' = SubSeq(Contents(o), from, to)

(* Of the items from f to f + n, extract makes a buffer when there are that *)
(* many and else makes none and says so, by the size and not by the        *)
(* capacity; substr leaves out those that there are not. This is for        *)
(* careful callers, whose sums do not wrap around (ExtractNeeds and         *)
(* SubstrNeeds); ExtractChecksLength is for the others.                     *)
PartIsExact ==
    [][\A d \in Objects \ alive, o \in alive, f, n \in Sizes :
          /\ extract(d, o, f, n) /\ f + n <= size(o) => IsPart(d, o, f + 1, f + n)
          /\ extract(d, o, f, n) /\ f + n > size(o) =>
                alive' = alive /\ out' = OUT_OF_RANGE
          /\ substr(d, o, f, n) =>
                IsPart(d, o, f + 1, IF f + n <= size(o) THEN f + n ELSE size(o))]_vars

(* buffer.hpp:242 "error_type out of range (length is over)": extract      *)
(* refuses a part that ends behind the last item, however it is asked for. *)
ExtractChecksLength ==
    [][\A d \in Objects \ alive, o \in alive, f, n \in Sizes :
          extract(d, o, f, n) /\ f + n > size(o) => out' = OUT_OF_RANGE]_vars

(* tests/storage/unit_test.cpp:74-75: after y = x of two buffers with the  *)
(* same capacity their sizes are the same.                                 *)
CopyAssignSameSize ==
    [][\A o, p \in alive :
          Copy(o, p) /\ obj[o].m_capacity = obj[p].m_capacity =>
              obj'[o].m_tail = obj'[p].m_tail]_vars
=============================================================================
