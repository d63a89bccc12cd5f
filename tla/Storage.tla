------------------------------- MODULE Storage ------------------------------
(* Sml::StorageBase (include/storage.hpp): who owns which block of memory, *)
(* and the three pointers and the capacity each object keeps about its     *)
(* block. m_tail and m_end are counted in rooms from m_head. An operation  *)
(* that touches a room outside the object's block, or gives a block back   *)
(* with the wrong size, ends the run with fault set: what follows is       *)
(* undefined in C++.                                                       *)
EXTENDS Integers, Sequences

CONSTANTS
    Objects,    \* storage objects, constructed and destroyed over and over
    Blocks,     \* addresses the allocator can hand out
    Null,       \* nullptr
    Items,      \* values of the content type T
    Blank,      \* T()
    MaxRooms,   \* bound: no block larger than this is asked for
    Careless    \* calls made without the precondition the code leaves unchecked

ASSUME StorageAssumption ==
    /\ Null \notin Blocks
    /\ Blank \in Items
    /\ MaxRooms \in Nat

VARIABLES
    alive,      \* the objects that are constructed
    obj,        \* obj[o]: the members of o
    room,       \* room[b]: the rooms of block b, empty while b is free
    fault       \* an operation did something undefined

storageVars == <<alive, obj, room, fault>>

\* The members as their default initialisers leave them.
Raw == [m_head |-> Null, m_tail |-> 0, m_end |-> 0, m_capacity |-> 0, m_init |-> FALSE]

\* A block of s rooms at b as initialize sets the members, with n contents in it.
Holding(b, s, n) ==
    [m_head |-> b, m_tail |-> n, m_end |-> s, m_capacity |-> s, m_init |-> TRUE]

\* Mutant: the source of a move keeps its block.
MovedFrom_Sharing(m) == [m EXCEPT !.m_init = FALSE]

\* What a move leaves in the source: m_capacity keeps its value.
MovedFrom(m) ==
    [m EXCEPT !.m_head = Null, !.m_tail = 0, !.m_end = 0, !.m_init = FALSE]

StorageInit ==
    /\ alive = {}
    /\ obj = [o \in Objects |-> Raw]
    /\ room = [b \in Blocks |-> <<>>]
    /\ fault = FALSE

-----------------------------------------------------------------------------
Used == {b \in Blocks : room[b] # <<>>}
Rooms(o) == IF obj[o].m_head = Null THEN <<>> ELSE room[obj[o].m_head]
Contents(o) == SubSeq(Rooms(o), 1, obj[o].m_tail)

\* reserve constructs n rooms, of which the first get the items.
Pad(items, n) ==
    [i \in 1..n |-> IF i <= Len(items) THEN items[i] ELSE Blank]

\* The rooms after the items were written behind the first `at` rooms.
Written(rooms, at, items) ==
    [i \in 1..Len(rooms) |->
        IF at < i /\ i <= at + Len(items) THEN items[i - at] ELSE rooms[i]]

Careful(call) == call \notin Careless

\* destroy_all and deallocate do what they should: there is a block, and
\* m_capacity and m_end say how long it is.
CanRelease(o) ==
    /\ obj[o].m_head # Null
    /\ obj[o].m_capacity = Len(Rooms(o))
    /\ obj[o].m_end = Len(Rooms(o))

Crash == fault' = TRUE /\ UNCHANGED <<alive, obj, room>>

-----------------------------------------------------------------------------
(* reserve and resize.                                                     *)

\* Constructing o: reserve(s), then the items go to the front. Nothing is
\* allocated for s = 0, and then writing any item goes through a null pointer.
Construct(o, s, items) ==
    /\ o \notin alive
    /\ s <= MaxRooms
    /\ IF Len(items) > s THEN Crash
       ELSE /\ alive' = alive \cup {o}
            /\ UNCHANGED fault
            /\ IF s = 0 THEN UNCHANGED <<obj, room>>
               ELSE \E b \in Blocks \ Used :
                       /\ room' = [room EXCEPT ![b] = Pad(items, s)]
                       /\ obj' = [obj EXCEPT ![o] = Holding(b, s, Len(items))]

\* The capacity that resize(s) asks reserve for.
ResizedTo(o, s) == IF obj[o].m_init THEN obj[o].m_capacity + s ELSE s

\* resize copies the contents to a temporary of the same capacity and gives
\* the block back, before it reserves the new one.
CanResize(o) ==
    obj[o].m_init => CanRelease(o) /\ obj[o].m_tail <= obj[o].m_capacity

\* resize to s rooms and the writes that follow it leave o with these items.
\* The allocator may hand out the address that was just given back.
Reallocate(o, s, items) ==
    /\ s <= MaxRooms
    /\ IF ~CanResize(o) \/ Len(items) > s THEN Crash
       ELSE /\ \E b \in (Blocks \ Used) \cup ({obj[o].m_head} \ {Null}) :
                 /\ room' = [x \in Blocks |->
                               IF x = b THEN Pad(items, s)
                               ELSE IF x = obj[o].m_head THEN <<>> ELSE room[x]]
                 /\ obj' = [obj EXCEPT ![o] = Holding(b, s, Len(items))]
            /\ UNCHANGED <<alive, fault>>

\* Items written behind the first `at` rooms in place, and m_tail moved.
WriteInPlace(o, at, items, tail) ==
    IF at + Len(items) > Len(Rooms(o)) THEN Crash
    ELSE /\ room' = IF items = <<>> THEN room
                    ELSE [room EXCEPT ![obj[o].m_head] = Written(@, at, items)]
         /\ obj' = [obj EXCEPT ![o].m_tail = tail]
         /\ UNCHANGED <<alive, fault>>

-----------------------------------------------------------------------------
(* Copy, move and destruction.                                             *)

CopyConstruct(o, p) ==
    /\ p \in alive
    /\ Construct(o, obj[p].m_capacity, Contents(p))

MoveConstruct(o, p) ==
    /\ o \notin alive
    /\ p \in alive
    /\ alive' = alive \cup {o}
    /\ obj' = [obj EXCEPT ![o] = obj[p], ![p] = MovedFrom(obj[p])]
    /\ UNCHANGED <<room, fault>>

\* The copy goes to the front of o, but m_tail moves on from where it was.
CopyAssign(o, p) ==
    /\ {o, p} \subseteq alive
    /\ IF o # p /\ obj[o].m_capacity >= obj[p].m_capacity
       THEN WriteInPlace(o, 0, Contents(p), obj[o].m_tail + obj[p].m_tail)
       ELSE UNCHANGED storageVars

\* m_capacity of o stays what it was, and m_init becomes true whatever p holds.
MoveAssign(o, p) ==
    /\ {o, p} \subseteq alive
    /\ IF o # p /\ obj[o].m_capacity >= obj[p].m_capacity
       THEN IF CanRelease(o)
            THEN /\ room' = [room EXCEPT ![obj[o].m_head] = <<>>]
                 /\ obj' = [obj EXCEPT
                       ![o] = [obj[p] EXCEPT !.m_capacity = obj[o].m_capacity,
                                             !.m_init = TRUE],
                       ![p] = MovedFrom(obj[p])]
                 /\ UNCHANGED <<alive, fault>>
            ELSE Crash
       ELSE UNCHANGED storageVars

Destroy(o) ==
    /\ o \in alive
    /\ IF obj[o].m_init /\ ~CanRelease(o) THEN Crash
       ELSE /\ alive' = alive \ {o}
            /\ room' = IF obj[o].m_init
                       THEN [room EXCEPT ![obj[o].m_head] = <<>>] ELSE room
            /\ obj' = [obj EXCEPT ![o] = Raw]
            /\ UNCHANGED fault

\* copy_from trusts the caller that the items fit behind the front.
CopyFrom(o, items) ==
    /\ o \in alive
    /\ WriteInPlace(o, 0, items, obj[o].m_tail + Len(items))

-----------------------------------------------------------------------------
(* Nothing undefined happens.                                              *)
NoFault == ~fault

(* Every block that is allocated has exactly one owner, which knows its    *)
(* length and keeps its contents inside it; an object without a block      *)
(* holds no content and is not marked as allocated. So no block leaks, is  *)
(* given back twice or is reached from two objects.                        *)
Owned ==
    /\ \A o \in alive :
          IF obj[o].m_head = Null
          THEN obj[o] = MovedFrom(obj[o])
          ELSE obj[o].m_init /\ CanRelease(o) /\ obj[o].m_tail <= obj[o].m_end
    /\ \A o \in Objects \ alive : obj[o] = Raw
    /\ \A o, p \in Objects :
          obj[o].m_head = obj[p].m_head => o = p \/ obj[o].m_head = Null
    /\ Used = {obj[o].m_head : o \in alive} \ {Null}
=============================================================================
