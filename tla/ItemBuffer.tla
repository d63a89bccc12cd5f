----------------------------- MODULE ItemBuffer -----------------------------
(* What a BufferBase promises to a caller that keeps its preconditions: a  *)
(* sequence of items that grows without limit, and a cursor for reading    *)
(* it. There is no memory, no capacity and no undefined step.              *)
EXTENDS Integers, Sequences

CONSTANTS
    Objects,    \* the buffers
    Items,      \* what they hold
    Args,       \* the item sequences passed to the calls
    Sizes,      \* how many items fill a new buffer, or are put in from outside
    OK, OUT_OF_RANGE, UNDER_FLOW, THROW

VARIABLES
    alive,      \* the buffers there are
    contents,   \* contents[o]: the items of o
    cursor,     \* cursor[o]: how many items were read, or tried to be read
    out         \* what the last call returned, or threw

itemVars == <<alive, contents, cursor, out>>

Init ==
    /\ alive = {}
    /\ contents = [o \in Objects |-> <<>>]
    /\ cursor = [o \in Objects |-> 0]
    /\ out = OK

Returns(v) == out' = v

\* Buffer o now holds these items and is read from position n on.
Becomes(o, items, n) ==
    /\ cursor' = [cursor EXCEPT ![o] = n]
    /\ contents' = [contents EXCEPT ![o] = items]

New(o) ==
    /\ alive' = alive \cup {o}
    /\ Returns(OK)
    /\ \/ \E items \in Args : Becomes(o, items, 0)
       \/ \E v \in Items, s \in Sizes : Becomes(o, [i \in 1..s |-> v], 0)
       \/ \E p \in alive : Becomes(o, contents[p], cursor[p])
       \/ \E p \in alive : \E f, l \in 0..Len(contents[p]) :   \* a part of p
             Becomes(o, SubSeq(contents[p], f + 1, l), 0)

Delete(o) ==
    /\ alive' = alive \ {o}
    /\ Returns(OK)
    /\ Becomes(o, <<>>, 0)

\* p gives its items away, to a new buffer or to one there is, and forgets
\* them, but not how far they were read.
Move(o, p) ==
    /\ o # p
    /\ alive' = alive \cup {o}
    /\ Returns(OK)
    /\ cursor' = [cursor EXCEPT ![o] = cursor[p]]
    /\ contents' = [contents EXCEPT ![o] = contents[p], ![p] = <<>>]

\* Adding items, replacing all of them or one of them. Another buffer is
\* copied, with its cursor, only to an empty one. Any items may have been
\* put behind those there are, by somebody who was given the pointer.
Write(o) ==
    /\ UNCHANGED alive
    /\ Returns(OK)
    /\ \/ \E items \in Args \cup {<<v>> : v \in Items} \cup {contents[p] : p \in alive} :
             Becomes(o, contents[o] \o items, cursor[o])
       \/ \E items \in Args \cup {<<>>} \cup {contents[p] : p \in alive} :
             Becomes(o, items, 0)
       \/ \E i \in DOMAIN contents[o], v \in Items :
             Becomes(o, [contents[o] EXCEPT ![i] = v], cursor[o])
       \/ contents[o] = <<>> /\ \E p \in alive : Becomes(o, contents[p], cursor[p])
       \/ \E n \in Sizes : \E items \in [1..n -> Items] :
             Becomes(o, contents[o] \o items, cursor[o])

\* The cursor moves on with every read, whether there was an item or not.
Read(o) ==
    /\ UNCHANGED <<alive, contents>>
    /\ cursor' = [cursor EXCEPT ![o] = @ + 1]
    /\ Returns(IF cursor[o] < Len(contents[o]) THEN contents[o][cursor[o] + 1] ELSE THROW)

PutBack(o) ==
    /\ UNCHANGED <<alive, contents>>
    /\ IF cursor[o] > 0
       THEN cursor' = [cursor EXCEPT ![o] = @ - 1] /\ Returns(OK)
       ELSE UNCHANGED cursor /\ Returns(UNDER_FLOW)

Seek(o) ==
    /\ UNCHANGED <<alive, contents>>
    /\ \E n \in 0..Len(contents[o]) : cursor' = [cursor EXCEPT ![o] = n]
    /\ Returns(OK)

\* Looking at an item, or being refused one out of range.
Look(o) ==
    /\ UNCHANGED <<alive, contents, cursor>>
    /\ \/ \E i \in DOMAIN contents[o] : Returns(contents[o][i])
       \/ Returns(THROW)
       \/ Returns(OUT_OF_RANGE)

Next ==
    \/ \E o \in alive : Look(o) \/ Read(o) \/ PutBack(o) \/ Seek(o) \/ Write(o) \/ Delete(o)
    \/ \E o \in Objects \ alive : New(o)
    \/ \E o \in Objects, p \in alive : Move(o, p)

Spec == Init /\ [][Next]_itemVars
=============================================================================
