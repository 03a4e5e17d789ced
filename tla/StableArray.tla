----------------------------- MODULE StableArray -----------------------------
(***************************************************************************)
(* Utility/StableArray.zig: an array whose elements never move.  Removed   *)
(* elements leave holes, which are kept ordered and merged; the last hole  *)
(* is filled first, and the array ends in a live element.                  *)
(*                                                                         *)
(* Indices are the program's, from 0.  The users call remove and get only  *)
(* with an index add gave them and they have not given back; held and      *)
(* answer are theirs.  A failed allocation returns before anything changes *)
(* and is a stuttering step.                                               *)
(***************************************************************************)
EXTENDS Integers, Sequences, SequencesExt

CONSTANTS
    Element,       \* what is stored
    IndexValues,   \* how many values an index has, 2^64 for a usize
    MaxLength      \* bound: no add makes the array longer than this

ASSUME LengthAssumption ==
    /\ MaxLength \in Nat
    /\ IndexValues \in Nat /\ MaxLength < IndexValues

VARIABLES
    data,      \* data.items, stale elements in the holes included
    holes,     \* holes.items
    held,      \* what the users put in, by the index each was told
    answer     \* what the last call returned

vars == <<data, holes, held, answer>>

HoleType == [index : Nat, size : Nat \ {0}]
Hole(i, s) == [index |-> i, size |-> s]
End(h) == h.index + h.size
Covers(h, id) == h.index <= id /\ id < End(h)
Length == Len(data)
At(id) == data[id + 1]

Init ==
    /\ data = << >>
    /\ holes = << >>
    /\ held = << >>
    /\ answer = << >>

(***************************************************************************)
(* The users' side of the calls.                                           *)
(***************************************************************************)
Keeps(id, e) ==
    /\ held' = [k \in DOMAIN held \union {id} |-> IF k = id THEN e ELSE held[k]]
    /\ answer' = <<id>>

GivesBack(id) ==
    /\ held' = [k \in DOMAIN held \ {id} |-> held[k]]
    /\ answer' = <<At(id)>>

(***************************************************************************)
(* add: the first element of the last hole, or a new last element.         *)
(***************************************************************************)
\* Faults for the mutant runs: an emptied hole stays; the hole keeps its size.
FillHole_KeepsEmpty(e) ==
    /\ holes # << >>
    /\ LET h == Last(holes)
       IN  /\ data' = [data EXCEPT ![h.index + 1] = e]
           /\ holes' = [holes EXCEPT ![Len(holes)] = Hole(h.index + 1, h.size - 1)]
           /\ Keeps(h.index, e)

FillHole_SizeKept(e) ==
    /\ holes # << >>
    /\ LET h == Last(holes)
       IN  /\ data' = [data EXCEPT ![h.index + 1] = e]
           /\ holes' = [holes EXCEPT ![Len(holes)] = Hole(h.index + 1, h.size)]
           /\ Keeps(h.index, e)

FillHole(e) ==
    /\ holes # << >>
    /\ LET h == Last(holes)
       IN  /\ data' = [data EXCEPT ![h.index + 1] = e]
           /\ holes' = IF h.size = 1 THEN Front(holes)
                       ELSE [holes EXCEPT ![Len(holes)] = Hole(h.index + 1, h.size - 1)]
           /\ Keeps(h.index, e)

AddLast(e) ==
    /\ holes = << >>
    /\ Length < MaxLength
    /\ data' = Append(data, e)
    /\ Keeps(Length, e)
    /\ UNCHANGED holes

AddElement(e) == FillHole(e) \/ AddLast(e)

(***************************************************************************)
(* remove of the last element: the array shrinks, over the last hole too   *)
(* if that is now at the end.                                              *)
(***************************************************************************)
RemoveLast(id) ==
    /\ id = Length - 1
    /\ IF holes # << >> /\ End(Last(holes)) = Length - 1
       THEN /\ data' = SubSeq(data, 1, Last(holes).index)
            /\ holes' = Front(holes)
       ELSE /\ data' = Front(data)
            /\ UNCHANGED holes
    /\ GivesBack(id)

(***************************************************************************)
(* remove of any other element: the first hole, in order, that id extends  *)
(* or comes before decides.                                                *)
(***************************************************************************)
Extends(h, id) == End(h) = id
MinusOne(index) == (index - 1) % IndexValues
Precedes(h, id) == MinusOne(h.index) = id
Before(h, id) == id < h.index
Decides(h, id) == Extends(h, id) \/ Precedes(h, id) \/ Before(h, id)

FirstDecides(i, id) ==
    /\ Decides(holes[i], id)
    /\ \A j \in 1 .. i - 1 : ~Decides(holes[j], id)

\* Fault: the size of the swallowed hole is lost.
Stitch_SizeLost(i, longer) ==
    IF i < Len(holes) /\ End(longer) = holes[i + 1].index
    THEN RemoveAt([holes EXCEPT ![i] = longer], i + 1)
    ELSE [holes EXCEPT ![i] = longer]

\* The hole at i grows to longer, and swallows the next one if it now touches it.
Stitch(i, longer) ==
    IF i < Len(holes) /\ End(longer) = holes[i + 1].index
    THEN RemoveAt([holes EXCEPT ![i] = Hole(longer.index, longer.size + holes[i + 1].size)], i + 1)
    ELSE [holes EXCEPT ![i] = longer]

GrowHole(id, i) ==
    /\ Extends(holes[i], id)
    /\ holes' = Stitch(i, Hole(holes[i].index, holes[i].size + 1))

GrowHoleDown(id, i) ==
    /\ ~Extends(holes[i], id)
    /\ Precedes(holes[i], id)
    /\ holes' = [holes EXCEPT ![i] = Hole(id, holes[i].size + 1)]

NewHole(id, i) ==
    /\ ~Extends(holes[i], id)
    /\ ~Precedes(holes[i], id)
    /\ holes' = InsertAt(holes, i, Hole(id, 1))

NewLastHole(id) ==
    /\ \A i \in DOMAIN holes : ~Decides(holes[i], id)
    /\ holes' = Append(holes, Hole(id, 1))

RemoveInner(id) ==
    /\ id # Length - 1
    /\ \/ \E i \in DOMAIN holes :
            /\ FirstDecides(i, id)
            /\ GrowHole(id, i) \/ GrowHoleDown(id, i) \/ NewHole(id, i)
       \/ NewLastHole(id)
    /\ GivesBack(id)
    /\ UNCHANGED data

RemoveElement(id) == RemoveLast(id) \/ RemoveInner(id)

GetElement(id) ==
    /\ answer' = <<At(id)>>
    /\ UNCHANGED <<data, holes, held>>

Next ==
    \/ \E e \in Element : AddElement(e)
    \/ \E id \in DOMAIN held : RemoveElement(id) \/ GetElement(id)

Spec == Init /\ [][Next]_vars

(***************************************************************************)
(* Properties.                                                             *)
(***************************************************************************)

\* The type of the array: elements, and holes that are not empty.
TypeOK ==
    /\ data \in Seq(Element)
    /\ holes \in Seq(HoleType)
    /\ DOMAIN held \subseteq Nat
    /\ \A id \in DOMAIN held : held[id] \in Element

\* "ordered after range.index" (line 19), and more: two holes neither overlap
\* nor touch, so a run of removed elements is one hole whatever order they
\* were removed in, and no hole is at the end of the array.
HolesOrdered ==
    /\ \A i, j \in DOMAIN holes : i < j => End(holes[i]) < holes[j].index
    /\ \A i \in DOMAIN holes : End(holes[i]) < Length

\* The holes are ordered and apart, and an index is live exactly when no hole
\* covers it: no index a user holds can be given out again, and none is lost.
HolesAreTheFreeIndices ==
    /\ HolesOrdered
    /\ \A id \in 0 .. Length - 1 :
         id \in DOMAIN held <=> \A i \in DOMAIN holes : ~Covers(holes[i], id)

\* "elements will have the same index forever, until they are removed" (line
\* 16): the array still has, at each user's index, what that user put there.
ElementsStay ==
    \A id \in DOMAIN held : id < Length /\ At(id) = held[id]

Abstract == INSTANCE StableMap WITH Index <- 0 .. MaxLength - 1

\* add and remove implement the map from indices to elements that their users
\* rely on.
ImplementsStableMap == Abstract!Spec

=============================================================================
