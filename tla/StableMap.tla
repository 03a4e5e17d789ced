------------------------------ MODULE StableMap ------------------------------
(***************************************************************************)
(* What a StableArray promises its user: an element that is put in gets an *)
(* index nobody else has, keeps it for as long as it is in, and is what    *)
(* the user gets back when it takes the index out.                         *)
(***************************************************************************)
CONSTANTS
    Element,   \* what is stored
    Index      \* the indices there are

VARIABLES
    held,      \* what the users put in, by the index each was told
    answer     \* what the last call returned

vars == <<held, answer>>

Init == held = << >> /\ answer = << >>

Put(e) ==
    \E id \in Index \ DOMAIN held :
        /\ held' = [k \in DOMAIN held \union {id} |-> IF k = id THEN e ELSE held[k]]
        /\ answer' = <<id>>

Take(id) ==
    /\ held' = [k \in DOMAIN held \ {id} |-> held[k]]
    /\ answer' = <<held[id]>>

Look(id) ==
    /\ answer' = <<held[id]>>
    /\ UNCHANGED held

Next ==
    \/ \E e \in Element : Put(e)
    \/ \E id \in DOMAIN held : Take(id) \/ Look(id)

Spec == Init /\ [][Next]_vars
=============================================================================
