---------------------------- MODULE DoubleBuffer ----------------------------
(* What the renderer promises of its slots: a slot is filled while nobody  *)
(* else has it, handed over as the youngest frame, and comes back when the *)
(* reader is done with it, oldest frame first.  The owners of a slot are   *)
(* the numbers of the frames that are being read from it: one at most,     *)
(* unless the writer has seized the slot without waiting for it.           *)
EXTENDS Naturals

CONSTANTS Slot, Content

VARIABLES owners, seized, contents
vars == <<owners, seized, contents>>

Init ==
  /\ owners = [s \in Slot |-> {}]
  /\ seized = {}
  /\ contents \in [Slot -> Content]

MayFill(s) == owners[s] = {} \/ s \in seized

(* The writer changes no slot that is handed over.                         *)
Write ==
  /\ contents' \in [Slot -> Content]
  /\ \A s \in Slot : contents'[s] # contents[s] => MayFill(s)
  /\ UNCHANGED <<owners, seized>>

HandOver(s) ==
  /\ MayFill(s)
  /\ \E n \in owners'[s] :
       /\ n \in Nat
       /\ \A t \in Slot : \A m \in owners[t] : m < n
       /\ owners' = [owners EXCEPT ![s] = owners[s] \cup {n}]
  /\ UNCHANGED <<seized, contents>>

Finish(s) ==
  /\ \E n \in owners[s] :
       /\ \A t \in Slot : \A m \in owners[t] : n <= m
       /\ owners' = [owners EXCEPT ![s] = owners[s] \ {n}]
  /\ UNCHANGED <<seized, contents>>

(* The wait for a slot fails, and the writer takes it all the same.        *)
Seize(s) ==
  /\ seized' = seized \cup {s}
  /\ UNCHANGED <<owners, contents>>

(* A later wait for the slot finds that nobody has it.                     *)
Settle(s) ==
  /\ owners[s] = {}
  /\ seized' = seized \ {s}
  /\ UNCHANGED <<owners, contents>>

Next ==
  \/ Write
  \/ \E s \in Slot : HandOver(s) \/ Finish(s) \/ Seize(s) \/ Settle(s)

Spec == Init /\ [][Next]_vars

(* The reader finishes what it was handed.                                 *)
FairSpec == Spec /\ WF_vars(\E s \in Slot : Finish(s))
=============================================================================
