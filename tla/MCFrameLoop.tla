---------------------------- MODULE MCFrameLoop ----------------------------
(* Small instances of FrameLoop.                                           *)
EXTENDS FrameLoop, TLC

(* A surface without an upper limit, one that wants exactly two images,    *)
(* and one that wants all three of the ring.                               *)
AnySurface == {[min |-> 2, max |-> 0], [min |-> 2, max |-> 2],
               [min |-> 3, max |-> 8]}

(* A surface that lets the viewport have the three images it asks for.     *)
OneSurface == {[min |-> 2, max |-> 0]}

PresentOnly == {"present"}
AllButEnd   == FailureKinds \ {"end"}

Handles == Permutations(Swapchain)
=============================================================================
