-------------------------- MODULE MCSwapchainRing --------------------------
(***************************************************************************)
(* Surfaces of different kinds: one that fits the ring, one that allows    *)
(* fewer images and layers and nothing opaque, one without a greatest      *)
(* number of images, one that asks for more than the ring has, one that    *)
(* cannot present.                                                         *)
(***************************************************************************)
EXTENDS SwapchainRing

MCSize == {<<1, 1>>, <<3, 2>>}
MCFirstSize == <<3, 2>>

Fitting ==
  [min |-> 2, max |-> 4, layers |-> 2, current |-> Free, least |-> <<2, 1>>,
   most |-> <<2, 2>>, modes |-> {"fifo", "mailbox"},
   alpha |-> {"opaque", "inherit"}]

MCSurfaces ==
  {Fitting,
   [Fitting EXCEPT !.max = 2, !.layers = 1, !.current = <<1, 3>>, !.modes = {"fifo"},
             !.alpha = {"inherit"}],
   [Fitting EXCEPT !.min = 4, !.max = 0],
   [Fitting EXCEPT !.min = 4, !.max = 5],
   [Fitting EXCEPT !.modes = {}]}
=============================================================================
