--------------------------- MODULE SwapchainRing ---------------------------
(***************************************************************************)
(* The swapchains of a viewport (Graphics/Components/Viewport.zig): a ring *)
(* of them, the next one created from the current one after a resize, the  *)
(* neighbours destroyed first.  FrameLoop takes the creation as one step   *)
(* that works or leaves nothing behind, for it asks which frames are in    *)
(* flight; here it may fail at every call, and the questions are what is   *)
(* created, what is left behind, and what the surface is asked for.        *)
(*                                                                         *)
(* A handle is the number of the creation it was made in, 0 for none.  The *)
(* memory of a slice just allocated is undefined, also 0: wild says that   *)
(* such a handle was destroyed.                                            *)
(***************************************************************************)
EXTENDS Integers, Sequences, FiniteSets, SequencesExt

CONSTANTS
  RingSize,      \* imageCount given to Viewport.init
  LayerCount,    \* layerCount given to Viewport.init
  FirstSize,     \* the size given to Viewport.init
  Size,          \* sizes <<width, height>> of the window
  Free,          \* a surface that leaves its extent to the swapchain
  Surfaces,      \* the capabilities the surface may report
  ExtraImages,   \* how many images more than asked for the driver may make
  Failures,      \* calls that may fail: "swapchain", "images", "objects"
  MaxCreations   \* bound on the creations attempted

\* The modes from the most to the least wanted.
PresentModeOrder == <<"mailbox", "immediate", "fifo", "fifo_relaxed",
                      "shared_demand_refresh", "shared_continuous_refresh">>

ASSUME RingAssumption ==
  /\ RingSize \in Nat /\ RingSize >= 2
  /\ LayerCount \in Nat \ {0}
  /\ Size \subseteq Nat \X Nat /\ FirstSize \in Size /\ Free \notin Nat \X Nat
  /\ ExtraImages \subseteq Nat
  /\ Failures \subseteq {"swapchain", "images", "objects"}
  /\ MaxCreations \in Nat

\* Sound capabilities, of a surface that allows two images at least.
ASSUME SurfaceAssumption ==
  \A c \in Surfaces :
    /\ c.min \in Nat \ {0} /\ c.max \in Nat /\ c.max # 1
    /\ c.max = 0 \/ c.min <= c.max
    /\ c.layers \in Nat \ {0}
    /\ c.current \in (Nat \X Nat) \cup {Free}
    /\ c.least \in Nat \X Nat /\ c.most \in Nat \X Nat
    /\ \A d \in 1 .. 2 : c.least[d] <= c.most[d]
    /\ c.modes \subseteq Range(PresentModeOrder)
    /\ c.alpha \subseteq {"opaque", "pre_multiplied", "post_multiplied", "inherit"}

VARIABLES
  pc,
  resized, width, height,      \* what resize leaves for nextFrame
  imageCount, layerCount,
  currentSwapchain, swapchainData,
  creations,                   \* how many creations were begun
  live,                        \* objects <<kind, creation, i>> not destroyed
  retired,                     \* swapchains another one was created from
  request,                     \* history: what was last asked for, of which surface
  demanded,                    \* history: has a surface asked for more than RingSize?
  failed,                      \* history: has a creation failed after it retired its old one?
  wild,                        \* history: was an undefined handle destroyed?
  reused                       \* history: was a swapchain retired twice?

size    == <<width, height>>
ring    == <<imageCount, layerCount, currentSwapchain, swapchainData>>
device  == <<creations, live, retired>>
history == <<request, demanded, failed, wild, reused>>
vars    == <<pc, resized, size, ring, device, history>>

Null == [swapchain |-> 0, depthBuffer |-> 0, imageViews |-> <<>>, framebuffers |-> <<>>]

Init ==
  /\ pc = "run" /\ resized = TRUE
  /\ width = FirstSize[1] /\ height = FirstSize[2]
  /\ imageCount = RingSize /\ layerCount = LayerCount
  /\ currentSwapchain = 0
  /\ swapchainData = [i \in 0 .. RingSize - 1 |-> Null]
  /\ creations = 0 /\ live = {} /\ retired = {}
  /\ request = <<>> /\ demanded = FALSE /\ failed = FALSE
  /\ wild = FALSE /\ reused = FALSE

Resize ==
  /\ pc = "run" /\ resized' = TRUE
  /\ \E s \in Size : width' = s[1] /\ height' = s[2]
  /\ UNCHANGED <<pc, ring, device, history>>

(***************************************************************************)
(* SwapchainData.deinit                                                    *)
(***************************************************************************)
Handles(d) ==
  {<<"swapchain", d.swapchain, 0>>, <<"depth", d.depthBuffer, 0>>}
  \cup {<<"view", d.imageViews[i], i>> : i \in DOMAIN d.imageViews}
  \cup {<<"framebuffer", d.framebuffers[i], i>> : i \in DOMAIN d.framebuffers}

Named(d) == {h \in Handles(d) : h[2] # 0}

Undefined(d) == 0 \in Range(d.imageViews) \cup Range(d.framebuffers)

(***************************************************************************)
(* _createSwapchain: what is asked of the surface.                         *)
(***************************************************************************)
\* Fault: a surface that asks for more is not given them.
ImageCount_NoLowerBound(c) ==
  IF imageCount > c.max /\ c.max # 0 THEN c.max ELSE imageCount

\* Fault: a surface is asked for as many images as it allows.
ImageCount_Greatest(c) ==
  IF c.max # 0 THEN c.max ELSE imageCount

ImageCount(c) ==
  IF imageCount > c.max /\ c.max # 0 THEN c.max
  ELSE IF imageCount < c.min /\ c.max # 0 THEN c.min
  ELSE imageCount

Extent(c, d) ==
  IF c.current # Free THEN c.current[d]
  ELSE IF size[d] > c.most[d] THEN c.most[d]
  ELSE IF size[d] < c.least[d] THEN c.least[d]
  ELSE size[d]

Layers(c) == IF layerCount > c.layers THEN c.layers ELSE layerCount

\* Is the i-th mode the most wanted one that the surface has?
Wanted(c, i) ==
  /\ PresentModeOrder[i] \in c.modes
  /\ \A j \in 1 .. i - 1 : PresentModeOrder[j] \notin c.modes

PresentMode(c) ==
  PresentModeOrder[CHOOSE i \in DOMAIN PresentModeOrder : Wanted(c, i)]

Ask(c) ==
  /\ imageCount' = ImageCount(c) /\ layerCount' = Layers(c)
  /\ width' = Extent(c, 1) /\ height' = Extent(c, 2)
  /\ demanded' = (demanded \/ c.min > RingSize)

(***************************************************************************)
(* _initSwapchainData: the swapchain, then the depth image and its view,   *)
(* then a view and a framebuffer for every image; n of these were made.    *)
(***************************************************************************)
Made(a, images, n) ==
  [swapchain |-> a,
   depthBuffer |-> IF n >= 1 THEN a ELSE 0,
   imageViews |->
     [i \in 1 .. images + 1 |->
        IF n >= (IF i > images THEN 2 ELSE 2 * i + 1) THEN a ELSE 0],
   framebuffers |-> [i \in 1 .. images |-> IF n >= 2 * i + 2 THEN a ELSE 0]]

All(images) == 2 * images + 2

(***************************************************************************)
(* nextFrame                                                               *)
(***************************************************************************)
NextIndex == (currentSwapchain + 1) % imageCount

\* Fault: one too far back.
LastIndex_TwoBack == (currentSwapchain + imageCount) % imageCount

LastIndex == (currentSwapchain + imageCount - 1) % imageCount

OutOfRing == LastIndex >= RingSize \/ NextIndex >= RingSize

\* A count raised past the length of the ring may lead past its end.
NextFramePanics ==
  /\ pc = "run" /\ resized /\ OutOfRing
  /\ pc' = "panic"
  /\ UNCHANGED <<resized, size, ring, device, history>>

Destroyed == {swapchainData[LastIndex], swapchainData[NextIndex]}

Survivors == [swapchainData EXCEPT ![LastIndex] = Null, ![NextIndex] = Null]

Undefine == wild' = (wild \/ \E d \in Destroyed : Undefined(d))

\* Fault: the views and framebuffers of the neighbours are only forgotten.
Remaining_Others == live \ {<<"swapchain", d.swapchain, 0>> : d \in Destroyed}

Remaining == live \ UNION {Named(d) : d \in Destroyed}

Begin ==
  /\ pc = "run" /\ resized /\ ~ OutOfRing
  /\ creations < MaxCreations

\* The current swapchain, if there is one, is retired.
Retire ==
  LET old == Survivors[currentSwapchain].swapchain IN
  /\ reused' = (reused \/ old \in retired)
  /\ retired' = IF old = 0 THEN retired ELSE retired \cup {old}

\* Without a present mode nothing is created and nothing retired.
NextFrameFails_NoPresentMode ==
  /\ Begin
  /\ \E c \in Surfaces : c.modes = {} /\ Ask(c)
  /\ swapchainData' = Survivors /\ live' = Remaining /\ Undefine
  /\ creations' = creations + 1
  /\ UNCHANGED <<pc, resized, currentSwapchain, retired, request, failed, reused>>

Request(c) ==
  [surface |-> c, images |-> ImageCount(c), layers |-> Layers(c),
   extent |-> <<Extent(c, 1), Extent(c, 2)>>, mode |-> PresentMode(c),
   alpha |-> {"opaque"} \cap c.alpha]

NextFrameFails_Swapchain ==
  /\ Begin /\ "swapchain" \in Failures
  /\ \E c \in Surfaces : c.modes # {} /\ Ask(c) /\ request' = Request(c)
  /\ swapchainData' = Survivors /\ live' = Remaining /\ Undefine
  /\ Retire
  /\ creations' = creations + 1 /\ failed' = TRUE
  /\ UNCHANGED <<pc, resized, currentSwapchain>>

Initialise(made) ==
  /\ creations' = creations + 1
  /\ swapchainData' = [Survivors EXCEPT ![NextIndex] = made]
  /\ live' = Remaining \cup Named(made) /\ Undefine

\* resized stays TRUE and the current swapchain stays, though it is retired.
NextFrameFails_Objects ==
  /\ Begin
  /\ \E c \in Surfaces : c.modes # {} /\ Ask(c) /\ request' = Request(c)
  /\ Retire
  /\ \/ /\ "images" \in Failures
        /\ Initialise([Null EXCEPT !.swapchain = creations + 1])
     \/ /\ "objects" \in Failures
        /\ \E extra \in ExtraImages : LET images == imageCount' + extra IN
             \E n \in 0 .. All(images) - 1 :
               Initialise(Made(creations + 1, images, n))
  /\ failed' = TRUE
  /\ UNCHANGED <<pc, resized, currentSwapchain>>

NextFrame ==
  /\ Begin
  /\ \E c \in Surfaces : c.modes # {} /\ Ask(c) /\ request' = Request(c)
  /\ Retire
  /\ \E extra \in ExtraImages :
       Initialise(Made(creations + 1, imageCount' + extra, All(imageCount' + extra)))
  /\ currentSwapchain' = NextIndex
  /\ resized' = FALSE
  /\ UNCHANGED <<pc, failed>>

(***************************************************************************)
(* Viewport.deinit                                                         *)
(***************************************************************************)
Deinit ==
  /\ pc = "run"
  /\ live' = live \ UNION {Named(swapchainData[i]) : i \in DOMAIN swapchainData}
  /\ wild' = (wild \/ \E i \in DOMAIN swapchainData : Undefined(swapchainData[i]))
  /\ swapchainData' = [i \in DOMAIN swapchainData |-> Null]
  /\ pc' = "done"
  /\ UNCHANGED <<resized, size, imageCount, layerCount, currentSwapchain,
                 creations, retired, request, demanded, failed, reused>>

Ended == pc \in {"done", "panic"} /\ UNCHANGED vars

Next ==
  \/ Resize
  \/ NextFramePanics
  \/ NextFrameFails_NoPresentMode
  \/ NextFrameFails_Swapchain
  \/ NextFrameFails_Objects
  \/ NextFrame
  \/ Deinit
  \/ Ended

Spec == Init /\ [][Next]_vars

----------------------------------------------------------------------------
Data ==
  [swapchain : Nat, depthBuffer : Nat, imageViews : Seq(Nat), framebuffers : Seq(Nat)]

\* Types, and the ring: its index runs past the end only when a surface has
\* asked for more images than the ring was made for (Viewport.init allocates
\* imageCount slots once, _createSwapchain may raise imageCount).
TypeOK ==
  /\ pc \in {"run", "panic", "done"} /\ resized \in BOOLEAN
  /\ size \in Nat \X Nat
  /\ layerCount \in 1 .. LayerCount /\ imageCount \in Nat \ {0}
  /\ swapchainData \in [0 .. RingSize - 1 -> Data]
  /\ currentSwapchain \in 0 .. RingSize - 1
  /\ pc = "panic" \/ imageCount > RingSize => demanded
  /\ creations \in 0 .. MaxCreations
  /\ retired \subseteq 1 .. creations
  /\ \A h \in live : h[2] \in 1 .. creations
  /\ {demanded, failed, wild, reused} \subseteq BOOLEAN

\* nextFrame, _initSwapchainData, deinit: whatever fails, every object created
\* and not destroyed is named by the one slot that will destroy it, and every
\* handle of a slot is of a live object; only a failed creation leaves a slot
\* with handles that were never made, for the next resize or deinit to destroy.
NothingLost ==
  /\ live = UNION {Named(swapchainData[i]) : i \in DOMAIN swapchainData}
  /\ \A i, j \in DOMAIN swapchainData :
       i # j => Named(swapchainData[i]) \cap Named(swapchainData[j]) = {}
  /\ wild => failed

\* _createSwapchain: over any sequence of resizes and surfaces, the images,
\* layers, extent and mode asked of a surface are some it allows, the mode the
\* best it has, and it is asked for one way to composite alpha.  It fails in two
\* things: a surface without a greatest number of images may be asked for fewer
\* than its least, and one that does not composite opaquely is asked for none of
\* the ways it has, where Vulkan wants one.  (A surface of extent 0, that of a
\* minimised window, is asked for that.)
RequestsAllowed ==
  request # <<>> =>
    LET c == request.surface IN
    /\ c.max # 0 => request.images \in c.min .. c.max
    /\ request.layers \in 1 .. c.layers
    /\ \A d \in 1 .. 2 :
         IF c.current = Free THEN request.extent[d] \in c.least[d] .. c.most[d]
         ELSE request.extent[d] = c.current[d]
    /\ request.mode \in c.modes
    /\ \A m \in c.modes : \E i, j \in DOMAIN PresentModeOrder :
         i <= j /\ PresentModeOrder[i] = request.mode /\ PresentModeOrder[j] = m
    /\ "opaque" \in c.alpha => request.alpha \subseteq c.alpha /\ Cardinality(request.alpha) = 1

\* nextFrame: the current swapchain outlives the destruction of its neighbours,
\* so that the next one can be created from it, and no swapchain is retired a
\* second time unless a creation has failed and is tried again.
CreatedFromCurrent ==
  /\ pc = "run" /\ ~ resized => swapchainData[currentSwapchain].swapchain \in 1 .. creations
  /\ pc = "run" /\ retired # {} => <<"swapchain", swapchainData[currentSwapchain].swapchain, 0>> \in live
  /\ reused => failed
=============================================================================
