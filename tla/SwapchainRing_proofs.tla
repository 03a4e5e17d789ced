------------------------ MODULE SwapchainRing_proofs ------------------------
(***************************************************************************)
(* Proofs about SwapchainRing, for a ring of any length, any surfaces that *)
(* meet SurfaceAssumption and any failures.  The invariant adds to the     *)
(* properties what keeps the current swapchain alive (the two slots a      *)
(* resize empties are never its own) and says which slots may hold handles *)
(* that were never made.                                                   *)
(***************************************************************************)
EXTENDS SwapchainRing, SequenceTheorems, FiniteSetTheorems, TLAPS

Index == 0 .. RingSize - 1

Names(i) == Named(swapchainData[i])

\* Whatever fails: at least two images are asked for.
CountInv == imageCount >= 2 /\ (imageCount > RingSize => demanded)

\* Handles that were never made are the remains of a creation that failed.
UndefinedInv ==
  /\ \A i \in Index : Undefined(swapchainData[i]) => failed
  /\ wild => failed

\* The current swapchain has not been retired, unless a creation failed.
RetiredInv == ~ failed => swapchainData[currentSwapchain].swapchain \notin retired

IInv ==
  /\ TypeOK /\ CountInv /\ UndefinedInv /\ RetiredInv
  /\ NothingLost /\ RequestsAllowed /\ CreatedFromCurrent

----------------------------------------------------------------------------
(***************************************************************************)
(* The arithmetic of the ring.                                             *)
(***************************************************************************)
LEMMA Neighbours ==
    ASSUME NEW c \in Nat, NEW n \in Nat, n >= 2
    PROVE  /\ (c + 1) % n \in 0 .. n - 1 /\ (c + 1) % n # c
           /\ (c + n - 1) % n \in 0 .. n - 1 /\ (c + n - 1) % n # c
  OBVIOUS

(***************************************************************************)
(* What is asked of a surface.                                             *)
(***************************************************************************)
LEMMA SurfaceFacts ==
    ASSUME NEW c \in Surfaces
    PROVE  /\ c.min \in Nat \ {0} /\ c.max \in Nat /\ c.max # 1
           /\ c.max = 0 \/ c.min <= c.max
           /\ c.layers \in Nat \ {0}
           /\ c.current \in (Nat \X Nat) \cup {Free}
           /\ \A d \in 1 .. 2 : c.least[d] \in Nat /\ c.most[d] \in Nat /\ c.least[d] <= c.most[d]
           /\ c.modes \subseteq Range(PresentModeOrder)
  BY SurfaceAssumption

LEMMA ImageCountFacts ==
    ASSUME NEW c \in Surfaces, imageCount \in Nat, CountInv
    PROVE  /\ ImageCount(c) \in Nat /\ ImageCount(c) >= 2
           /\ c.max # 0 => ImageCount(c) \in c.min .. c.max
           /\ ImageCount(c) > RingSize => demanded \/ c.min > RingSize
  BY SurfaceFacts, RingAssumption DEF ImageCount, CountInv

LEMMA ExtentFacts ==
    ASSUME NEW c \in Surfaces, size \in Nat \X Nat, NEW d \in 1 .. 2
    PROVE  /\ Extent(c, d) \in Nat
           /\ IF c.current = Free THEN Extent(c, d) \in c.least[d] .. c.most[d]
              ELSE Extent(c, d) = c.current[d]
  <1>1. size[d] \in Nat
    BY DEF size
  <1>2. c.current # Free => c.current[d] \in Nat
    BY SurfaceFacts
  <1>3. QED
    BY <1>1, <1>2, SurfaceFacts DEF Extent

LEMMA LayersFacts ==
    ASSUME NEW c \in Surfaces, layerCount \in 1 .. LayerCount
    PROVE  Layers(c) \in 1 .. c.layers /\ Layers(c) \in 1 .. LayerCount
  BY SurfaceFacts, RingAssumption DEF Layers

\* The best mode of a surface that has one.
LEMMA PresentModeFacts ==
    ASSUME NEW c \in Surfaces, c.modes # {}
    PROVE  /\ PresentMode(c) \in c.modes
           /\ \A m \in c.modes : \E i, j \in DOMAIN PresentModeOrder :
                i <= j /\ PresentModeOrder[i] = PresentMode(c) /\ PresentModeOrder[j] = m
  <1> DEFINE P == PresentModeOrder
  <1>1. DOMAIN P = 1 .. 6
    BY DEF PresentModeOrder
  <1>2. \A m \in c.modes : \E i \in 1 .. 6 : P[i] = m
    <2>1. c.modes \subseteq {P[i] : i \in 1 .. 6}
      BY <1>1, SurfaceFacts DEF Range
    <2>2. QED
      BY <2>1
  <1> HIDE DEF P
  <1>3. \E i \in 1 .. 6 : P[i] \in c.modes
    BY <1>2
  <1>4. \E i \in 1 .. 6 : P[i] \in c.modes /\ \A j \in 1 .. i - 1 : P[j] \notin c.modes
    <2>1. CASE P[1] \in c.modes
      <3>1. P[1] \in c.modes /\ \A j \in 1 .. 1 - 1 : P[j] \notin c.modes
        BY <2>1
      <3>2. QED
        BY <3>1
    <2>2. CASE P[1] \notin c.modes /\ P[2] \in c.modes
      <3>1. \A j \in 1 .. 2 - 1 : j = 1
        OBVIOUS
      <3>2. QED
        BY <2>2, <3>1
    <2>3. CASE P[1] \notin c.modes /\ P[2] \notin c.modes /\ P[3] \in c.modes
      <3>1. \A j \in 1 .. 3 - 1 : j = 1 \/ j = 2
        OBVIOUS
      <3>2. QED
        BY <2>3, <3>1
    <2>4. CASE P[1] \notin c.modes /\ P[2] \notin c.modes /\ P[3] \notin c.modes /\ P[4] \in c.modes
      <3>1. \A j \in 1 .. 4 - 1 : j = 1 \/ j = 2 \/ j = 3
        OBVIOUS
      <3>2. QED
        BY <2>4, <3>1
    <2>5. CASE /\ P[1] \notin c.modes /\ P[2] \notin c.modes /\ P[3] \notin c.modes
               /\ P[4] \notin c.modes /\ P[5] \in c.modes
      <3>1. \A j \in 1 .. 5 - 1 : j = 1 \/ j = 2 \/ j = 3 \/ j = 4
        OBVIOUS
      <3>2. QED
        BY <2>5, <3>1
    <2>6. CASE /\ P[1] \notin c.modes /\ P[2] \notin c.modes /\ P[3] \notin c.modes
               /\ P[4] \notin c.modes /\ P[5] \notin c.modes
      <3>1. \A j \in 1 .. 6 - 1 : j = 1 \/ j = 2 \/ j = 3 \/ j = 4 \/ j = 5
        OBVIOUS
      <3>2. \A i \in 1 .. 6 : i = 1 \/ i = 2 \/ i = 3 \/ i = 4 \/ i = 5 \/ i = 6
        OBVIOUS
      <3>3. P[6] \in c.modes
        BY <1>3, <2>6, <3>2
      <3>4. QED
        BY <2>6, <3>1, <3>3
    <2>7. QED
      BY <2>1, <2>2, <2>3, <2>4, <2>5, <2>6
  <1> DEFINE best == CHOOSE i \in 1 .. 6 : P[i] \in c.modes /\ \A j \in 1 .. i - 1 : P[j] \notin c.modes
  <1>5. best \in 1 .. 6 /\ P[best] \in c.modes /\ \A j \in 1 .. best - 1 : P[j] \notin c.modes
    BY <1>4
  <1>6. PresentMode(c) = P[best]
    BY <1>1 DEF PresentMode, Wanted, P
  <1> HIDE DEF best
  <1>7. ASSUME NEW m \in c.modes
        PROVE  \E i, j \in 1 .. 6 : i <= j /\ P[i] = P[best] /\ P[j] = m
    <2>1. PICK j \in 1 .. 6 : P[j] = m
      BY <1>2
    <2>2. best <= j
      BY <1>5, <2>1
    <2>3. QED
      BY <1>5, <2>1, <2>2
  <1>8. QED
    BY <1>1, <1>5, <1>6, <1>7 DEF P

(***************************************************************************)
(* Slots and what they name.                                               *)
(***************************************************************************)
\* What a creation that began as number a may leave in its slot.
Fresh(d, a) ==
  /\ d \in Data /\ d.swapchain = a
  /\ \A h \in Named(d) : h[2] = a

LEMMA NullFacts == Null \in Data /\ Named(Null) = {} /\ ~ Undefined(Null)
  <1>1. Null \in Data
    BY DEF Null, Data
  <1>2. /\ Null.swapchain = 0 /\ Null.depthBuffer = 0
        /\ Null.imageViews = <<>> /\ Null.framebuffers = <<>>
    BY DEF Null
  <1>3. DOMAIN Null.imageViews = {} /\ DOMAIN Null.framebuffers = {}
    BY <1>2
  <1>4. Handles(Null) = {<<"swapchain", 0, 0>>, <<"depth", 0, 0>>}
    BY <1>2, <1>3 DEF Handles
  <1>5. Named(Null) = {}
    BY <1>4 DEF Named
  <1>6. ~ Undefined(Null)
    BY <1>2, <1>3 DEF Undefined, Range
  <1>7. QED
    BY <1>1, <1>5, <1>6

LEMMA SeqOfTwo ==
    ASSUME NEW a \in Nat, NEW m \in Nat, NEW f,
           f \in [1 .. m -> {0, a}]
    PROVE  f \in Seq(Nat) /\ DOMAIN f = 1 .. m
  <1>1. f \in [1 .. m -> Nat]
    OBVIOUS
  <1>2. QED
    BY <1>1

LEMMA MadeFacts ==
    ASSUME NEW a \in Nat \ {0}, NEW images \in Nat, NEW n \in Nat
    PROVE  /\ Fresh(Made(a, images, n), a)
           /\ n = All(images) => ~ Undefined(Made(a, images, n))
  <1> DEFINE d == Made(a, images, n)
             views == [i \in 1 .. images + 1 |->
                         IF n >= (IF i > images THEN 2 ELSE 2 * i + 1) THEN a ELSE 0]
             buffers == [i \in 1 .. images |-> IF n >= 2 * i + 2 THEN a ELSE 0]
  <1>1. /\ d.swapchain = a /\ d.depthBuffer = (IF n >= 1 THEN a ELSE 0)
        /\ d.imageViews = views /\ d.framebuffers = buffers
        /\ d = [swapchain |-> a, depthBuffer |-> IF n >= 1 THEN a ELSE 0,
                imageViews |-> views, framebuffers |-> buffers]
    BY DEF Made
  <1>2. \A i \in 1 .. images + 1 : views[i] \in {0, a}
    OBVIOUS
  <1>3. \A i \in 1 .. images : buffers[i] \in {0, a}
    OBVIOUS
  <1>4. views \in [1 .. images + 1 -> {0, a}] /\ buffers \in [1 .. images -> {0, a}]
    OBVIOUS
  <1>5. /\ views \in Seq(Nat) /\ buffers \in Seq(Nat)
        /\ DOMAIN views = 1 .. images + 1 /\ DOMAIN buffers = 1 .. images
    <2>1. images + 1 \in Nat
      OBVIOUS
    <2> HIDE DEF views, buffers
    <2>2. QED
      BY <1>4, <2>1, SeqOfTwo
  <1>6. n = All(images) => /\ \A i \in 1 .. images + 1 : views[i] = a
                           /\ \A i \in 1 .. images : buffers[i] = a
    BY DEF All
  <1> HIDE DEF d, views, buffers
  <1>7. d \in Data
    BY <1>1, <1>5 DEF Data
  <1>8. ASSUME NEW h \in Handles(d) PROVE h[2] \in {0, a}
    <2>1. CASE h = <<"swapchain", d.swapchain, 0>> \/ h = <<"depth", d.depthBuffer, 0>>
      BY <1>1, <2>1
    <2>2. CASE \E i \in DOMAIN d.imageViews : h = <<"view", d.imageViews[i], i>>
      BY <1>1, <1>2, <1>5, <2>2
    <2>3. CASE \E i \in DOMAIN d.framebuffers : h = <<"framebuffer", d.framebuffers[i], i>>
      BY <1>1, <1>3, <1>5, <2>3
    <2>4. QED
      BY <2>1, <2>2, <2>3 DEF Handles
  <1>9. Fresh(d, a)
    BY <1>1, <1>7, <1>8 DEF Fresh, Named
  <1>10. n = All(images) => ~ Undefined(d)
    BY <1>1, <1>5, <1>6 DEF Undefined, Range
  <1>11. QED
    BY <1>9, <1>10 DEF d

LEMMA SumFacts ==
    ASSUME NEW a \in Nat, NEW b \in Nat
    PROVE  a + b \in Nat
  OBVIOUS

LEMMA AllFacts ==
    ASSUME NEW images \in Nat
    PROVE  All(images) \in Nat /\ 0 .. All(images) - 1 \subseteq Nat
  BY DEF All

LEMMA OnlySwapchainFacts ==
    ASSUME NEW a \in Nat \ {0}
    PROVE  Fresh([Null EXCEPT !.swapchain = a], a) /\ ~ Undefined([Null EXCEPT !.swapchain = a])
  <1> DEFINE d == [Null EXCEPT !.swapchain = a]
  <1>0. d = [swapchain |-> a, depthBuffer |-> 0, imageViews |-> <<>>, framebuffers |-> <<>>]
    BY DEF Null
  <1> HIDE DEF d
  <1>1. /\ d.swapchain = a /\ d.depthBuffer = 0
        /\ d.imageViews = <<>> /\ d.framebuffers = <<>>
        /\ d \in Data
    BY <1>0 DEF Data
  <1>2. DOMAIN d.imageViews = {} /\ DOMAIN d.framebuffers = {}
    BY <1>1
  <1>3. Handles(d) = {<<"swapchain", a, 0>>, <<"depth", 0, 0>>}
    BY <1>1, <1>2 DEF Handles
  <1>4. Fresh(d, a)
    BY <1>1, <1>3 DEF Fresh, Named
  <1>5. ~ Undefined(d)
    BY <1>1, <1>2 DEF Undefined, Range
  <1>6. QED
    BY <1>4, <1>5 DEF d

\* The slots of ring s name what lives, and no two slots the same.
Keeps(s, objects) ==
  /\ objects = UNION {Named(s[i]) : i \in Index}
  /\ \A i, j \in Index : i # j => Named(s[i]) \cap Named(s[j]) = {}

LEMMA KeepsIsNothingLost ==
    ASSUME swapchainData \in [Index -> Data]
    PROVE  NothingLost <=> Keeps(swapchainData, live) /\ (wild => failed)
  BY DEF NothingLost, Keeps

\* Emptying two slots and destroying what they named.
LEMMA EmptyTwo ==
    ASSUME NEW s \in [Index -> Data], NEW objects, Keeps(s, objects),
           NEW l \in Index, NEW n \in Index
    PROVE  LET t == [s EXCEPT ![l] = Null, ![n] = Null]
           IN  /\ t \in [Index -> Data]
               /\ t[l] = Null /\ t[n] = Null
               /\ \A i \in Index \ {l, n} : t[i] = s[i]
               /\ Keeps(t, objects \ UNION {Named(d) : d \in {s[l], s[n]}})
  <1> DEFINE t == [s EXCEPT ![l] = Null, ![n] = Null]
             rest == objects \ UNION {Named(d) : d \in {s[l], s[n]}}
  <1>1. /\ t \in [Index -> Data] /\ t[l] = Null /\ t[n] = Null
        /\ \A i \in Index \ {l, n} : t[i] = s[i]
    BY NullFacts
  <1>2. rest = {h \in objects : h \notin Named(s[l]) /\ h \notin Named(s[n])}
    OBVIOUS
  <1> HIDE DEF t, rest
  <1>3. \A i \in Index : Named(t[i]) = IF i \in {l, n} THEN {} ELSE Named(s[i])
    BY <1>1, NullFacts
  <1>4. \A h : h \in rest <=> \E i \in Index : h \in Named(t[i])
    <2>1. ASSUME NEW h, h \in rest PROVE \E i \in Index : h \in Named(t[i])
      BY <1>2, <1>3, <2>1 DEF Keeps
    <2>2. ASSUME NEW h, NEW i \in Index, h \in Named(t[i]) PROVE h \in rest
      <3>1. i \notin {l, n} /\ h \in Named(s[i])
        BY <1>3, <2>2
      <3>2. h \in objects
        BY <3>1 DEF Keeps
      <3>3. Named(s[i]) \cap Named(s[l]) = {} /\ Named(s[i]) \cap Named(s[n]) = {}
        BY <3>1 DEF Keeps
      <3>4. QED
        BY <1>2, <3>1, <3>2, <3>3
    <2>3. QED
      BY <2>1, <2>2
  <1>5. \A i, j \in Index : i # j => Named(t[i]) \cap Named(t[j]) = {}
    BY <1>3 DEF Keeps
  <1>6. Keeps(t, rest)
    BY <1>4, <1>5 DEF Keeps
  <1>7. QED
    BY <1>1, <1>6 DEF t, rest

\* Filling an empty slot with what is new.
LEMMA FillOne ==
    ASSUME NEW s, NEW t, NEW objects, Keeps(s, objects),
           NEW n \in Index, s[n] = Null, NEW a, NEW d, Fresh(d, a),
           \A h \in objects : h[2] # a,
           t[n] = d, \A i \in Index \ {n} : t[i] = s[i]
    PROVE  Keeps(t, objects \cup Named(d))
  <1>1. \A i \in Index \ {n} : \A h \in Named(s[i]) : h \in objects /\ h[2] # a
    BY DEF Keeps
  <1>2. \A h \in Named(d) : h[2] = a
    BY DEF Fresh
  <1>3. \A i, j \in Index : i # j => Named(t[i]) \cap Named(t[j]) = {}
    BY <1>1, <1>2 DEF Keeps
  <1>4. \A h : h \in objects \cup Named(d) <=> \E i \in Index : h \in Named(t[i])
    <2>1. \A h \in objects : \E i \in Index \ {n} : h \in Named(t[i])
      BY NullFacts DEF Keeps
    <2>2. \A i \in Index : \A h \in Named(t[i]) : h \in objects \cup Named(d)
      BY <1>1
    <2>3. QED
      BY <2>1, <2>2
  <1> DEFINE all == objects \cup Named(d)
  <1> HIDE DEF all
  <1>5. Keeps(t, all)
    <2>1. \A h : h \in all <=> \E i \in Index : h \in Named(t[i])
      BY <1>4 DEF all
    <2>2. QED
      BY <1>3, <2>1 DEF Keeps
  <1>6. QED
    BY <1>5 DEF all

----------------------------------------------------------------------------
(***************************************************************************)
(* What the steps of a creation do.                                        *)
(***************************************************************************)
LEMMA TypeFacts ==
    ASSUME TypeOK
    PROVE  /\ swapchainData \in [Index -> Data] /\ currentSwapchain \in Index
           /\ imageCount \in Nat \ {0} /\ creations \in Nat
           /\ wild \in BOOLEAN /\ failed \in BOOLEAN /\ reused \in BOOLEAN /\ demanded \in BOOLEAN
           /\ \A h \in live : h[2] \in 1 .. creations
           /\ retired \subseteq 1 .. creations
  BY RingAssumption DEF TypeOK, Index

\* The neighbours are emptied, the current slot is not.
LEMMA SurvivorsFacts ==
    ASSUME IInv, ~ OutOfRing
    PROVE  /\ NextIndex \in Index /\ NextIndex # currentSwapchain
           /\ Survivors \in [Index -> Data]
           /\ Survivors[NextIndex] = Null
           /\ Survivors[currentSwapchain] = swapchainData[currentSwapchain]
           /\ Keeps(Survivors, Remaining) /\ Remaining \subseteq live
           /\ \A i \in Index : Undefined(Survivors[i]) => failed
           /\ Undefine => wild' \in BOOLEAN /\ (wild' => failed)
  <1>1. /\ swapchainData \in [Index -> Data] /\ currentSwapchain \in Index
        /\ currentSwapchain \in Nat /\ imageCount \in Nat /\ imageCount >= 2
        /\ wild \in BOOLEAN
    BY TypeFacts DEF IInv, CountInv, Index
  <1>2. /\ NextIndex \in 0 .. imageCount - 1 /\ NextIndex # currentSwapchain
        /\ LastIndex \in 0 .. imageCount - 1 /\ LastIndex # currentSwapchain
    BY <1>1, Neighbours DEF NextIndex, LastIndex
  <1>3. NextIndex \in Index /\ LastIndex \in Index
    BY <1>1, <1>2, RingAssumption DEF OutOfRing, Index
  <1>4. Keeps(swapchainData, live)
    BY <1>1, KeepsIsNothingLost DEF IInv
  <1>5. /\ Survivors \in [Index -> Data]
        /\ Survivors[LastIndex] = Null /\ Survivors[NextIndex] = Null
        /\ \A i \in Index \ {LastIndex, NextIndex} : Survivors[i] = swapchainData[i]
        /\ Keeps(Survivors, Remaining)
    BY <1>1, <1>3, <1>4, EmptyTwo DEF Survivors, Remaining, Destroyed
  <1>6. \A i \in Index : Undefined(Survivors[i]) => failed
    BY <1>5, NullFacts DEF IInv, UndefinedInv
  <1>7. Undefine => wild' \in BOOLEAN /\ (wild' => failed)
    <2>1. \A d \in Destroyed : Undefined(d) => failed
      BY <1>3 DEF Destroyed, IInv, UndefinedInv
    <2>2. wild => failed
      BY DEF IInv, UndefinedInv
    <2>3. QED
      BY <1>1, <2>1, <2>2 DEF Undefine
  <1>8. Remaining \subseteq live
    BY DEF Remaining
  <1>9. QED
    BY <1>1, <1>2, <1>3, <1>5, <1>6, <1>7, <1>8

LEMMA AskFacts ==
    ASSUME IInv, NEW c \in Surfaces, Ask(c)
    PROVE  /\ CountInv' /\ imageCount' \in Nat \ {0}
           /\ layerCount' \in 1 .. LayerCount /\ size' \in Nat \X Nat
           /\ demanded' \in BOOLEAN
  <1>1. /\ imageCount \in Nat /\ CountInv /\ layerCount \in 1 .. LayerCount
        /\ size \in Nat \X Nat /\ demanded \in BOOLEAN
    BY DEF IInv, TypeOK
  <1>2. /\ imageCount' = ImageCount(c) /\ demanded' = (demanded \/ c.min > RingSize)
        /\ ImageCount(c) \in Nat /\ ImageCount(c) >= 2
        /\ ImageCount(c) > RingSize => demanded \/ c.min > RingSize
    BY <1>1, ImageCountFacts DEF Ask
  <1> DEFINE more == c.min > RingSize
  <1>3. CountInv' /\ imageCount' \in Nat \ {0} /\ demanded' \in BOOLEAN
    <2>1. demanded' = (demanded \/ more)
      BY <1>2
    <2>2. ImageCount(c) > RingSize => demanded \/ more
      BY <1>2
    <2>3. imageCount' = ImageCount(c) /\ imageCount' \in Nat \ {0} /\ imageCount' >= 2
      BY <1>2
    <2> HIDE DEF more
    <2>4. demanded' \in BOOLEAN
      BY <2>1, Zenon
    <2>5. imageCount' > RingSize => demanded'
      BY <2>1, <2>2, <2>3, Zenon
    <2>6. QED
      BY <2>3, <2>4, <2>5 DEF CountInv
  <1>4. layerCount' \in 1 .. LayerCount
    BY <1>1, LayersFacts DEF Ask
  <1>5. Extent(c, 1) \in Nat /\ Extent(c, 2) \in Nat
    BY <1>1, ExtentFacts
  <1>6. size' \in Nat \X Nat
    BY <1>5 DEF Ask, size
  <1>7. QED
    BY <1>3, <1>4, <1>6

LEMMA RequestFacts ==
    ASSUME IInv, NEW c \in Surfaces, c.modes # {}, request' = Request(c)
    PROVE  RequestsAllowed'
  <1>1. /\ imageCount \in Nat /\ CountInv /\ layerCount \in 1 .. LayerCount
        /\ size \in Nat \X Nat
    BY DEF IInv, TypeOK
  <1>2. /\ request'.surface = c /\ request'.images = ImageCount(c)
        /\ request'.layers = Layers(c) /\ request'.mode = PresentMode(c)
        /\ request'.extent = <<Extent(c, 1), Extent(c, 2)>>
    BY DEF Request
  <1>3. c.max # 0 => request'.images \in c.min .. c.max
    BY <1>1, <1>2, ImageCountFacts
  <1>4. request'.layers \in 1 .. c.layers
    BY <1>1, <1>2, LayersFacts
  <1>5. \A d \in 1 .. 2 : request'.extent[d] = Extent(c, d)
    BY <1>2
  <1>6. \A d \in 1 .. 2 :
          IF c.current = Free THEN request'.extent[d] \in c.least[d] .. c.most[d]
          ELSE request'.extent[d] = c.current[d]
    BY <1>1, <1>5, ExtentFacts
  <1>7. /\ request'.mode \in c.modes
        /\ \A m \in c.modes : \E i, j \in DOMAIN PresentModeOrder :
             i <= j /\ PresentModeOrder[i] = request'.mode /\ PresentModeOrder[j] = m
    BY <1>2, PresentModeFacts
  <1>8. "opaque" \in c.alpha =>
          request'.alpha \subseteq c.alpha /\ Cardinality(request'.alpha) = 1
    <2>1. request'.alpha = {"opaque"} \cap c.alpha
      BY DEF Request
    <2>2. SUFFICES ASSUME "opaque" \in c.alpha
                   PROVE  request'.alpha \subseteq c.alpha /\ Cardinality(request'.alpha) = 1
      OBVIOUS
    <2>3. request'.alpha = {"opaque"}
      BY <2>1, <2>2
    <2>4. QED
      BY <2>2, <2>3, FS_Singleton, Zenon
  <1>9. QED
    BY <1>2, <1>3, <1>4, <1>6, <1>7, <1>8 DEF RequestsAllowed

\* The current swapchain is alive when the next one is created from it.
LEMMA RetireFacts ==
    ASSUME IInv, pc = "run", ~ OutOfRing, Retire
    PROVE  /\ retired' \subseteq 1 .. creations
           /\ retired' # {} =>
                <<"swapchain", swapchainData[currentSwapchain].swapchain, 0>> \in Remaining
           /\ reused' \in BOOLEAN /\ (reused' => failed)
  <1> DEFINE old == swapchainData[currentSwapchain].swapchain
             h == <<"swapchain", old, 0>>
  <1>1. /\ currentSwapchain \in Index /\ Survivors[currentSwapchain].swapchain = old
        /\ Keeps(Survivors, Remaining) /\ Remaining \subseteq live
    BY SurvivorsFacts, TypeFacts DEF IInv
  <1>2. /\ \A g \in live : g[2] \in 1 .. creations
        /\ retired \subseteq 1 .. creations /\ creations \in Nat
        /\ reused \in BOOLEAN
    BY TypeFacts DEF IInv
  <1>3. /\ reused' = (reused \/ old \in retired)
        /\ retired' = IF old = 0 THEN retired ELSE retired \cup {old}
    BY <1>1 DEF Retire
  <1>4. old # 0 => h \in Remaining
    <2>1. old # 0 => h \in Named(Survivors[currentSwapchain])
      <3>1. h \in Handles(Survivors[currentSwapchain])
        BY <1>1 DEF Handles
      <3>2. h[2] = old
        OBVIOUS
      <3>3. QED
        BY <3>1, <3>2 DEF Named
    <2>2. QED
      BY <1>1, <2>1 DEF Keeps
  <1>5. old # 0 => old \in 1 .. creations
    <2>1. h[2] = old
      OBVIOUS
    <2>2. QED
      BY <1>1, <1>2, <1>4, <2>1
  <1>6. retired # {} => old # 0
    <2>1. retired # {} => h \in live
      BY DEF IInv, CreatedFromCurrent
    <2>2. h[2] = old
      OBVIOUS
    <2>3. QED
      BY <1>2, <2>1, <2>2
  <1>7. reused' => failed
    BY <1>3 DEF IInv, RetiredInv, CreatedFromCurrent
  <1> HIDE DEF old
  <1>8. retired' \subseteq 1 .. creations /\ (retired' # {} => h \in Remaining)
    BY <1>2, <1>3, <1>4, <1>5, <1>6
  <1>9. QED
    BY <1>2, <1>3, <1>7, <1>8 DEF old

\* A slot filled anew; creations is raised in the same step.
LEMMA InitialiseFacts ==
    ASSUME IInv, ~ OutOfRing, NEW made, Fresh(made, creations + 1), Initialise(made)
    PROVE  /\ swapchainData' \in [Index -> Data]
           /\ swapchainData'[NextIndex] = made
           /\ swapchainData'[currentSwapchain] = swapchainData[currentSwapchain]
           /\ Keeps(swapchainData', live')
           /\ \A h \in live' : h[2] \in 1 .. creations + 1
           /\ Remaining \subseteq live' /\ Named(made) \subseteq live'
           /\ creations' = creations + 1
           /\ \A i \in Index : Undefined(swapchainData'[i]) => failed \/ Undefined(made)
           /\ wild' \in BOOLEAN /\ (wild' => failed)
  <1>1. /\ NextIndex \in Index /\ NextIndex # currentSwapchain
        /\ Survivors \in [Index -> Data] /\ Survivors[NextIndex] = Null
        /\ Survivors[currentSwapchain] = swapchainData[currentSwapchain]
        /\ Keeps(Survivors, Remaining) /\ Remaining \subseteq live
        /\ \A i \in Index : Undefined(Survivors[i]) => failed
        /\ wild' \in BOOLEAN /\ (wild' => failed)
    BY SurvivorsFacts DEF Initialise
  <1>2. /\ \A h \in live : h[2] \in 1 .. creations
        /\ creations \in Nat /\ currentSwapchain \in Index
    BY TypeFacts DEF IInv
  <1>3. \A h \in Remaining : h[2] \in 1 .. creations /\ h[2] # creations + 1
    BY <1>1, <1>2
  <1>4. /\ swapchainData' = [Survivors EXCEPT ![NextIndex] = made]
        /\ live' = Remaining \cup Named(made) /\ creations' = creations + 1
    BY DEF Initialise
  <1>5. /\ swapchainData' \in [Index -> Data] /\ swapchainData'[NextIndex] = made
        /\ \A i \in Index \ {NextIndex} : swapchainData'[i] = Survivors[i]
        /\ Keeps(swapchainData', live')
    <2>1. /\ swapchainData' \in [Index -> Data] /\ swapchainData'[NextIndex] = made
          /\ \A i \in Index \ {NextIndex} : swapchainData'[i] = Survivors[i]
      BY <1>1, <1>4 DEF Fresh
    <2>2. Keeps(swapchainData', Remaining \cup Named(made))
      BY <1>1, <1>3, <2>1, FillOne
    <2>3. QED
      BY <1>4, <2>1, <2>2
  <1>6. \A h \in live' : h[2] \in 1 .. creations + 1
    BY <1>2, <1>3, <1>4 DEF Fresh
  <1>7. QED
    BY <1>1, <1>2, <1>4, <1>5, <1>6

----------------------------------------------------------------------------
LEMMA InitLemma == Init => IInv
  <1> SUFFICES ASSUME Init PROVE IInv
    OBVIOUS
  <1>1. /\ swapchainData \in [Index -> Data]
        /\ \A i \in Index : swapchainData[i] = Null
    BY NullFacts DEF Init, Index
  <1>2. /\ FirstSize \in Nat \X Nat /\ size = <<FirstSize[1], FirstSize[2]>>
        /\ RingSize \in Nat /\ RingSize >= 2 /\ LayerCount \in Nat \ {0} /\ MaxCreations \in Nat
    BY RingAssumption DEF Init, size
  <1>3. size \in Nat \X Nat
    BY <1>2
  <1>4. TypeOK
    <2>1. /\ pc \in {"run", "panic", "done"} /\ resized \in BOOLEAN /\ pc # "panic"
          /\ creations \in 0 .. MaxCreations /\ live = {} /\ retired = {}
          /\ imageCount = RingSize /\ layerCount = LayerCount /\ currentSwapchain = 0
      BY <1>2 DEF Init
    <2>2. {demanded, failed, wild, reused} \subseteq BOOLEAN
      BY DEF Init
    <2>3. /\ layerCount \in 1 .. LayerCount /\ imageCount \in Nat \ {0}
          /\ currentSwapchain \in 0 .. RingSize - 1
          /\ ~ (pc = "panic" \/ imageCount > RingSize)
      BY <1>2, <2>1
    <2>4. QED
      BY <1>1, <1>3, <2>1, <2>2, <2>3 DEF TypeOK, Index
  <1>5. NothingLost
    <2>1. Keeps(swapchainData, live)
      BY <1>1, NullFacts DEF Init, Keeps
    <2>2. QED
      BY <1>1, <2>1, KeepsIsNothingLost DEF Init
  <1>6. CountInv /\ UndefinedInv /\ RetiredInv
    BY <1>1, <1>2, NullFacts DEF Init, CountInv, UndefinedInv, RetiredInv
  <1>7. RequestsAllowed /\ CreatedFromCurrent
    BY DEF Init, RequestsAllowed, CreatedFromCurrent
  <1>8. QED
    BY <1>4, <1>5, <1>6, <1>7 DEF IInv

LEMMA ResizeLemma ==
    ASSUME IInv, Resize
    PROVE  IInv'
  <1> USE DEF IInv, Resize, ring, device, history
  <1>1. size' \in Nat \X Nat
    BY RingAssumption DEF size
  <1>2. TypeOK'
    BY <1>1 DEF TypeOK
  <1>3. (CountInv /\ UndefinedInv /\ RetiredInv)'
    BY DEF CountInv, UndefinedInv, RetiredInv
  <1>4. (NothingLost /\ RequestsAllowed /\ CreatedFromCurrent)'
    BY DEF NothingLost, RequestsAllowed, CreatedFromCurrent
  <1>5. QED
    BY <1>2, <1>3, <1>4

\* The index leaves the ring only when more images are asked for than it has.
LEMMA NextFramePanicsLemma ==
    ASSUME IInv, NextFramePanics
    PROVE  IInv'
  <1> USE DEF IInv, NextFramePanics, ring, device, history
  <1>1. demanded
    <2>1. /\ currentSwapchain \in Nat /\ imageCount \in Nat /\ imageCount >= 2
          /\ RingSize \in Nat
      BY TypeFacts, RingAssumption DEF CountInv, Index
    <2>2. NextIndex \in 0 .. imageCount - 1 /\ LastIndex \in 0 .. imageCount - 1
      BY <2>1, Neighbours DEF NextIndex, LastIndex
    <2>3. imageCount > RingSize
      BY <2>1, <2>2 DEF OutOfRing
    <2>4. QED
      BY <2>3 DEF CountInv
  <1>2. size' \in Nat \X Nat
    BY DEF size, TypeOK
  <1>3. TypeOK'
    BY <1>1, <1>2 DEF TypeOK
  <1>4. (CountInv /\ UndefinedInv /\ RetiredInv)'
    BY DEF CountInv, UndefinedInv, RetiredInv
  <1>5. (NothingLost /\ RequestsAllowed /\ CreatedFromCurrent)'
    BY DEF NothingLost, RequestsAllowed, CreatedFromCurrent
  <1>6. QED
    BY <1>3, <1>4, <1>5

\* What every attempt shares: it counts, and asks before it can fail.
LEMMA BeginFacts ==
    ASSUME IInv, Begin
    PROVE  /\ pc = "run" /\ resized = TRUE /\ ~ OutOfRing
           /\ creations \in Nat /\ creations + 1 \in 0 .. MaxCreations
           /\ currentSwapchain \in Index
           /\ \A h \in live : h[2] \in 1 .. creations
           /\ retired \subseteq 1 .. creations
           /\ wild \in BOOLEAN /\ failed \in BOOLEAN /\ reused \in BOOLEAN
  <1>1. /\ pc = "run" /\ resized /\ ~ OutOfRing /\ creations < MaxCreations
        /\ MaxCreations \in Nat
    BY RingAssumption DEF Begin
  <1>2. resized \in BOOLEAN
    BY DEF IInv, TypeOK
  <1>3. QED
    BY <1>1, <1>2, TypeFacts DEF IInv

\* Types from their parts, for the steps of a creation.
LEMMA TypeFromParts ==
    ASSUME IInv, Begin, NEW c \in Surfaces, Ask(c), pc' = "run", resized' \in BOOLEAN,
           swapchainData' \in [Index -> Data], currentSwapchain' \in Index,
           creations' = creations + 1, retired' \subseteq 1 .. creations',
           \A h \in live' : h[2] \in 1 .. creations',
           failed' \in BOOLEAN, wild' \in BOOLEAN, reused' \in BOOLEAN
    PROVE  TypeOK' /\ CountInv'
  <1>1. /\ CountInv' /\ imageCount' \in Nat \ {0}
        /\ layerCount' \in 1 .. LayerCount /\ size' \in Nat \X Nat
        /\ demanded' \in BOOLEAN
    BY AskFacts
  <1>2. creations' \in 0 .. MaxCreations
    BY BeginFacts
  <1>3. imageCount' > RingSize => demanded'
    BY <1>1 DEF CountInv
  <1>4. {demanded', failed', wild', reused'} \subseteq BOOLEAN
    BY <1>1
  <1>5. QED
    BY <1>1, <1>2, <1>3, <1>4 DEF TypeOK, Index

LEMMA NoPresentModeLemma ==
    ASSUME IInv, NextFrameFails_NoPresentMode
    PROVE  IInv'
  <1> USE DEF IInv
  <1>1. PICK c \in Surfaces : Ask(c)
    BY DEF NextFrameFails_NoPresentMode
  <1>2. /\ Begin /\ Undefine
        /\ swapchainData' = Survivors /\ live' = Remaining
        /\ creations' = creations + 1
        /\ UNCHANGED <<pc, resized, currentSwapchain, retired, request, failed, reused>>
    BY DEF NextFrameFails_NoPresentMode
  <1>3. /\ pc = "run" /\ resized = TRUE /\ ~ OutOfRing
        /\ creations \in Nat /\ currentSwapchain \in Index
        /\ \A h \in live : h[2] \in 1 .. creations
        /\ retired \subseteq 1 .. creations
        /\ failed \in BOOLEAN /\ reused \in BOOLEAN
    BY <1>2, BeginFacts
  <1>4. /\ Survivors \in [Index -> Data]
        /\ Survivors[currentSwapchain] = swapchainData[currentSwapchain]
        /\ Keeps(Survivors, Remaining) /\ Remaining \subseteq live
        /\ \A i \in Index : Undefined(Survivors[i]) => failed
        /\ wild' \in BOOLEAN /\ (wild' => failed)
    BY <1>2, <1>3, SurvivorsFacts
  <1>5. retired' \subseteq 1 .. creations' /\ \A h \in live' : h[2] \in 1 .. creations'
    BY <1>2, <1>3, <1>4
  <1>6. TypeOK' /\ CountInv'
    BY <1>1, <1>2, <1>3, <1>4, <1>5, TypeFromParts
  <1>7. UndefinedInv' /\ RetiredInv'
    BY <1>2, <1>4 DEF UndefinedInv, RetiredInv
  <1>8. NothingLost'
    BY <1>2, <1>4, KeepsIsNothingLost DEF NothingLost, Keeps
  <1>9. RequestsAllowed'
    BY <1>2 DEF RequestsAllowed
  <1>10. CreatedFromCurrent'
    <2>1. retired # {} =>
            <<"swapchain", Survivors[currentSwapchain].swapchain, 0>> \in Remaining
      <3> DEFINE old == Survivors[currentSwapchain].swapchain
                 h == <<"swapchain", old, 0>>
      <3>1. h[2] = old
        OBVIOUS
      <3>2. retired # {} => h \in live
        BY <1>3, <1>4 DEF CreatedFromCurrent
      <3>3. retired # {} => old # 0
        BY <1>3, <3>1, <3>2
      <3>4. h \in Handles(Survivors[currentSwapchain])
        BY DEF Handles
      <3>5. retired # {} => h \in Named(Survivors[currentSwapchain])
        BY <3>1, <3>3, <3>4 DEF Named
      <3>6. QED
        BY <1>3, <1>4, <3>5 DEF Keeps
    <2>2. QED
      BY <1>2, <1>3, <2>1 DEF CreatedFromCurrent
  <1>11. QED
    BY <1>6, <1>7, <1>8, <1>9, <1>10

LEMMA SwapchainFailsLemma ==
    ASSUME IInv, NextFrameFails_Swapchain
    PROVE  IInv'
  <1> USE DEF IInv
  <1>1. PICK c \in Surfaces : c.modes # {} /\ Ask(c) /\ request' = Request(c)
    BY DEF NextFrameFails_Swapchain
  <1>2. /\ Begin /\ Undefine /\ Retire
        /\ swapchainData' = Survivors /\ live' = Remaining
        /\ creations' = creations + 1 /\ failed' = TRUE
        /\ UNCHANGED <<pc, resized, currentSwapchain>>
    BY DEF NextFrameFails_Swapchain
  <1>3. /\ pc = "run" /\ resized = TRUE /\ ~ OutOfRing
        /\ creations \in Nat /\ currentSwapchain \in Index
        /\ \A h \in live : h[2] \in 1 .. creations
    BY <1>2, BeginFacts
  <1>4. /\ Survivors \in [Index -> Data]
        /\ Survivors[currentSwapchain] = swapchainData[currentSwapchain]
        /\ Keeps(Survivors, Remaining) /\ Remaining \subseteq live
        /\ wild' \in BOOLEAN
    BY <1>2, <1>3, SurvivorsFacts
  <1>5. /\ retired' \subseteq 1 .. creations
        /\ retired' # {} =>
             <<"swapchain", swapchainData[currentSwapchain].swapchain, 0>> \in Remaining
        /\ reused' \in BOOLEAN
    BY <1>2, <1>3, RetireFacts
  <1>6. retired' \subseteq 1 .. creations' /\ \A h \in live' : h[2] \in 1 .. creations'
    BY <1>2, <1>3, <1>4, <1>5
  <1>7. TypeOK' /\ CountInv'
    BY <1>1, <1>2, <1>3, <1>4, <1>5, <1>6, TypeFromParts
  <1>8. UndefinedInv' /\ RetiredInv'
    BY <1>2 DEF UndefinedInv, RetiredInv
  <1>9. NothingLost'
    BY <1>2, <1>4, KeepsIsNothingLost DEF NothingLost, Keeps
  <1>10. RequestsAllowed'
    BY <1>1, RequestFacts
  <1>11. CreatedFromCurrent'
    BY <1>2, <1>3, <1>4, <1>5 DEF CreatedFromCurrent
  <1>12. QED
    BY <1>7, <1>8, <1>9, <1>10, <1>11

LEMMA ObjectsFailLemma ==
    ASSUME IInv, NextFrameFails_Objects
    PROVE  IInv'
  <1> USE DEF IInv
  <1>1. PICK c \in Surfaces : c.modes # {} /\ Ask(c) /\ request' = Request(c)
    BY DEF NextFrameFails_Objects
  <1>2. /\ Begin /\ Retire /\ failed' = TRUE
        /\ UNCHANGED <<pc, resized, currentSwapchain>>
    BY DEF NextFrameFails_Objects
  <1>3. /\ pc = "run" /\ resized = TRUE /\ ~ OutOfRing
        /\ creations \in Nat /\ currentSwapchain \in Index
    BY <1>2, BeginFacts
  <1>4. \E made : Fresh(made, creations + 1) /\ Initialise(made)
    <2>1. creations + 1 \in Nat \ {0} /\ imageCount' \in Nat
      BY <1>1, <1>3, AskFacts
    <2>2. CASE Initialise([Null EXCEPT !.swapchain = creations + 1])
      BY <2>1, <2>2, OnlySwapchainFacts
    <2>3. ASSUME NEW extra \in ExtraImages, NEW n \in 0 .. All(imageCount' + extra) - 1,
                 Initialise(Made(creations + 1, imageCount' + extra, n))
          PROVE  \E made : Fresh(made, creations + 1) /\ Initialise(made)
      <3>0. extra \in Nat
        BY RingAssumption
      <3>1. imageCount' + extra \in Nat /\ n \in Nat
        <4>1. imageCount' + extra \in Nat
          BY <2>1, <3>0, SumFacts, Zenon
        <4>2. QED
          BY <4>1, AllFacts
      <3>2. Fresh(Made(creations + 1, imageCount' + extra, n), creations + 1)
        BY <2>1, <3>1, MadeFacts
      <3>3. QED
        BY <2>3, <3>2
    <2>4. QED
      BY <2>2, <2>3 DEF NextFrameFails_Objects
  <1>5. PICK made : Fresh(made, creations + 1) /\ Initialise(made)
    BY <1>4
  <1>6. /\ swapchainData' \in [Index -> Data]
        /\ swapchainData'[currentSwapchain] = swapchainData[currentSwapchain]
        /\ Keeps(swapchainData', live')
        /\ \A h \in live' : h[2] \in 1 .. creations + 1
        /\ Remaining \subseteq live'
        /\ creations' = creations + 1
        /\ wild' \in BOOLEAN
    BY <1>3, <1>5, InitialiseFacts
  <1>7. /\ retired' \subseteq 1 .. creations
        /\ retired' # {} =>
             <<"swapchain", swapchainData[currentSwapchain].swapchain, 0>> \in Remaining
        /\ reused' \in BOOLEAN
    BY <1>2, <1>3, RetireFacts
  <1>8. retired' \subseteq 1 .. creations' /\ \A h \in live' : h[2] \in 1 .. creations'
    BY <1>3, <1>6, <1>7
  <1>9. TypeOK' /\ CountInv'
    BY <1>1, <1>2, <1>3, <1>6, <1>7, <1>8, TypeFromParts
  <1>10. UndefinedInv' /\ RetiredInv'
    BY <1>2 DEF UndefinedInv, RetiredInv
  <1>11. NothingLost'
    BY <1>2, <1>6, KeepsIsNothingLost DEF NothingLost, Keeps
  <1>12. RequestsAllowed'
    BY <1>1, RequestFacts
  <1>13. CreatedFromCurrent'
    BY <1>2, <1>3, <1>6, <1>7 DEF CreatedFromCurrent
  <1>14. QED
    BY <1>9, <1>10, <1>11, <1>12, <1>13

\* A creation that succeeds makes every handle it names.
LEMMA NextFrameLemma ==
    ASSUME IInv, NextFrame
    PROVE  IInv'
  <1> USE DEF IInv
  <1>1. PICK c \in Surfaces : c.modes # {} /\ Ask(c) /\ request' = Request(c)
    BY DEF NextFrame
  <1>2. /\ Begin /\ Retire /\ currentSwapchain' = NextIndex /\ resized' = FALSE
        /\ UNCHANGED <<pc, failed>>
    BY DEF NextFrame
  <1>3. /\ pc = "run" /\ resized = TRUE /\ ~ OutOfRing
        /\ creations \in Nat /\ currentSwapchain \in Index
        /\ failed \in BOOLEAN
    BY <1>2, BeginFacts
  <1>4. \E made : Fresh(made, creations + 1) /\ ~ Undefined(made) /\ Initialise(made)
    <2>1. creations + 1 \in Nat \ {0} /\ imageCount' \in Nat
      BY <1>1, <1>3, AskFacts
    <2>2. PICK extra \in ExtraImages :
            Initialise(Made(creations + 1, imageCount' + extra, All(imageCount' + extra)))
      BY DEF NextFrame
    <2>3. imageCount' + extra \in Nat /\ All(imageCount' + extra) \in Nat
      <3>1. extra \in Nat
        BY RingAssumption
      <3>2. imageCount' + extra \in Nat
        BY <2>1, <3>1, SumFacts, Zenon
      <3>3. QED
        BY <3>2, AllFacts
    <2>4. QED
      BY <2>1, <2>2, <2>3, MadeFacts
  <1>5. PICK made : Fresh(made, creations + 1) /\ ~ Undefined(made) /\ Initialise(made)
    BY <1>4
  <1>6. /\ swapchainData' \in [Index -> Data]
        /\ swapchainData'[NextIndex] = made
        /\ Keeps(swapchainData', live')
        /\ \A h \in live' : h[2] \in 1 .. creations + 1
        /\ Named(made) \subseteq live'
        /\ creations' = creations + 1
        /\ \A i \in Index : Undefined(swapchainData'[i]) => failed
        /\ wild' \in BOOLEAN /\ (wild' => failed)
        /\ NextIndex \in Index
    BY <1>3, <1>5, InitialiseFacts, SurvivorsFacts
  <1>7. /\ retired' \subseteq 1 .. creations
        /\ reused' \in BOOLEAN /\ (reused' => failed)
    BY <1>2, <1>3, RetireFacts
  <1>8. retired' \subseteq 1 .. creations' /\ \A h \in live' : h[2] \in 1 .. creations'
    BY <1>3, <1>6, <1>7
  <1>9. TypeOK' /\ CountInv'
    BY <1>1, <1>2, <1>3, <1>6, <1>7, <1>8, TypeFromParts
  <1>10. made.swapchain = creations + 1
    BY <1>5 DEF Fresh
  <1>11. UndefinedInv' /\ RetiredInv'
    <2>1. creations + 1 \notin retired'
      BY <1>3, <1>7
    <2>2. QED
      BY <1>2, <1>6, <1>10, <2>1 DEF UndefinedInv, RetiredInv
  <1>12. NothingLost'
    BY <1>2, <1>6, KeepsIsNothingLost DEF NothingLost, Keeps
  <1>13. RequestsAllowed'
    BY <1>1, RequestFacts
  <1>14. CreatedFromCurrent'
    <2> DEFINE h == <<"swapchain", made.swapchain, 0>>
    <2>1. h \in Named(made)
      <3>1. h \in Handles(made)
        BY DEF Handles
      <3>2. h[2] = made.swapchain /\ made.swapchain # 0
        BY <1>3, <1>10
      <3>3. QED
        BY <3>1, <3>2 DEF Named
    <2>2. made.swapchain \in 1 .. creations'
      BY <1>3, <1>6, <1>10
    <2>3. QED
      BY <1>2, <1>6, <1>7, <2>1, <2>2 DEF CreatedFromCurrent
  <1>15. QED
    BY <1>9, <1>11, <1>12, <1>13, <1>14

LEMMA DeinitLemma ==
    ASSUME IInv, Deinit
    PROVE  IInv'
  <1> USE DEF IInv
  <1>1. /\ pc' = "done"
        /\ live' = live \ UNION {Named(swapchainData[i]) : i \in DOMAIN swapchainData}
        /\ wild' = (wild \/ \E i \in DOMAIN swapchainData : Undefined(swapchainData[i]))
        /\ swapchainData' = [i \in DOMAIN swapchainData |-> Null]
        /\ UNCHANGED <<resized, size, imageCount, layerCount, currentSwapchain,
                       creations, retired, request, demanded, failed, reused>>
    BY DEF Deinit
  <1>2. /\ swapchainData \in [Index -> Data] /\ currentSwapchain \in Index
        /\ retired \subseteq 1 .. creations /\ creations \in Nat
        /\ wild \in BOOLEAN
    BY TypeFacts
  <1>3. DOMAIN swapchainData = Index
    BY <1>2
  <1>4. /\ swapchainData' \in [Index -> Data]
        /\ \A i \in Index : swapchainData'[i] = Null
    BY <1>1, <1>3, NullFacts
  <1>5. live' = {}
    BY <1>1 DEF NothingLost
  <1>6. wild' \in BOOLEAN /\ (wild' => failed)
    <2>1. \A i \in Index : Undefined(swapchainData[i]) => failed
      BY DEF UndefinedInv
    <2>2. wild => failed
      BY DEF UndefinedInv
    <2>3. QED
      BY <1>1, <1>2, <1>3, <2>1, <2>2
  <1>7. TypeOK'
    <2>1. demanded \in BOOLEAN /\ failed \in BOOLEAN /\ reused \in BOOLEAN
      BY TypeFacts
    <2>2. size' \in Nat \X Nat
      BY <1>1 DEF TypeOK
    <2>3. {demanded', failed', wild', reused'} \subseteq BOOLEAN
      BY <1>1, <1>6, <2>1
    <2>4. imageCount' > RingSize => demanded'
      BY <1>1 DEF CountInv
    <2>5. QED
      BY <1>1, <1>4, <1>5, <2>2, <2>3, <2>4 DEF TypeOK, Index
  <1>8. NothingLost'
    <2>1. Keeps(swapchainData', live')
      BY <1>4, <1>5, NullFacts DEF Keeps
    <2>2. QED
      BY <1>1, <1>4, <1>6, <2>1 DEF NothingLost, Keeps
  <1>9. (CountInv /\ UndefinedInv)'
    BY <1>1, <1>4, <1>6, NullFacts DEF CountInv, UndefinedInv
  <1>10. RetiredInv'
    <2>1. Null.swapchain = 0 /\ 0 \notin retired
      BY <1>2 DEF Null
    <2>2. QED
      BY <1>1, <1>2, <1>4, <2>1 DEF RetiredInv
  <1>11. (RequestsAllowed /\ CreatedFromCurrent)'
    BY <1>1 DEF RequestsAllowed, CreatedFromCurrent
  <1>12. QED
    BY <1>7, <1>8, <1>9, <1>10, <1>11

LEMMA StepLemma == IInv /\ [Next]_vars => IInv'
  <1> SUFFICES ASSUME IInv, [Next]_vars PROVE IInv'
    OBVIOUS
  <1>1. CASE UNCHANGED vars
    BY <1>1
    DEF vars, size, ring, device, history, IInv, TypeOK, CountInv, UndefinedInv, RetiredInv,
        NothingLost, RequestsAllowed, CreatedFromCurrent
  <1>2. CASE Ended
    BY <1>1, <1>2 DEF Ended
  <1>3. QED
    BY <1>1, <1>2, ResizeLemma, NextFramePanicsLemma, NoPresentModeLemma, SwapchainFailsLemma,
       ObjectsFailLemma, NextFrameLemma, DeinitLemma DEF Next

----------------------------------------------------------------------------
\* The types, and that the index leaves the ring only after a surface has asked
\* for more images than the ring was made for.
THEOREM TypeCorrect == Spec => []TypeOK
  <1>1. IInv => TypeOK
    BY DEF IInv
  <1>2. QED
    BY InitLemma, StepLemma, <1>1, PTL DEF Spec

\* Whatever call of a creation fails, no object is lost or named twice.
THEOREM NothingLostCorrect == Spec => []NothingLost
  <1>1. IInv => NothingLost
    BY DEF IInv
  <1>2. QED
    BY InitLemma, StepLemma, <1>1, PTL DEF Spec

\* The images, layers, extent and mode asked of a surface are some it allows,
\* but for the least number of images of one without a greatest; the way to
\* composite alpha is, where it composites opaquely.
THEOREM RequestsAllowedCorrect == Spec => []RequestsAllowed
  <1>1. IInv => RequestsAllowed
    BY DEF IInv
  <1>2. QED
    BY InitLemma, StepLemma, <1>1, PTL DEF Spec

\* The current swapchain is alive when the next is created from it, once.
THEOREM CreatedFromCurrentCorrect == Spec => []CreatedFromCurrent
  <1>1. IInv => CreatedFromCurrent
    BY DEF IInv
  <1>2. QED
    BY InitLemma, StepLemma, <1>1, PTL DEF Spec
=============================================================================
