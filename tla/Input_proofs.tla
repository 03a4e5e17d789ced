---------------------------- MODULE Input_proofs ----------------------------
(***************************************************************************)
(* Proofs about Input, for any keys, sizes, positions and nesting.  Every  *)
(* property is about the end of a chain of systems, so the invariant says  *)
(* what is true half way down it: what a key still has to tell the camera, *)
(* and who has read a change of the size already.                          *)
(***************************************************************************)
EXTENDS Input, SequenceTheorems, TLAPS

KeyState == [isPress : BOOLEAN, isRelease : BOOLEAN, isHold : BOOLEAN]

\* Callbacks run in the poll only.
InPoll == callbacks # << >> => pc = "poll"

\* What a key has told the camera and is still to tell it is whether it moves.
KeysTold ==
    /\ pc \in {"poll", "fov", "editor", "controllers"} =>
         \A k \in Moves :
           k \in down /\ k \notin dropped
             <=> (k \in moving \/ keyStates[k].isPress) /\ ~ keyStates[k].isRelease
    /\ MovesWhileHeld

\* The editor's system has taken the mouse away before the controllers read it.
MouseTaken ==
    /\ pc = "controllers" /\ inEditor => deltaMouse = 0
    /\ EditorHoldsCamera

\* Who runs before pc has read the size in InputState.  A surface without an
\* extent of its own leaves Viewport the size it was given.
Given == pc \in {"editor", "controllers", "begin", "store", "clear"}

SizeRead ==
    /\ Given /\ ~ lost /\ ~ recreate /\ ~ early => swapchain = viewport
    /\ ~ decides /\ ~ lost /\ (Given \/ ~ resized) => extent = viewport
    /\ pc = "clear" /\ ~ lost => readBack = viewport
    /\ ReadBackFits
    /\ SwapchainFits
    /\ DrawnInFull

IInv == TypeOK /\ InPoll /\ KeysTold /\ MouseTaken /\ SizeRead /\ SizeIsWindows

----------------------------------------------------------------------------
LEMMA InitLemma == Init => IInv
  <1> SUFFICES ASSUME Init PROVE IInv
    OBVIOUS
  <1>1. TypeOK
    <2>1. keyStates \in [Key -> [isPress : BOOLEAN, isRelease : BOOLEAN, isHold : BOOLEAN]]
      BY DEF Init, Idle
    <2>2. notices \in Nat /\ notices + Len(callbacks) <= MaxNested
      BY NestedAssumption DEF Init
    <2>3. callbacks \in Seq(Size \union {Minimised})
      BY DEF Init
    <2>4. {deltaMouse, turn} \subseteq Int
      BY DEF Init
    <2>5. /\ {viewport, readBack} \subseteq Size
          /\ {extent, swapchain} \subseteq Size \union {Minimised}
          /\ window \in Size \union {Minimised}
          /\ mouse \in Position
      BY SizeAssumption, PositionAssumption DEF Init, NoSwapchain
    <2>6. QED
      BY <2>1, <2>2, <2>3, <2>4, <2>5 DEF Init, TypeOK
  <1>2. KeysTold
    BY DEF Init, KeysTold, MovesWhileHeld, Key, Idle
  <1>3. QED
    BY <1>1, <1>2
    DEF Init, IInv, InPoll, MouseTaken, EditorHoldsCamera, SizeRead, Given, ReadBackFits, SwapchainFits,
           DrawnInFull, SizeIsWindows

\* What the callbacks make of the state of a key.
LEMMA PressState ==
    ASSUME NEW S, NEW f \in [S -> KeyState], NEW k \in S,
           NEW g, g = [f EXCEPT ![k].isPress = TRUE, ![k].isHold = TRUE]
    PROVE  /\ g \in [S -> KeyState]
           /\ g[k].isPress /\ g[k].isRelease = f[k].isRelease
           /\ \A j \in S \ {k} : g[j] = f[j]
  BY DEF KeyState

LEMMA ReleaseState ==
    ASSUME NEW S, NEW f \in [S -> KeyState], NEW k \in S,
           NEW g, g = [f EXCEPT ![k] = [Idle EXCEPT !.isRelease = TRUE]]
    PROVE  /\ g \in [S -> KeyState]
           /\ g[k].isRelease
           /\ \A j \in S \ {k} : g[j] = f[j]
  <1>1. /\ [Idle EXCEPT !.isRelease = TRUE] \in KeyState
        /\ [Idle EXCEPT !.isRelease = TRUE].isRelease
    BY DEF KeyState, Idle
  <1>2. QED
    BY <1>1

\* The edges of the keys and the mouse touch no size.
LEMMA PressLemma ==
    ASSUME IInv, NEW k \in Key, Press(k)
    PROVE  IInv'
  <1> USE DEF IInv, Press, glfw, input, view, users, history
  <1>0. keyStates \in [Key -> KeyState]
    BY DEF TypeOK, KeyState
  <1>1. keyStates' = [keyStates EXCEPT ![k].isPress = TRUE, ![k].isHold = TRUE]
    OBVIOUS
  <1>2. /\ keyStates' \in [Key -> KeyState]
        /\ keyStates'[k].isPress /\ keyStates'[k].isRelease = keyStates[k].isRelease
        /\ \A j \in Key \ {k} : keyStates'[j] = keyStates[j]
    BY <1>0, <1>1, PressState
  <1>3. TypeOK'
    BY <1>2 DEF TypeOK, KeyState
  <1>4. KeysTold'
    <2>1. \A j \in Moves : j \in Key
      BY DEF Key
    <2>2. ASSUME NEW j \in Moves
          PROVE  (j \in down /\ j \notin dropped
             <=> (j \in moving \/ keyStates[j].isPress) /\ ~ keyStates[j].isRelease)'
      <3>1. CASE j = k
        BY <1>1, <1>2, <3>1
      <3>2. CASE j # k
        BY <1>2, <2>1, <3>2 DEF KeysTold
      <3>3. QED
        BY <3>1, <3>2
    <2>3. QED
      BY <2>2 DEF KeysTold, MovesWhileHeld
  <1>5. (InPoll /\ MouseTaken /\ SizeRead /\ SizeIsWindows)'
    BY DEF InPoll, MouseTaken, EditorHoldsCamera, SizeRead, Given, ReadBackFits, SwapchainFits,
           DrawnInFull, SizeIsWindows
  <1>6. QED
    BY <1>3, <1>4, <1>5

LEMMA ReleaseLemma ==
    ASSUME IInv, NEW k \in Key, Release(k)
    PROVE  IInv'
  <1> USE DEF IInv, Release, glfw, input, view, users, history
  <1>0. keyStates \in [Key -> KeyState]
    BY DEF TypeOK, KeyState
  <1>1. keyStates' = [keyStates EXCEPT ![k] = [Idle EXCEPT !.isRelease = TRUE]]
    OBVIOUS
  <1>2. /\ keyStates' \in [Key -> KeyState]
        /\ keyStates'[k].isRelease
        /\ \A j \in Key \ {k} : keyStates'[j] = keyStates[j]
    BY <1>0, <1>1, ReleaseState
  <1>3. TypeOK'
    BY <1>2 DEF TypeOK, KeyState
  <1>4. KeysTold'
    <2>1. \A j \in Moves : j \in Key
      BY DEF Key
    <2>2. ASSUME NEW j \in Moves
          PROVE  (j \in down /\ j \notin dropped
             <=> (j \in moving \/ keyStates[j].isPress) /\ ~ keyStates[j].isRelease)'
      <3>1. CASE j = k
        BY <1>2, <3>1
      <3>2. CASE j # k
        BY <1>2, <2>1, <3>2 DEF KeysTold
      <3>3. QED
        BY <3>1, <3>2
    <2>3. QED
      BY <2>2 DEF KeysTold, MovesWhileHeld
  <1>5. (InPoll /\ MouseTaken /\ SizeRead /\ SizeIsWindows)'
    BY DEF InPoll, MouseTaken, EditorHoldsCamera, SizeRead, Given, ReadBackFits, SwapchainFits,
           DrawnInFull, SizeIsWindows
  <1>6. QED
    BY <1>3, <1>4, <1>5

LEMMA MoveMouseLemma ==
    ASSUME IInv, NEW p \in Position, MoveMouse(p)
    PROVE  IInv'
  <1> USE DEF IInv, MoveMouse, glfw, input, view, users, history
  <1>1. TypeOK'
    BY PositionAssumption DEF TypeOK
  <1>2. (InPoll /\ KeysTold /\ MouseTaken /\ SizeRead /\ SizeIsWindows)'
    BY DEF InPoll, KeysTold, MovesWhileHeld, MouseTaken, EditorHoldsCamera,
           SizeRead, Given, ReadBackFits, SwapchainFits,
           DrawnInFull, SizeIsWindows
  <1>3. QED
    BY <1>1, <1>2

----------------------------------------------------------------------------
\* A size handed to onWindowResize keeps those who read it informed.
LEMMA OnWindowResizeLemma ==
    ASSUME IInv, pc = "poll", NEW s \in Size, OnWindowResize(s),
           UNCHANGED <<pc, view, readBack, early>>
    PROVE  /\ viewport' \in Size /\ resized' \in BOOLEAN /\ lost' \in BOOLEAN
           /\ viewport' = s
           /\ SizeRead'
  BY DEF IInv, TypeOK, OnWindowResize, view, SizeRead, Given, ReadBackFits, SwapchainFits, DrawnInFull

\* Whatever leaves the keys, the mouse and the system alone leaves this.
LEMMA KeysAlone ==
    ASSUME IInv,
           UNCHANGED <<down, keyStates, mouse, deltaMouse, pc, inEditor, moving, turn, dropped>>
    PROVE  (KeysTold /\ MouseTaken)'
  BY DEF IInv, KeysTold, MovesWhileHeld, MouseTaken, EditorHoldsCamera

LEMMA ResizeLemma ==
    ASSUME IInv, NEW s \in Size \union {Minimised}, Resize(s)
    PROVE  IInv'
  <1> USE DEF IInv, Resize, glfw, input, view, users, history
  <1>1. TypeOK'
    BY NestedAssumption DEF TypeOK
  <1>2. (KeysTold /\ MouseTaken)'
    BY KeysAlone
  <1>3. (InPoll /\ SizeRead /\ SizeIsWindows)'
    BY NestedAssumption DEF TypeOK, InPoll, SizeRead, Given, ReadBackFits, SwapchainFits,
           DrawnInFull, SizeIsWindows
  <1>4. QED
    BY <1>1, <1>2, <1>3

LEMMA NoticeLemma ==
    ASSUME IInv, Notice
    PROVE  IInv'
  <1> USE DEF IInv
  <1>1. /\ pc = "poll" /\ notices > 0 /\ notices' = notices - 1
        /\ notices' \in Nat
        /\ UNCHANGED <<down, window, pc, view, users, dropped, early>>
    BY NestedAssumption DEF Notice, TypeOK
  <1>2. CASE ReportSize
    <2>1. /\ window \in Size /\ OnWindowResize(window)
          /\ UNCHANGED callbacks
          /\ origin' \in {"poll", "wait"}
      BY <1>2 DEF ReportSize, TypeOK
    <2>2. /\ viewport' \in Size /\ resized' \in BOOLEAN /\ lost' \in BOOLEAN
          /\ viewport' = window
          /\ SizeRead'
      BY <1>1, <2>1, OnWindowResizeLemma DEF users
    <2>3. TypeOK'
      <3>1. notices \in Nat /\ Len(callbacks) \in Nat /\ notices + Len(callbacks) <= MaxNested
        BY DEF TypeOK
      <3>2. notices' + Len(callbacks') <= MaxNested
        BY <1>1, <2>1, <3>1, NestedAssumption
      <3>3. QED
        BY <1>1, <2>1, <2>2, <3>2 DEF TypeOK, OnWindowResize, view, users
    <2>4. (KeysTold /\ MouseTaken)'
      BY <1>1, <2>1, KeysAlone DEF OnWindowResize, users
    <2>5. (InPoll /\ SizeIsWindows)'
      BY <1>1, <2>1, <2>2 DEF InPoll, SizeIsWindows
    <2>6. QED
      BY <2>2, <2>3, <2>4, <2>5
  <1>3. CASE ReportMinimised
    <2>1. /\ callbacks \in Seq(Size \union {Minimised})
          /\ notices \in Nat /\ notices + Len(callbacks) <= MaxNested
          /\ callbacks' = Append(callbacks, Minimised)
          /\ UNCHANGED <<input, lost, origin>>
      BY <1>3 DEF ReportMinimised, Notice, TypeOK
    <2>2. /\ callbacks' \in Seq(Size \union {Minimised})
          /\ Len(callbacks') = Len(callbacks) + 1 /\ Len(callbacks) \in Nat
          /\ callbacks' # << >>
      BY <2>1
    <2>3. TypeOK'
      <3>1. notices' + Len(callbacks') <= MaxNested
        BY <1>1, <2>1, <2>2, NestedAssumption
      <3>2. QED
        BY <1>1, <2>1, <2>2, <3>1 DEF TypeOK, input, view, users
    <2>4. (KeysTold /\ MouseTaken)'
      BY <1>1, <2>1, KeysAlone DEF input, users
    <2>5. (InPoll /\ SizeRead /\ SizeIsWindows)'
      BY <1>1, <2>1, <2>2
      DEF InPoll, SizeRead, Given, ReadBackFits, SwapchainFits, DrawnInFull, SizeIsWindows,
          input, view, users
    <2>6. QED
      BY <2>3, <2>4, <2>5
  <1>4. QED
    BY <1>2, <1>3 DEF Notice

LEMMA WaitAgainLemma ==
    ASSUME IInv, WaitAgain
    PROVE  IInv'
  <1> USE DEF IInv
  <1>1. /\ callbacks \in Seq(Size \union {Minimised}) /\ callbacks # << >>
        /\ window \in Size \union {Minimised}
        /\ callbacks' = [callbacks EXCEPT ![Len(callbacks)] = window]
        /\ UNCHANGED <<down, window, notices, input, pc, view, users, history>>
    BY DEF WaitAgain, TypeOK
  <1>2. /\ callbacks' \in Seq(Size \union {Minimised})
        /\ Len(callbacks') = Len(callbacks) /\ callbacks' # << >>
    BY <1>1
  <1>3. TypeOK'
    BY <1>1, <1>2 DEF TypeOK, input, view, users, history
  <1>4. (KeysTold /\ MouseTaken)'
    BY <1>1, KeysAlone DEF input, users, history
  <1>5. (InPoll /\ SizeRead /\ SizeIsWindows)'
    BY <1>1, <1>2 DEF InPoll, SizeRead, Given, ReadBackFits, SwapchainFits,
           DrawnInFull, SizeIsWindows, input, view, users, history
  <1>6. QED
    BY <1>3, <1>4, <1>5

LEMMA LastOfSeq ==
    ASSUME NEW S, NEW s \in Seq(S), s # << >>
    PROVE  /\ Len(s) \in Nat \ {0} /\ s[Len(s)] \in S
           /\ SubSeq(s, 1, Len(s) - 1) \in Seq(S)
           /\ Len(SubSeq(s, 1, Len(s) - 1)) = Len(s) - 1
  <1>1. Len(s) \in Nat \ {0} /\ s[Len(s)] \in S
    OBVIOUS
  <1>2. \A i \in 1 .. Len(s) - 1 : s[i] \in S
    BY <1>1
  <1>3. /\ SubSeq(s, 1, Len(s) - 1) \in Seq(S)
        /\ Len(SubSeq(s, 1, Len(s) - 1)) =
             IF 1 <= Len(s) - 1 THEN Len(s) - 1 - 1 + 1 ELSE 0
    BY <1>1, <1>2, SubSeqProperties
  <1>4. (IF 1 <= Len(s) - 1 THEN Len(s) - 1 - 1 + 1 ELSE 0) = Len(s) - 1
    BY <1>1
  <1>5. QED
    BY <1>1, <1>3, <1>4, Zenon

LEMMA WaitDoneLemma ==
    ASSUME IInv, WaitDone
    PROVE  IInv'
  <1> USE DEF IInv
  <1> DEFINE n == Len(callbacks)
  <1>1. /\ callbacks \in Seq(Size \union {Minimised}) /\ notices \in Nat /\ notices + n <= MaxNested
        /\ n \in Nat \ {0}
        /\ callbacks[n] \in Size
    <2>1. /\ callbacks \in Seq(Size \union {Minimised}) /\ callbacks # << >>
          /\ notices \in Nat /\ notices + n <= MaxNested
      BY DEF WaitDone, TypeOK
    <2>2. n \in Nat \ {0} /\ callbacks[n] \in Size \union {Minimised}
      BY <2>1, LastOfSeq
    <2>3. QED
      BY <2>1, <2>2 DEF WaitDone
  <1>2. /\ OnWindowResize(callbacks[n])
        /\ callbacks' = SubSeq(callbacks, 1, n - 1)
        /\ origin' = "wait"
        /\ UNCHANGED <<down, window, notices, pc, view, users, dropped, early>>
    BY DEF WaitDone
  <1>3. callbacks' \in Seq(Size \union {Minimised}) /\ notices' + Len(callbacks') <= MaxNested
    <2>1. Len(callbacks') = n - 1 /\ callbacks' \in Seq(Size \union {Minimised})
      BY <1>1, <1>2, LastOfSeq
    <2>2. QED
      BY <2>1, <1>1, <1>2, NestedAssumption
  <1>4. pc = "poll"
    BY DEF WaitDone, InPoll
  <1>5. /\ viewport' \in Size /\ resized' \in BOOLEAN /\ lost' \in BOOLEAN
        /\ SizeRead'
    BY <1>1, <1>2, <1>4, OnWindowResizeLemma DEF users
  <1>6. TypeOK'
    BY <1>1, <1>2, <1>3, <1>5 DEF TypeOK, OnWindowResize, view, users
  <1>7. (KeysTold /\ MouseTaken)'
    BY <1>2, KeysAlone DEF OnWindowResize, users
  <1>8. (InPoll /\ SizeIsWindows)'
    BY <1>2, <1>4 DEF InPoll, SizeIsWindows
  <1>9. QED
    BY <1>5, <1>6, <1>7, <1>8

----------------------------------------------------------------------------
LEMMA EndPollLemma ==
    ASSUME IInv, EndPoll
    PROVE  IInv'
  <1> USE DEF IInv, EndPoll, glfw, input, view, users, history
  <1>1. TypeOK'
    BY DEF TypeOK
  <1>2. (InPoll /\ KeysTold /\ MouseTaken /\ SizeRead /\ SizeIsWindows)'
    BY DEF InPoll, KeysTold, MovesWhileHeld, MouseTaken, EditorHoldsCamera,
           SizeRead, Given, ReadBackFits, SwapchainFits,
           DrawnInFull, SizeIsWindows
  <1>3. QED
    BY <1>1, <1>2

LEMMA UpdateFOVLemma ==
    ASSUME IInv, UpdateFOV
    PROVE  IInv'
  <1> USE DEF IInv, UpdateFOV, glfw, input, view, users, history
  <1>1. TypeOK'
    BY DEF TypeOK
  <1>2. (InPoll /\ KeysTold /\ MouseTaken /\ SizeRead /\ SizeIsWindows)'
    BY DEF InPoll, KeysTold, MovesWhileHeld, MouseTaken, EditorHoldsCamera,
           SizeRead, Given, ReadBackFits, SwapchainFits,
           DrawnInFull, SizeIsWindows
  <1>3. QED
    BY <1>1, <1>2

\* F1 is no key of the camera, so that the camera loses nothing.
LEMMA EditorOnEventLemma ==
    ASSUME IInv, EditorOnEvent
    PROVE  IInv'
  <1> USE DEF IInv, EditorOnEvent, glfw, input, view, users, history
  <1>1. /\ keyStates \in [Key -> KeyState] /\ Idle \in KeyState
        /\ F1 \in Key
        /\ \A k \in Moves : k \in Key /\ k # F1
    BY KeysAssumption DEF TypeOK, KeyState, Idle, Key
  <1>2. /\ keyStates' \in [Key -> KeyState]
        /\ \A k \in Moves : keyStates'[k] = keyStates[k]
    BY <1>1
  <1>3. keyStates[F1].isPress \in BOOLEAN
    BY <1>1 DEF KeyState
  <1>4. /\ deltaMouse' = IF inEditor' THEN 0 ELSE deltaMouse
        /\ inEditor' \in BOOLEAN /\ deltaMouse' \in Int
    BY <1>3 DEF TypeOK
  <1>5. TypeOK'
    BY <1>2, <1>4 DEF TypeOK, KeyState
  <1>6. KeysTold'
    BY <1>2 DEF KeysTold, MovesWhileHeld
  <1>7. (InPoll /\ MouseTaken /\ SizeRead /\ SizeIsWindows)'
    BY <1>4 DEF InPoll, MouseTaken, EditorHoldsCamera, SizeRead, Given, ReadBackFits, SwapchainFits,
           DrawnInFull, SizeIsWindows
  <1>8. QED
    BY <1>5, <1>6, <1>7

LEMMA UpdateControllersLemma ==
    ASSUME IInv, UpdateControllers
    PROVE  IInv'
  <1> USE DEF IInv, UpdateControllers, glfw, input, view, users, history
  <1>1. moving \subseteq Moves /\ deltaMouse \in Int
    BY DEF TypeOK
  <1>2. moving' \subseteq Moves
    BY <1>1
  <1>3. TypeOK'
    BY <1>1, <1>2 DEF TypeOK
  <1>4. KeysTold'
    <2>1. \A k \in Moves :
            k \in moving' <=> (k \in moving \/ keyStates[k].isPress) /\ ~ keyStates[k].isRelease
      OBVIOUS
    <2>2. QED
      BY <1>2, <2>1 DEF KeysTold, MovesWhileHeld
  <1>5. (InPoll /\ MouseTaken /\ SizeRead /\ SizeIsWindows)'
    BY DEF InPoll, MouseTaken, EditorHoldsCamera, SizeRead, Given, ReadBackFits, SwapchainFits,
           DrawnInFull, SizeIsWindows
  <1>6. QED
    BY <1>3, <1>4, <1>5

\* A new swapchain has the size in InputState: either the surface left it what
\* it was given, or the window has that size still.
LEMMA NextFrameLemma ==
    ASSUME IInv, NextFrame
    PROVE  IInv'
  <1> USE DEF IInv, glfw, input, view, users, history
  <1>1. /\ pc = "begin" /\ pc' = "store"
        /\ UNCHANGED <<glfw, input, decides, users, dropped, lost, origin>>
    BY DEF NextFrame
  <1>2. CASE recreate
    <2>1. /\ SurfaceExtent # Minimised
          /\ extent' = SurfaceExtent /\ swapchain' = SurfaceExtent
          /\ recreate' = FALSE
          /\ early' = (decides /\ window # viewport)
      BY <1>2 DEF NextFrame
    <2>2. SurfaceExtent \in Size \union {Minimised}
      BY DEF TypeOK, SurfaceExtent
    <2>3. (SwapchainFits /\ DrawnInFull)'
      <3>1. ASSUME ~ lost', ~ early' PROVE swapchain' = viewport'
        <4>1. CASE decides
          BY <1>1, <2>1, <3>1, <4>1 DEF SurfaceExtent
        <4>2. CASE ~ decides
          BY <1>1, <2>1, <3>1, <4>2 DEF SurfaceExtent, SizeRead, Given
        <4>3. QED
          BY <4>1, <4>2
      <3>2. QED
        BY <2>1, <3>1 DEF SwapchainFits, DrawnInFull, NoSwapchain
    <2>4. SizeRead'
      <3>1. ~ decides' /\ ~ lost' /\ (Given \/ ~ resized)' => extent' = viewport'
        BY <1>1, <2>1 DEF SizeRead, Given, SurfaceExtent
      <3>2. Given' /\ ~ lost' /\ ~ recreate' /\ ~ early' => swapchain' = viewport'
        <4>1. CASE decides
          BY <1>1, <2>1, <4>1 DEF SurfaceExtent
        <4>2. CASE ~ decides
          BY <1>1, <2>1, <4>2 DEF SurfaceExtent, SizeRead, Given
        <4>3. QED
          BY <4>1, <4>2
      <3>3. QED
        BY <1>1, <2>3, <3>1, <3>2 DEF SizeRead, ReadBackFits
    <2>5. TypeOK'
      <3>1. early' \in BOOLEAN /\ recreate' \in BOOLEAN
        BY <2>1
      <3>2. QED
        BY <1>1, <2>1, <2>2, <3>1 DEF TypeOK
    <2>6. (InPoll /\ KeysTold /\ MouseTaken /\ SizeIsWindows)'
      BY <1>1 DEF InPoll, KeysTold, MovesWhileHeld, MouseTaken, EditorHoldsCamera, SizeIsWindows
    <2>7. QED
      BY <2>4, <2>5, <2>6
  <1>3. CASE ~ recreate
    <2>1. UNCHANGED <<extent, swapchain, recreate, early>>
      BY <1>3 DEF NextFrame
    <2>2. TypeOK'
      BY <1>1, <2>1 DEF TypeOK
    <2>3. (InPoll /\ KeysTold /\ MouseTaken /\ SizeRead /\ SizeIsWindows)'
      BY <1>1, <2>1
      DEF InPoll, KeysTold, MovesWhileHeld, MouseTaken, EditorHoldsCamera, SizeRead, Given,
          ReadBackFits, SwapchainFits, DrawnInFull, SizeIsWindows
    <2>4. QED
      BY <2>2, <2>3
  <1>4. QED
    BY <1>2, <1>3

LEMMA NextFrameFailsLemma ==
    ASSUME IInv, NextFrameFails
    PROVE  IInv'
  <1> USE DEF IInv, NextFrameFails, SurfaceExtent, glfw, input, view, users, history
  <1>1. TypeOK'
    BY DEF TypeOK
  <1>2. (InPoll /\ KeysTold /\ MouseTaken /\ SizeRead /\ SizeIsWindows)'
    BY DEF InPoll, KeysTold, MovesWhileHeld, MouseTaken, EditorHoldsCamera,
           SizeRead, Given, ReadBackFits, SwapchainFits, DrawnInFull, SizeIsWindows
  <1>3. QED
    BY <1>1, <1>2

LEMMA StartRenderIDsLemma ==
    ASSUME IInv, StartRenderIDs
    PROVE  IInv'
  <1> USE DEF IInv, StartRenderIDs, glfw, input, view, users, history
  <1>1. TypeOK'
    BY DEF TypeOK
  <1>2. (InPoll /\ KeysTold /\ MouseTaken /\ SizeRead /\ SizeIsWindows)'
    BY DEF InPoll, KeysTold, MovesWhileHeld, MouseTaken, EditorHoldsCamera,
           SizeRead, Given, ReadBackFits, SwapchainFits,
           DrawnInFull, SizeIsWindows
  <1>3. QED
    BY <1>1, <1>2

LEMMA ClearEventsLemma ==
    ASSUME IInv, ClearEvents
    PROVE  IInv'
  <1> USE DEF IInv, ClearEvents, glfw, input, view, users, history
  <1>1. keyStates \in [Key -> KeyState] /\ \A k \in Moves : k \in Key
    BY DEF TypeOK, KeyState, Key
  <1> DEFINE Cleared(k) == [Idle EXCEPT !.isHold = keyStates[k].isHold]
  <1>2. ASSUME NEW k \in Key
        PROVE  /\ Cleared(k) \in KeyState
               /\ ~ Cleared(k).isPress /\ ~ Cleared(k).isRelease
    <2>1. keyStates[k].isHold \in BOOLEAN
      BY <1>1 DEF KeyState
    <2>2. QED
      BY <2>1 DEF KeyState, Idle
  <1>3. /\ keyStates' \in [Key -> KeyState]
        /\ \A k \in Key : ~ keyStates'[k].isPress /\ ~ keyStates'[k].isRelease
    <2>1. keyStates' = [k \in Key |-> Cleared(k)]
      OBVIOUS
    <2> HIDE DEF Cleared
    <2>2. QED
      BY <1>2, <2>1
  <1>4. TypeOK'
    <2>1. /\ pc' = "poll" /\ deltaMouse' = 0 /\ resized' = FALSE
          /\ UNCHANGED <<glfw, mouse, viewport, view, users, history>>
      OBVIOUS
    <2> HIDE DEF ClearEvents, Cleared, Idle
    <2>2. keyStates' \in [Key -> [isPress : BOOLEAN, isRelease : BOOLEAN, isHold : BOOLEAN]]
      BY <1>3 DEF KeyState
    <2>3. deltaMouse' \in Int /\ turn' \in Int
      BY <2>1 DEF TypeOK
    <2>4. /\ resized' \in BOOLEAN /\ inEditor' \in BOOLEAN
          /\ recreate' \in BOOLEAN /\ decides' \in BOOLEAN
          /\ lost' \in BOOLEAN /\ early' \in BOOLEAN
      BY <2>1, Zenon DEF TypeOK
    <2>5. (callbacks \in Seq(Size \union {Minimised}) /\ notices + Len(callbacks) <= MaxNested)'
      BY <2>1 DEF TypeOK
    <2>6. QED
      BY <2>1, <2>2, <2>3, <2>4, <2>5 DEF TypeOK
  <1>5. KeysTold'
    <2>1. /\ moving = {k \in Moves : k \in down /\ k \notin dropped}
          /\ UNCHANGED <<moving, down, dropped>> /\ pc' = "poll"
      BY DEF KeysTold, MovesWhileHeld
    <2>2. QED
      BY <1>1, <1>3, <2>1 DEF KeysTold, MovesWhileHeld
  <1>6. (InPoll /\ MouseTaken /\ SizeRead /\ SizeIsWindows)'
    BY DEF InPoll, MouseTaken, EditorHoldsCamera, SizeRead, Given, ReadBackFits, SwapchainFits,
           DrawnInFull, SizeIsWindows
  <1>7. QED
    BY <1>4, <1>5, <1>6

----------------------------------------------------------------------------
LEMMA StepLemma == IInv /\ [Next]_vars => IInv'
  <1> SUFFICES ASSUME IInv, [Next]_vars PROVE IInv'
    OBVIOUS
  <1>1. CASE UNCHANGED vars
    BY <1>1
    DEF vars, glfw, input, view, users, history, IInv, TypeOK, InPoll, KeysTold, MovesWhileHeld,
        MouseTaken, EditorHoldsCamera, SizeRead, Given, ReadBackFits, SwapchainFits,
           DrawnInFull, SizeIsWindows
  <1>2. CASE Poll
    <2>1. ASSUME NEW k \in Key, Press(k) \/ Release(k) PROVE IInv'
      BY <2>1, PressLemma, ReleaseLemma
    <2>2. ASSUME NEW p \in Position, MoveMouse(p) PROVE IInv'
      BY <2>2, MoveMouseLemma
    <2>3. QED
      BY <1>2, <2>1, <2>2, NoticeLemma, WaitAgainLemma, WaitDoneLemma, EndPollLemma DEF Poll
  <1>3. ASSUME NEW s \in Size \union {Minimised}, Resize(s) PROVE IInv'
    BY <1>3, ResizeLemma
  <1>4. QED
    BY <1>1, <1>2, <1>3, UpdateFOVLemma, EditorOnEventLemma, UpdateControllersLemma,
       NextFrameLemma, NextFrameFailsLemma, StartRenderIDsLemma, ClearEventsLemma DEF Next

\* The types of all that is kept of the input, however deep callbacks nest.
THEOREM TypeCorrect == Spec => []TypeOK
  <1>1. IInv => TypeOK
    BY DEF IInv
  <1>2. QED
    BY InitLemma, StepLemma, <1>1, PTL DEF Spec

\* No key sticks, whatever edges one poll brings, and the editor takes the
\* mouse away from the camera in the frame it is entered.
THEOREM CameraObeysCorrect == Spec => []CameraObeys
  <1>1. IInv => CameraObeys
    BY DEF IInv, KeysTold, MouseTaken, CameraObeys
  <1>2. QED
    BY InitLemma, StepLemma, <1>1, PTL DEF Spec

\* The read-back buffer, the swapchain and the area drawn get every change of
\* the size in InputState, and that is the window's, but for the exceptions
\* named: a change overwritten in its poll, a swapchain still to be made anew or
\* made while a change was still to report, a size out of a wait or from before
\* the first report.
THEOREM SizeFollowsWindowCorrect == Spec => []SizeFollowsWindow
  <1>1. IInv => SizeFollowsWindow
    BY DEF IInv, SizeRead, SizeFollowsWindow
  <1>2. QED
    BY InitLemma, StepLemma, <1>1, PTL DEF Spec
=============================================================================
