------------------------------- MODULE Input -------------------------------
(***************************************************************************)
(* The input of the window: the GLFW callbacks that Viewport.init installs *)
(* (Graphics/Components/Viewport.zig) hand events to graphics.zig, which   *)
(* keeps them in InputState; the systems of the frame read InputState, in  *)
(* the order they were registered, and Clear Events ends the frame.        *)
(*                                                                         *)
(* Callbacks run inside glfwPollEvents, any number of them per frame.  The *)
(* resize callback of a minimised window calls glfwWaitEvents, so further  *)
(* callbacks run inside it.  The editor is loaded, as in a debug build.    *)
(* The close callback is in FrameLoop; isRepeat, which nothing reads, the  *)
(* cursor and the mouse button, which picks entities, are left out.  Of    *)
(* beginFrame there is here what it does to the size of the swapchain      *)
(* (SwapchainRing has the rest), of the read-back buffer its size when it  *)
(* can be created (Picking has what follows when it cannot).               *)
(***************************************************************************)
EXTENDS Integers, Sequences

CONSTANTS
    Moves,            \* the keys CameraController moves by
    F1,               \* the key of the editor
    Size,             \* sizes of the window, within what a surface allows
    FirstSize,        \* the size graphics.zig asks for
    Minimised,        \* a window with a width or height of 0
    Position,         \* positions of the mouse
    MaxNested         \* bound on the notices queued and the callbacks running inside each other

ASSUME KeysAssumption == F1 \notin Moves

ASSUME SizeAssumption ==
    /\ FirstSize \in Size
    /\ Minimised \notin Size

ASSUME PositionAssumption == 0 \in Position /\ Position \subseteq Int

ASSUME NestedAssumption == MaxNested \in Nat

VARIABLES
    down,           \* GLFW: the keys that are down
    window,         \* the size of the framebuffer
    notices,        \* GLFW: the number of changes of the size still to report
    callbacks,      \* resize callbacks waiting: the extent each one read
    keyStates,      \* InputState
    mouse,          \* InputState: mouseX, mouseY
    deltaMouse,     \* InputState
    viewport,       \* InputState: viewportX, viewportY
    resized,        \* InputState: is deltaViewportX or deltaViewportY not 0?
    pc,             \* the system of the frame that runs next
    inEditor,       \* Editor
    readBack,       \* Editor: the size of the read-back buffer
    extent,         \* Viewport: _width, _height, which frames are drawn with
    recreate,       \* Viewport: _resized
    swapchain,      \* Viewport: the size of the current swapchain, or NoSwapchain
    decides,        \* does the surface have an extent of its own, the window's?
    moving,         \* CameraController: the keys it moves by
    turn,           \* CameraController: deltaMousePos
    dropped,        \* history: keys last pressed in the poll that released them
    lost,           \* history: was a change of size overwritten before it was read?
    origin,         \* history: where the size in InputState comes from
    early           \* history: had the window left that size when the swapchain was made?

glfw == <<down, window, notices, callbacks>>
input == <<keyStates, mouse, deltaMouse, viewport, resized>>
view == <<extent, recreate, swapchain, decides>>
users == <<inEditor, readBack, moving, turn>>
history == <<dropped, lost, origin, early>>
vars == <<glfw, input, pc, view, users, history>>

Key == Moves \union {F1}
Idle == [isPress |-> FALSE, isRelease |-> FALSE, isHold |-> FALSE]
NoSwapchain == Minimised

\* The window gets the size asked for or another one, where the framebuffer is
\* scaled or windows are tiled, before the callback for it is installed;
\* InputState and the editor start with the size asked for.
Init ==
    /\ down = {}
    /\ window \in Size
    /\ notices = 0
    /\ callbacks = << >>
    /\ keyStates = [k \in Key |-> Idle]
    /\ mouse = 0
    /\ deltaMouse = 0
    /\ viewport = FirstSize
    /\ resized = FALSE
    /\ pc = "poll"
    /\ inEditor = FALSE
    /\ readBack = FirstSize
    /\ extent = FirstSize
    /\ recreate = TRUE
    /\ swapchain = NoSwapchain
    /\ decides \in BOOLEAN
    /\ moving = {}
    /\ turn = 0
    /\ dropped = {}
    /\ lost = FALSE
    /\ origin = "start"
    /\ early = FALSE

(***************************************************************************)
(* Poll Events: callbacks for keys and the mouse.                          *)
(***************************************************************************)
Press(k) ==
    /\ pc = "poll"
    /\ k \notin down
    /\ down' = down \union {k}
    /\ keyStates' = [keyStates EXCEPT ![k].isPress = TRUE, ![k].isHold = TRUE]
    /\ dropped' = IF keyStates[k].isRelease THEN dropped \union {k} ELSE dropped \ {k}
    /\ UNCHANGED <<window, notices, callbacks, mouse, deltaMouse, viewport, resized>>
    /\ UNCHANGED <<pc, view, users, lost, origin, early>>

Release(k) ==
    /\ pc = "poll"
    /\ k \in down
    /\ down' = down \ {k}
    /\ keyStates' = [keyStates EXCEPT ![k] = [Idle EXCEPT !.isRelease = TRUE]]
    /\ UNCHANGED <<window, notices, callbacks, mouse, deltaMouse, viewport, resized>>
    /\ UNCHANGED <<pc, view, users, history>>

MoveMouse(p) ==
    /\ pc = "poll"
    /\ p # mouse
    /\ mouse' = p
    /\ deltaMouse' = p - mouse
    /\ UNCHANGED <<glfw, keyStates, viewport, resized, pc, view, users, history>>

\* Fault: keeps the first size of a poll.
OnWindowResize_FirstOnly(size) ==
    /\ viewport' = IF resized THEN viewport ELSE size
    /\ resized' = (resized \/ size # viewport)
    /\ UNCHANGED <<keyStates, mouse, deltaMouse, lost>>

\* onWindowResize: the difference to the size it had before.
OnWindowResize(size) ==
    /\ viewport' = size
    /\ resized' = (size # viewport)
    /\ lost' = (size = viewport /\ (resized \/ lost))
    /\ UNCHANGED <<keyStates, mouse, deltaMouse>>

\* The window changes its size at any time; GLFW keeps a notice of it ...
Resize(size) ==
    /\ size # window
    /\ notices + Len(callbacks) < MaxNested
    /\ window' = size
    /\ notices' = notices + 1
    /\ UNCHANGED <<down, callbacks, input, pc, view, users, history>>

\* Fault: a size of 0 is reported too.
ReportSize_Minimised ==
    /\ OnWindowResize(window)
    /\ origin' = IF callbacks = << >> THEN "poll" ELSE "wait"
    /\ UNCHANGED callbacks

\* ... and calls the callback for it in a poll or in a wait: at once, or when
\* the window has changed again.  The callback asks for the size as it is by
\* now, and waits if there is none.
ReportSize ==
    /\ window # Minimised
    /\ OnWindowResize(window)
    /\ origin' = IF callbacks = << >> THEN "poll" ELSE "wait"
    /\ UNCHANGED callbacks

ReportMinimised ==
    /\ window = Minimised
    /\ callbacks' = Append(callbacks, Minimised)
    /\ UNCHANGED <<input, lost, origin>>

Notice ==
    /\ pc = "poll"
    /\ notices > 0
    /\ notices' = notices - 1
    /\ ReportSize \/ ReportMinimised
    /\ UNCHANGED <<down, window, pc, view, users, dropped, early>>

\* glfwWaitEvents returns to the innermost callback: it reads the size and
\* waits again, until it has read one before it waited.
WaitAgain ==
    /\ callbacks # << >>
    /\ callbacks[Len(callbacks)] = Minimised
    /\ callbacks' = [callbacks EXCEPT ![Len(callbacks)] = window]
    /\ UNCHANGED <<down, window, notices, input, pc, view, users, history>>

WaitDone ==
    /\ callbacks # << >>
    /\ callbacks[Len(callbacks)] # Minimised
    /\ OnWindowResize(callbacks[Len(callbacks)])
    /\ callbacks' = SubSeq(callbacks, 1, Len(callbacks) - 1)
    /\ origin' = "wait"
    /\ UNCHANGED <<down, window, notices, pc, view, users, dropped, early>>

EndPoll ==
    /\ pc = "poll"
    /\ callbacks = << >>
    /\ pc' = "fov"
    /\ UNCHANGED <<glfw, input, view, users, history>>

(***************************************************************************)
(* The systems that read it.                                               *)
(***************************************************************************)
UpdateFOV ==
    /\ pc = "fov"
    /\ pc' = "editor"
    /\ extent' = IF resized THEN viewport ELSE extent
    /\ recreate' = (recreate \/ resized)
    /\ UNCHANGED <<glfw, input, swapchain, decides, users, history>>

EditorOnEvent ==
    /\ pc = "editor"
    /\ pc' = "controllers"
    /\ inEditor' = (inEditor # keyStates[F1].isPress)
    /\ deltaMouse' = IF inEditor' THEN 0 ELSE deltaMouse
    /\ keyStates' = [keyStates EXCEPT ![F1] = Idle]
    /\ UNCHANGED <<glfw, mouse, viewport, resized, view, readBack, moving, turn, history>>

\* Fault: a release is not looked at.
UpdateControllers_NoRelease ==
    /\ pc = "controllers"
    /\ pc' = "begin"
    /\ turn' = deltaMouse
    /\ moving' = moving \union {k \in Moves : keyStates[k].isPress}
    /\ UNCHANGED <<glfw, input, view, inEditor, readBack, history>>

\* CameraController.onEvent.  Between it and Begin Frame the camera is moved
\* and an entity picked, which leaves all of this as it is.
UpdateControllers ==
    /\ pc = "controllers"
    /\ pc' = "begin"
    /\ turn' = deltaMouse
    /\ moving' = (moving \union {k \in Moves : keyStates[k].isPress}) \ {k \in Moves : keyStates[k].isRelease}
    /\ UNCHANGED <<glfw, input, view, inEditor, readBack, history>>

\* nextFrame makes the swapchain anew after a resize, the first one too.  A
\* surface with an extent of its own has its say, that is the window's by now,
\* whatever resize was given; only another one gets the size asked for.
SurfaceExtent == IF decides THEN window ELSE extent

NextFrame ==
    /\ pc = "begin"
    /\ pc' = "store"
    /\ IF recreate
       THEN /\ SurfaceExtent # Minimised
            /\ extent' = SurfaceExtent
            /\ swapchain' = SurfaceExtent
            /\ recreate' = FALSE
            /\ early' = (decides /\ window # viewport)
       ELSE UNCHANGED <<extent, swapchain, recreate, early>>
    /\ UNCHANGED <<glfw, input, decides, users, dropped, lost, origin>>

\* A minimised window has no swapchain; a call may fail for any other one, or
\* beginFrame before it gets here.  The frame goes on with the old swapchain,
\* the next one tries again.
NextFrameFails ==
    /\ pc = "begin"
    /\ pc' = "store"
    /\ recreate
    /\ extent' \in {extent, SurfaceExtent}
    /\ UNCHANGED <<glfw, input, swapchain, recreate, decides, users, history>>

StartRenderIDs ==
    /\ pc = "store"
    /\ pc' = "clear"
    /\ readBack' = IF resized THEN viewport ELSE readBack
    /\ UNCHANGED <<glfw, input, view, inEditor, moving, turn, history>>

ClearEvents ==
    /\ pc = "clear"
    /\ pc' = "poll"
    /\ deltaMouse' = 0
    /\ resized' = FALSE
    /\ keyStates' = [k \in Key |-> [Idle EXCEPT !.isHold = keyStates[k].isHold]]
    /\ UNCHANGED <<glfw, mouse, viewport, view, users, history>>

Poll ==
    \/ \E k \in Key : Press(k) \/ Release(k)
    \/ \E p \in Position : MoveMouse(p)
    \/ Notice \/ WaitAgain \/ WaitDone
    \/ EndPoll

Next ==
    \/ Poll
    \/ \E size \in Size \union {Minimised} : Resize(size)
    \/ UpdateFOV \/ EditorOnEvent \/ UpdateControllers \/ NextFrame \/ NextFrameFails
    \/ StartRenderIDs \/ ClearEvents

Spec == Init /\ [][Next]_vars

(***************************************************************************)
(* Properties.                                                             *)
(***************************************************************************)
TypeOK ==
    /\ down \subseteq Key
    /\ window \in Size \union {Minimised}
    /\ callbacks \in Seq(Size \union {Minimised})
    /\ notices \in Nat /\ notices + Len(callbacks) <= MaxNested
    /\ keyStates \in [Key -> [isPress : BOOLEAN, isRelease : BOOLEAN, isHold : BOOLEAN]]
    /\ mouse \in Position
    /\ {deltaMouse, turn} \subseteq Int
    /\ {viewport, readBack} \subseteq Size
    /\ {extent, swapchain} \subseteq Size \union {Minimised}
    /\ {resized, inEditor, recreate, decides, lost, early} \subseteq BOOLEAN
    /\ origin \in {"start", "poll", "wait"}
    /\ pc \in {"poll", "fov", "editor", "controllers", "begin", "store", "clear"}
    /\ moving \subseteq Moves
    /\ dropped \subseteq Key

\* The camera moves by the keys that are down: no key sticks.  Only a key that
\* was released and pressed again in one poll does not move it, until it is
\* pressed once more.
MovesWhileHeld ==
    pc \in {"begin", "store", "clear"} => moving = {k \in Moves : k \in down /\ k \notin dropped}

\* In the editor the mouse does not turn the camera, from the frame the editor
\* is entered: its system runs before that of the controllers.
EditorHoldsCamera ==
    pc \in {"begin", "store"} /\ inEditor => turn = 0

\* CameraController: the camera does what the keys and the editor say.
CameraObeys == MovesWhileHeld /\ EditorHoldsCamera

\* Unless there is a change it is still to read, the read-back buffer has the
\* size in InputState, which picking indexes it with.  It misses a change that
\* was overwritten in the poll that brought it.
ReadBackFits == ~ resized /\ ~ lost => readBack = viewport

\* Unless it is to be made anew, or a change of size is still to be read or was
\* missed, the swapchain has the size in InputState, whatever creations failed
\* before; but one made when the window had left that size already, with the
\* change still to report, has the size the window had then, and keeps it if
\* the window is back before the report.
SwapchainFits ==
    ~ resized /\ ~ lost /\ ~ recreate /\ ~ early => swapchain = viewport

\* Frames are drawn with the size of the swapchain they are drawn to, unless
\* that is still to be made anew.
DrawnInFull == ~ recreate => swapchain # NoSwapchain /\ extent = swapchain

\* Once every change of it has been reported, the size in InputState is that of
\* the window, although the callback asks for it late and a size may change
\* again before it is reported.  Only a size reported by a callback that waited
\* may be older, and until the first report it is the size asked for.
SizeIsWindows ==
    notices = 0 /\ origin = "poll" => viewport = window \/ callbacks # << >>

\* The size goes from the window to InputState and from there to all who draw.
SizeFollowsWindow == ReadBackFits /\ SwapchainFits /\ DrawnInFull /\ SizeIsWindows

\* GLFW says of glfwWaitEvents that it must not be called from a callback.
NoWaitInCallback == callbacks = << >>
=============================================================================
