------------------------------ MODULE Picking ------------------------------
(***************************************************************************)
(* Picking an entity in the editor (Editor/editor.zig).  Every frame draws *)
(* the ids of the entities into an image and copies it to a read-back      *)
(* buffer, one for all frames; a click reads the buffer without waiting    *)
(* for the GPU, and a resize replaces the objects without waiting either.  *)
(*                                                                         *)
(* An object is one of the six createReadBackData makes, in its order; its *)
(* handle is the number of the frame that made it, 0 for Editor.init.  The *)
(* id at a place of the buffer is abstracted to the frame that drew it and *)
(* the size it drew; Garbage is memory no frame has written, or that a     *)
(* frame with destroyed objects may have.  That such a frame may also lose *)
(* the device is left out.  FrameLoop says what happens when a frame       *)
(* cannot be begun or submitted; here every frame can.                     *)
(***************************************************************************)
EXTENDS Integers, FiniteSets

CONSTANTS
  BufferedImages,  \* slots of the renderer
  Size,            \* sizes <<width, height>> of the window
  FirstSize,       \* the size when the editor starts
  Position,        \* positions <<x, y>> of the mouse
  Failures,        \* calls that may fail: "create", "map"
  MaxFrames        \* bound on the frames: the last one closes the program

ASSUME PickingAssumption ==
  /\ BufferedImages \in Nat \ {0}
  /\ Size \subseteq (Nat \ {0}) \X (Nat \ {0}) /\ FirstSize \in Size
  /\ Position \subseteq Int \X Int
  /\ Failures \subseteq {"create", "map"}
  /\ MaxFrames \in Nat \ {0}

\* 1 readBackBuffer, 2 depthImage, 3 writeToImage, 4 depthImageView,
\* 5 writeToImageView, 6 framebuffer
Object == 1 .. 6
ReadBackBuffer == 1

None == <<>>
Garbage == <<>>

VARIABLES
  pc,              \* the system the host runs next
  frame,           \* number of the frame under way
  done,            \* the timeline: frames the GPU has finished
  inFlight,        \* frames submitted and not finished
  viewport,        \* InputState: viewportX, viewportY
  resized,         \* InputState: is deltaViewportX or deltaViewportY not 0?
  click,           \* the mouse of a click that picks, or None
  handles, live,   \* the editor's handles; the objects created and not destroyed
  size,            \* the size the read-back buffer was made for
  readBack,        \* what the buffer holds: the last copy, or Garbage
  begun,           \* did startRenderIDs begin the render pass of this frame?
  selectedEntity,  \* "known", 0 or an entity, or "garbage"
  pick,            \* history: what the click of this frame read
  lost,            \* history: drawn with another size since the buffer was made?
  failed           \* history: has a creation failed?

input == <<viewport, resized, click>>
data  == <<handles, live, size>>
gpu   == <<done, inFlight, readBack>>
vars  == <<pc, frame, gpu, input, data, begun, selectedEntity, pick, lost, failed>>

Current == {<<o, handles[o]>> : o \in Object}

Init ==
  /\ pc = "poll" /\ frame = 1
  /\ done = 0 /\ inFlight = {} /\ readBack = Garbage
  /\ viewport = FirstSize /\ resized = FALSE /\ click = None
  /\ handles = [o \in Object |-> 0]
  /\ live = Object \X {0} /\ size = FirstSize
  /\ begun = FALSE /\ selectedEntity = "known" /\ pick = None
  /\ lost = FALSE /\ failed = FALSE

(***************************************************************************)
(* Poll events: any number of callbacks, so the size may have changed with *)
(* the delta of the last callback 0, and the other way round (Input shows  *)
(* when).  A click is one in the editor that no window of the gui hovers.  *)
(***************************************************************************)
PollEvents ==
  /\ pc = "poll"
  /\ viewport' \in Size /\ resized' \in BOOLEAN
  /\ click' \in Position \cup {None}
  /\ pc' = "pick"
  /\ UNCHANGED <<frame, gpu, data, begun, selectedEntity, pick, lost, failed>>

(***************************************************************************)
(* updateSelectedID maps the buffer, and reads it if the click is in it.   *)
(***************************************************************************)
Mapped == <<ReadBackBuffer, handles[ReadBackBuffer]>> \in live

InViewport ==
  /\ click # None
  /\ click[1] - 1 \in 0 .. viewport[1] - 1
  /\ click[2] - 1 \in 0 .. viewport[2] - 1

\* Fault: rows of the height of the viewport.
PixelReadPos_ByHeight == (click[2] - 1) * viewport[2] + (click[1] - 1)

PixelReadPos == (click[2] - 1) * viewport[1] + (click[1] - 1)

IdAt(index) ==
  IF ~ Mapped \/ readBack = Garbage \/ index >= size[1] * size[2]
  THEN Garbage
  ELSE [frame |-> readBack.frame, size |-> readBack.size, index |-> index]

\* Without a click, outside the viewport or when the mapping fails.
UpdateSelectedID_Nothing ==
  /\ pc = "pick"
  /\ ~ InViewport \/ "map" \in Failures
  /\ pc' = "begin"
  /\ UNCHANGED <<frame, gpu, input, data, begun, selectedEntity, pick, lost, failed>>

UpdateSelectedID ==
  /\ pc = "pick"
  /\ InViewport
  /\ selectedEntity' = IF IdAt(PixelReadPos) = Garbage THEN "garbage" ELSE "known"
  /\ pick' = [at |-> click, value |-> IdAt(PixelReadPos), madeIn |-> handles[ReadBackBuffer],
              outdated |-> size # viewport \/ lost \/ failed]
  /\ pc' = "begin"
  /\ UNCHANGED <<frame, gpu, input, data, begun, lost, failed>>

(***************************************************************************)
(* beginFrame of the renderer waits for the frame that last had the slot.  *)
(***************************************************************************)
\* Fault: beginFrame waits for a frame one older.
BeginFrame_OlderFrame ==
  /\ pc = "begin"
  /\ frame - BufferedImages - 1 <= done
  /\ pc' = "ids"
  /\ UNCHANGED <<frame, gpu, input, data, begun, selectedEntity, pick, lost, failed>>

BeginFrame ==
  /\ pc = "begin"
  /\ frame - BufferedImages <= done
  /\ pc' = "ids"
  /\ UNCHANGED <<frame, gpu, input, data, begun, selectedEntity, pick, lost, failed>>

(***************************************************************************)
(* startRenderIDs.  destroyReadBackData destroys what the handles name,    *)
(* which after a failed creation are objects already destroyed: undefined, *)
(* the program goes on or crashes.  Only the first n objects are created   *)
(* when a creation fails; then no render pass is begun.                    *)
(***************************************************************************)
\* Fault: the old objects are not destroyed.
CreateReadBackData_Leak(n) ==
  /\ handles' = [o \in Object |-> IF o <= n THEN frame ELSE handles[o]]
  /\ live' = live \cup (1 .. n) \X {frame}
  /\ size' = IF n >= ReadBackBuffer THEN viewport ELSE size
  /\ readBack' = IF n >= ReadBackBuffer THEN Garbage ELSE readBack

CreateReadBackData(n) ==
  /\ handles' = [o \in Object |-> IF o <= n THEN frame ELSE handles[o]]
  /\ live' = (live \ Current) \cup (1 .. n) \X {frame}
  /\ size' = IF n >= ReadBackBuffer THEN viewport ELSE size
  /\ readBack' = IF n >= ReadBackBuffer THEN Garbage ELSE readBack

StartRenderIDs ==
  /\ pc = "ids" /\ ~ resized
  /\ begun' = TRUE
  /\ lost' = (lost \/ viewport # size)
  /\ pc' = "gui"
  /\ UNCHANGED <<frame, gpu, input, data, selectedEntity, pick, failed>>

StartRenderIDs_Resized ==
  /\ pc = "ids" /\ resized
  /\ CreateReadBackData(6)
  /\ begun' = TRUE /\ lost' = FALSE
  /\ pc' = "gui"
  /\ UNCHANGED <<frame, done, inFlight, input, selectedEntity, pick, failed>>

StartRenderIDs_Fails ==
  /\ pc = "ids" /\ resized /\ "create" \in Failures
  /\ \E n \in 0 .. 5 : CreateReadBackData(n)
  /\ begun' = FALSE /\ failed' = TRUE
  /\ pc' = "gui"
  /\ UNCHANGED <<frame, done, inFlight, input, selectedEntity, pick, lost>>

StartRenderIDs_Crashes ==
  /\ pc = "ids" /\ resized /\ ~ Current \subseteq live
  /\ pc' = "crashed"
  /\ UNCHANGED <<frame, gpu, input, data, begun, selectedEntity, pick, lost, failed>>

(***************************************************************************)
(* guiNextFrame looks up the entity, and panics when there is none.        *)
(***************************************************************************)
GuiNextFrame ==
  /\ pc = "gui"
  /\ \/ pc' = "end"
     \/ selectedEntity = "garbage" /\ pc' = "crashed"
  /\ UNCHANGED <<frame, gpu, input, data, begun, selectedEntity, pick, lost, failed>>

(***************************************************************************)
(* endFrame submits what startRenderIDs .. stopRenderIDs recorded; Clear   *)
(* Events ends the frame, and a window that was closed the program.        *)
(***************************************************************************)
EndFrame ==
  /\ pc = "end"
  /\ inFlight' = inFlight \cup
       {[number |-> frame, handles |-> handles, size |-> viewport,
         sound |-> begun /\ viewport = size]}
  /\ frame' = frame + 1
  /\ resized' = FALSE /\ click' = None /\ pick' = None
  /\ pc' \in {"poll", "deinit"}
  /\ frame = MaxFrames => pc' = "deinit"
  /\ UNCHANGED <<done, readBack, viewport, data, begun, selectedEntity, lost, failed>>

\* Editor.deinit, after the renderer has waited for the last frame.
Deinit ==
  /\ pc = "deinit" /\ inFlight = {}
  /\ live' = live \ Current
  /\ pc' \in IF Current \subseteq live THEN {"done"} ELSE {"done", "crashed"}
  /\ UNCHANGED <<frame, gpu, input, handles, size, begun, selectedEntity, pick, lost, failed>>

(***************************************************************************)
(* The GPU finishes frames in order.                                       *)
(***************************************************************************)
ObjectsLive(f) == \A o \in Object : <<o, f.handles[o]>> \in live

ExecuteFrame ==
  /\ pc # "crashed"
  /\ \E f \in inFlight :
       /\ f.number = done + 1
       /\ done' = f.number
       /\ inFlight' = inFlight \ {f}
       /\ \/ /\ f.sound /\ ObjectsLive(f)
             /\ readBack' = [frame |-> f.number, size |-> f.size]
          \/ /\ ~ (f.sound /\ ObjectsLive(f))
             /\ readBack' \in {readBack, Garbage}
  /\ UNCHANGED <<pc, frame, input, data, begun, selectedEntity, pick, lost, failed>>

Ended == pc \in {"done", "crashed"} /\ UNCHANGED vars

Next ==
  \/ PollEvents
  \/ UpdateSelectedID_Nothing
  \/ UpdateSelectedID
  \/ BeginFrame
  \/ StartRenderIDs
  \/ StartRenderIDs_Resized
  \/ StartRenderIDs_Fails
  \/ StartRenderIDs_Crashes
  \/ GuiNextFrame
  \/ EndFrame
  \/ Deinit
  \/ ExecuteFrame
  \/ Ended

Spec == Init /\ [][Next]_vars

----------------------------------------------------------------------------
Flight ==
  [number : Nat \ {0}, handles : [Object -> Nat], size : Size, sound : BOOLEAN]
Drawn == [frame : Nat \ {0}, size : Size]
Id == [frame : Nat \ {0}, size : Size, index : Nat]

\* Types, and the frames in flight are the ones submitted and not finished,
\* at most one per slot (Renderer.beginFrame).
TypeOK ==
  /\ pc \in {"poll", "pick", "begin", "ids", "gui", "end", "deinit", "done", "crashed"}
  /\ frame \in Nat \ {0} /\ done \in Nat /\ done < frame
  /\ inFlight \subseteq Flight
  /\ \A f \in inFlight : f.number \in done + 1 .. frame - 1
  /\ frame - 1 - done <= BufferedImages
  /\ readBack \in Drawn \cup {Garbage}
  /\ viewport \in Size /\ resized \in BOOLEAN /\ click \in Position \cup {None}
  /\ handles \in [Object -> Nat] /\ live \subseteq Object \X Nat /\ size \in Size
  /\ begun \in BOOLEAN /\ selectedEntity \in {"known", "garbage"}
  /\ pick \in [at : Position, value : Id \cup {Garbage}, madeIn : Nat, outdated : BOOLEAN]
              \cup {None}
  /\ lost \in BOOLEAN /\ failed \in BOOLEAN

\* updateSelectedID never waits, and yet: unless the click is outdated (the size
\* is not the buffer's, for a resize in the same poll or one startRenderIDs
\* missed; was not since the buffer was made; or a creation has failed), a
\* click reads what one of the last BufferedImages + 1 frames drew at the pixel
\* up and left of the mouse - or, if the objects are younger than that, what a
\* frame that used them drew there, or what was in the new buffer's memory.
PickIsRecent ==
  pick # None /\ ~ pick.outdated =>
    \/ /\ pick.value # Garbage
       /\ pick.value.frame \in frame - BufferedImages - 1 .. frame - 1
       /\ pick.value.frame >= pick.madeIn
       /\ pick.value.index =
            (pick.at[2] - 1) * pick.value.size[1] + pick.at[1] - 1
    \/ /\ pick.value = Garbage
       /\ frame - BufferedImages - 1 < 1 \/ frame - BufferedImages - 1 < pick.madeIn

\* No object is ever lost, even when a creation fails: what lives is what the
\* handles name (destroyReadBackData).  Unless one has failed all of them live,
\* until Editor.deinit leaves none.
DataComplete ==
  /\ live \subseteq Current
  /\ pc = "done" => live = {}
  /\ pc # "done" /\ ~ failed => Current \subseteq live

\* A resize destroys objects a frame in flight uses, but only a frame begun
\* less than BufferedImages before it: with one slot, none (startRenderIDs).
OnlyPreviousExposed ==
  ~ failed => \A f \in inFlight :
    ~ ObjectsLive(f) =>
      f.number \in handles[ReadBackBuffer] - BufferedImages + 1 .. handles[ReadBackBuffer] - 1

\* What vk_layer_settings.txt has the validation layer check: no object is
\* destroyed while a frame submitted to the GPU uses it.
NotInUse == ~ failed => \A f \in inFlight : ObjectsLive(f)
=============================================================================
