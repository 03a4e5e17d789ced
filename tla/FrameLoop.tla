----------------------------- MODULE FrameLoop -----------------------------
(***************************************************************************)
(* One frame of the engine after another: the host thread that runs the    *)
(* graphics systems in pipeline order, the GPU that executes submitted     *)
(* frames later, and the presentation engine that gives swapchain images   *)
(* back.  A frame is named by the value its submission signals on the      *)
(* timeline semaphore.  What a slot of the renderer holds (command list,   *)
(* staging buffer) is the name of the frame that last wrote it.            *)
(*                                                                         *)
(* A system that returns an error does not stop the frame: the error is    *)
(* logged and the next system runs (SystemImpl of zflecs).  Failures says  *)
(* which driver calls may return one.  The waits on the timeline are among *)
(* them: a frame whose wait failed goes on with a slot that the GPU may    *)
(* still have.  unwaited is a history variable that remembers these slots; *)
(* no guard reads it.                                                      *)
(***************************************************************************)
EXTENDS Integers, FiniteSets

CONSTANTS
  BufferedImages,  \* slots of the renderer
  RingSize,        \* image count asked of Viewport.init, length of its ring
  Capabilities,    \* [min, max] image counts the surface may report
  Swapchain,       \* handles of swapchains, with what is built on them
  NoSwapchain,     \* the null handle
  Failures,        \* driver calls that may return an error
  MaxFrames        \* bound: the window is closed at this frame

Slot == 0 .. BufferedImages - 1
Ring == 0 .. RingSize - 1

FailureKinds ==
  {"wait", "recreate", "acquire", "begin", "end", "submit", "present"}

ASSUME ConstantsAssumption ==
  /\ BufferedImages \in Nat \ {0}
  /\ RingSize \in Nat /\ RingSize >= 2
  /\ NoSwapchain \notin Swapchain
  /\ Failures \subseteq FailureKinds
  /\ MaxFrames \in Nat \ {0}

(* The surface can be served by the ring: it never asks for more images    *)
(* than the ring is long, and lets the viewport have two.                  *)
ASSUME SurfaceAssumption ==
  \A c \in Capabilities : /\ c.min \in 1 .. RingSize
                          /\ c.max \in Nat /\ c.max # 1
                          /\ c.max = 0 \/ c.min <= c.max

VARIABLES
  pc,               \* the system the host runs next
  quit,             \* flecs.quit was called
  resizeEvent,      \* InputState.deltaViewport is not zero
  imageIndex, semaphoreValue, waitValues,
  unwaited,         \* slots whose last wait failed
  recorded,         \* the frame whose commands a slot's list holds, or 0
  stagingBuffer,    \* the frame whose bytes a slot's staging buffer holds
  uniform,          \* the frame whose camera and model matrices were written
  staged,           \* stageData is not empty
  frame,            \* how far the current frame has got
  resized, imageCount, currentSwapchain, swapchainData,
  timeline,         \* the counter of _timelineSemaphore
  inFlight,         \* submissions the GPU has not finished
  presented,        \* frames whose image the presentation engine still has
  taken             \* images acquired and not presented

host     == <<pc, quit, resizeEvent>>
slots    == <<imageIndex, semaphoreValue, waitValues, unwaited>>
contents == <<recorded, stagingBuffer, uniform, staged, frame>>
viewport == <<resized, imageCount, currentSwapchain, swapchainData>>
gpu      == <<timeline, inFlight>>
surface  == <<presented, taken>>
vars     == <<host, slots, contents, viewport, gpu, surface>>

Live == {swapchainData[i] : i \in Ring} \ {NoSwapchain}

NewFrame == [acquired |-> FALSE, begun |-> FALSE, carries |-> FALSE]

MayFail(call) == call \in Failures

(***************************************************************************)
(* The host: polling, the systems before the frame begins.                 *)
(***************************************************************************)
Init ==
  /\ pc = "events" /\ quit = FALSE /\ resizeEvent = FALSE
  /\ imageIndex = 0 /\ semaphoreValue = 0
  /\ waitValues = [s \in Slot |-> 0] /\ unwaited = {}
  /\ recorded = [s \in Slot |-> 0] /\ stagingBuffer = [s \in Slot |-> 0]
  /\ uniform = 0 /\ staged \in BOOLEAN /\ frame = NewFrame
  /\ resized = TRUE /\ imageCount = RingSize /\ currentSwapchain = 0
  /\ swapchainData = [i \in Ring |-> NoSwapchain]
  /\ timeline = 0 /\ inFlight = {}
  /\ presented = {} /\ taken = 0

(* glfw delivers what happened to the window, a resize or a close.  At     *)
(* MaxFrames the window is closed.                                         *)
UploadEvents ==
  /\ pc = "events"
  /\ resizeEvent' \in BOOLEAN
  /\ quit' \in BOOLEAN
  /\ semaphoreValue + 1 >= MaxFrames => quit'
  /\ pc' = "fov"
  /\ UNCHANGED <<slots, contents, viewport, gpu, surface>>

UpdateFOV ==
  /\ pc = "fov"
  /\ resized' = (resized \/ resizeEvent)
  /\ pc' = "uniforms"
  /\ UNCHANGED <<quit, resizeEvent, slots, contents, imageCount,
                 currentSwapchain, swapchainData, gpu, surface>>

(* Camera.onUpdate and ModelInstance.onUpdate write their matrices to the  *)
(* uniform buffers at once; a system may also stage data.                  *)
UpdateUniforms ==
  /\ pc = "uniforms"
  /\ uniform' = semaphoreValue + 1
  /\ staged' \in {staged, TRUE}
  /\ frame' = NewFrame
  /\ pc' = "wait"
  /\ UNCHANGED <<quit, resizeEvent, slots, recorded, stagingBuffer, viewport,
                 gpu, surface>>

(***************************************************************************)
(* beginFrame.                                                             *)
(***************************************************************************)
SlotFree_OffByOne == waitValues[imageIndex] <= timeline + 1

SlotFree == waitValues[imageIndex] <= timeline

WaitSlot ==
  /\ pc = "wait"
  /\ SlotFree
  /\ unwaited' = unwaited \ {imageIndex}
  /\ pc' = "next"
  /\ UNCHANGED <<quit, resizeEvent, imageIndex, semaphoreValue, waitValues,
                 contents, viewport, gpu, surface>>

(* The error leaves beginFrame before nextFrame and before the command     *)
(* list is reset; updateData, the recording systems and endFrame run on.   *)
WaitFails ==
  /\ pc = "wait" /\ MayFail("wait")
  /\ unwaited' = unwaited \cup {imageIndex}
  /\ pc' = "upload"
  /\ UNCHANGED <<quit, resizeEvent, imageIndex, semaphoreValue, waitValues,
                 contents, viewport, gpu, surface>>

ClampImageCount(c) ==
  IF imageCount > c.max /\ c.max # 0 THEN c.max
  ELSE IF imageCount < c.min /\ c.max # 0 THEN c.min
  ELSE imageCount

NextIndex == (currentSwapchain + 1) % imageCount
LastIndex == (currentSwapchain + imageCount - 1) % imageCount

(* Both neighbours of the current swapchain are destroyed; the current one *)
(* becomes the old one.                                                    *)
Survivors_None == [i \in Ring |-> NoSwapchain]

Survivors ==
  [i \in Ring |-> IF i \in {LastIndex, NextIndex} THEN NoSwapchain
                  ELSE swapchainData[i]]

RecreateSwapchain ==
  /\ pc = "next" /\ resized
  /\ \E c \in Capabilities : imageCount' = ClampImageCount(c)
  /\ \E new \in Swapchain \ Live :
       swapchainData' = [Survivors EXCEPT ![NextIndex] = new]
  /\ currentSwapchain' = NextIndex
  /\ resized' = FALSE
  /\ presented' = {} /\ taken' = 0
  /\ UNCHANGED <<host, slots, contents, gpu>>

(* The neighbours are gone, resized stays set, and the next frame will try *)
(* again.                                                                  *)
RecreateFails ==
  /\ pc = "next" /\ resized /\ MayFail("recreate")
  /\ \E c \in Capabilities : imageCount' = ClampImageCount(c)
  /\ swapchainData' = Survivors
  /\ pc' = "upload"
  /\ UNCHANGED <<quit, resizeEvent, slots, contents, resized,
                 currentSwapchain, gpu, surface>>

AcquireImage ==
  /\ pc = "next" /\ ~resized
  /\ Cardinality(presented) + taken < imageCount
  /\ frame' = [frame EXCEPT !.acquired = TRUE]
  /\ taken' = taken + 1
  /\ pc' = "begin"
  /\ UNCHANGED <<quit, resizeEvent, slots, recorded, stagingBuffer, uniform,
                 staged, viewport, gpu, presented>>

AcquireFails ==
  /\ pc = "next" /\ ~resized /\ MayFail("acquire")
  /\ pc' = "upload"
  /\ UNCHANGED <<quit, resizeEvent, slots, contents, viewport, gpu, surface>>

BeginRecording ==
  /\ pc = "begin"
  /\ recorded' = [recorded EXCEPT ![imageIndex] = 0]
  /\ frame' = [frame EXCEPT !.begun = TRUE]
  /\ pc' = "upload"
  /\ UNCHANGED <<quit, resizeEvent, slots, stagingBuffer, uniform, staged,
                 viewport, gpu, surface>>

BeginFails ==
  /\ pc = "begin" /\ MayFail("begin")
  /\ pc' = "upload"
  /\ UNCHANGED <<quit, resizeEvent, slots, contents, viewport, gpu, surface>>

TransferData_NextSlot ==
  /\ pc = "upload"
  /\ stagingBuffer' = IF staged
                      THEN [stagingBuffer EXCEPT
                              ![(imageIndex + 1) % BufferedImages] = semaphoreValue + 1]
                      ELSE stagingBuffer
  /\ frame' = [frame EXCEPT !.carries = staged]
  /\ staged' = FALSE
  /\ pc' = "render"
  /\ UNCHANGED <<quit, resizeEvent, slots, recorded, uniform, viewport, gpu,
                 surface>>

(***************************************************************************)
(* The systems that record, whether or not beginFrame succeeded.           *)
(***************************************************************************)
TransferData ==
  /\ pc = "upload"
  /\ stagingBuffer' = IF staged
                      THEN [stagingBuffer EXCEPT ![imageIndex] = semaphoreValue + 1]
                      ELSE stagingBuffer
  /\ frame' = [frame EXCEPT !.carries = staged]
  /\ staged' = FALSE
  /\ pc' = "render"
  /\ UNCHANGED <<quit, resizeEvent, slots, recorded, uniform, viewport, gpu,
                 surface>>

(* getFramebuffer indexes the framebuffers of the current swapchain: there *)
(* are none when the first nextFrame failed, and the program stops there.  *)
Render ==
  /\ pc = "render"
  /\ \/ /\ swapchainData[currentSwapchain] # NoSwapchain
        /\ recorded' = IF frame.begun
                       THEN [recorded EXCEPT ![imageIndex] = semaphoreValue + 1]
                       ELSE recorded
        /\ pc' = "submit"
     \/ /\ swapchainData[currentSwapchain] = NoSwapchain
        /\ pc' = "panic"
        /\ UNCHANGED recorded
  /\ UNCHANGED <<quit, resizeEvent, slots, stagingBuffer, uniform, staged,
                 frame, viewport, gpu, surface>>

(***************************************************************************)
(* endFrame and clearEvents.                                               *)
(***************************************************************************)
EndCommandBufferFails ==
  /\ pc = "submit" /\ MayFail("end")
  /\ pc' = "clear"
  /\ UNCHANGED <<quit, resizeEvent, slots, contents, viewport, gpu, surface>>

TakeFrameNumber_NotKept ==
  /\ semaphoreValue' = semaphoreValue + 1
  /\ UNCHANGED waitValues

TakeFrameNumber ==
  /\ semaphoreValue' = semaphoreValue + 1
  /\ waitValues' = [waitValues EXCEPT ![imageIndex] = semaphoreValue + 1]

(* The submission waits for the frame before it and for the image, and     *)
(* nothing but an acquisition signals the slot's binary semaphore.  Both   *)
(* waits hold back color output only: transfers and vertex work may run    *)
(* from here on, so a submission counts as read from the moment it is      *)
(* made, whether or not it can ever finish.                                *)
Submission ==
  [value |-> semaphoreValue + 1, slot |-> imageIndex,
   swapchain |-> swapchainData[currentSwapchain],
   acquired |-> frame.acquired, begun |-> frame.begun,
   carries |-> frame.carries]

Submit ==
  /\ pc = "submit"
  /\ TakeFrameNumber
  /\ inFlight' = inFlight \cup {Submission}
  /\ pc' = "present"
  /\ UNCHANGED <<quit, resizeEvent, imageIndex, unwaited, contents, viewport,
                 timeline, surface>>

(* The frame number is taken although nothing will ever signal it.         *)
SubmitFails ==
  /\ pc = "submit" /\ MayFail("submit")
  /\ TakeFrameNumber
  /\ pc' = "clear"
  /\ UNCHANGED <<quit, resizeEvent, imageIndex, unwaited, contents, viewport,
                 gpu, surface>>

HandOverImage_Kept == UNCHANGED surface

(* The image goes back to the presentation engine even when the request is *)
(* rejected as out of date; only the slot then stays the same.             *)
HandOverImage ==
  IF frame.acquired
  THEN presented' = presented \cup {semaphoreValue} /\ taken' = taken - 1
  ELSE UNCHANGED surface

PresentImage_NoWrap ==
  /\ pc = "present"
  /\ HandOverImage
  /\ imageIndex' = imageIndex + 1
  /\ pc' = "clear"
  /\ UNCHANGED <<quit, resizeEvent, semaphoreValue, waitValues, unwaited,
                 contents, viewport, gpu>>

PresentImage ==
  /\ pc = "present"
  /\ HandOverImage
  /\ imageIndex' = (imageIndex + 1) % BufferedImages
  /\ pc' = "clear"
  /\ UNCHANGED <<quit, resizeEvent, semaphoreValue, waitValues, unwaited,
                 contents, viewport, gpu>>

PresentFails ==
  /\ pc = "present" /\ MayFail("present")
  /\ HandOverImage
  /\ pc' = "clear"
  /\ UNCHANGED <<quit, resizeEvent, slots, contents, viewport, gpu>>

ClearEvents ==
  /\ pc = "clear"
  /\ resizeEvent' = FALSE
  /\ pc' = IF quit THEN "preDeinit" ELSE "events"
  /\ UNCHANGED <<quit, slots, contents, viewport, gpu, surface>>

DeinitRenderer_WaitsForNext ==
  /\ pc = "preDeinit"
  /\ semaphoreValue + 1 <= timeline
  /\ recorded' = [s \in Slot |-> 0]
  /\ stagingBuffer' = [s \in Slot |-> 0]
  /\ pc' = "deinit"
  /\ UNCHANGED <<quit, resizeEvent, slots, uniform, staged, frame, viewport,
                 gpu, surface>>

DeinitRenderer_ThisSlotOnly ==
  /\ pc = "preDeinit"
  /\ waitValues[imageIndex] <= timeline
  /\ recorded' = [s \in Slot |-> 0]
  /\ stagingBuffer' = [s \in Slot |-> 0]
  /\ pc' = "deinit"
  /\ UNCHANGED <<quit, resizeEvent, slots, uniform, staged, frame, viewport,
                 gpu, surface>>

(***************************************************************************)
(* Shutting down: Renderer.deinit in Graphics.preDeinit, then Viewport.    *)
(***************************************************************************)
DeinitRenderer ==
  /\ pc = "preDeinit"
  /\ semaphoreValue <= timeline
  /\ recorded' = [s \in Slot |-> 0]
  /\ stagingBuffer' = [s \in Slot |-> 0]
  /\ pc' = "deinit"
  /\ UNCHANGED <<quit, resizeEvent, slots, uniform, staged, frame, viewport,
                 gpu, surface>>

(* preDeinit returns the error and the program ends with nothing destroyed. *)
DeinitFails ==
  /\ pc = "preDeinit" /\ MayFail("wait")
  /\ pc' = "error"
  /\ UNCHANGED <<quit, resizeEvent, slots, contents, viewport, gpu, surface>>

DeinitViewport ==
  /\ pc = "deinit"
  /\ swapchainData' = [i \in Ring |-> NoSwapchain]
  /\ pc' = "done"
  /\ UNCHANGED <<quit, resizeEvent, slots, contents, resized, imageCount,
                 currentSwapchain, gpu, surface>>

Terminated == pc \in {"done", "panic", "error"} /\ UNCHANGED vars

(***************************************************************************)
(* The GPU and the presentation engine.                                    *)
(***************************************************************************)
(* Fault: a frame waits for its own number.                                *)
ExecuteFrame_WaitsForItself ==
  \E f \in inFlight :
    /\ f.acquired /\ f.value <= timeline
    /\ timeline' = f.value
    /\ inFlight' = inFlight \ {f}
    /\ UNCHANGED <<host, slots, contents, viewport, surface>>

ExecuteFrame ==
  \E f \in inFlight :
    /\ f.acquired /\ f.value = timeline + 1
    /\ timeline' = f.value
    /\ inFlight' = inFlight \ {f}
    /\ UNCHANGED <<host, slots, contents, viewport, surface>>

(* An image is given back when a later one has taken its place on screen.  *)
ReleaseImage ==
  \E v \in presented :
    /\ \E w \in presented : v < w /\ w <= timeline
    /\ presented' = presented \ {v}
    /\ UNCHANGED <<host, slots, contents, viewport, gpu, taken>>

HostStep ==
  \/ UploadEvents \/ UpdateFOV \/ UpdateUniforms
  \/ WaitSlot \/ WaitFails \/ RecreateSwapchain \/ RecreateFails \/ AcquireImage
  \/ AcquireFails \/ BeginRecording \/ BeginFails
  \/ TransferData \/ Render
  \/ EndCommandBufferFails \/ Submit \/ SubmitFails
  \/ PresentImage \/ PresentFails \/ ClearEvents
  \/ DeinitRenderer \/ DeinitFails \/ DeinitViewport

Next == HostStep \/ Terminated \/ ExecuteFrame \/ ReleaseImage

Spec == Init /\ [][Next]_vars

(* The run loop keeps calling flecs.progress, the GPU executes what has an *)
(* image, the presentation engine shows what it is given.                  *)
Fairness == WF_vars(HostStep) /\ WF_vars(ExecuteFrame) /\ WF_vars(ReleaseImage)

FairSpec == Spec /\ Fairness

(***************************************************************************)
(* Properties.                                                             *)
(***************************************************************************)

HostTypes ==
  /\ pc \in {"events", "fov", "uniforms", "wait", "next", "begin", "upload",
             "render", "submit", "present", "clear", "preDeinit", "deinit",
             "done", "panic", "error"}
  /\ quit \in BOOLEAN /\ resizeEvent \in BOOLEAN

SlotTypes ==
  /\ imageIndex \in Slot /\ semaphoreValue \in Nat
  /\ waitValues \in [Slot -> Nat] /\ unwaited \subseteq Slot

ContentTypes ==
  /\ recorded \in [Slot -> Nat] /\ stagingBuffer \in [Slot -> Nat]
  /\ uniform \in Nat /\ staged \in BOOLEAN
  /\ frame \in [acquired : BOOLEAN, begun : BOOLEAN, carries : BOOLEAN]

ViewportTypes ==
  /\ resized \in BOOLEAN /\ imageCount \in 2 .. RingSize
  /\ currentSwapchain \in Ring
  /\ swapchainData \in [Ring -> Swapchain \cup {NoSwapchain}]

SubmissionType ==
  [value : Nat, slot : Slot, swapchain : Swapchain,
   acquired : BOOLEAN, begun : BOOLEAN, carries : BOOLEAN]

GpuTypes == timeline \in Nat /\ inFlight \subseteq SubmissionType

SurfaceTypes == presented \subseteq Nat /\ taken \in Int

(* Every variable keeps its type: slots and ring positions stay in range,  *)
(* the image count stays within the ring, and whatever is submitted names  *)
(* a swapchain.                                                            *)
TypeOK ==
  /\ HostTypes /\ SlotTypes /\ ContentTypes
  /\ ViewportTypes /\ GpuTypes /\ SurfaceTypes

(* From submission until a frame is finished, what the GPU can read of its *)
(* slot is what the host put there for it: its staging buffer is neither   *)
(* overwritten nor destroyed, and its command list neither reset nor       *)
(* recorded again (beginFrame's wait on waitValues, Renderer.deinit's on   *)
(* _semaphoreValue).  A frame that beginFrame left before the list was     *)
(* begun runs what the list still holds, and that is no frame in flight.   *)
(* The exception is a slot whose wait failed, until a later wait succeeds. *)
GpuReadsItsOwnFrame ==
  \A f \in inFlight :
    f.slot \notin unwaited =>
      /\ \/ recorded[f.slot] = f.value
         \/ ~f.begun /\ recorded[f.slot] <= timeline
      /\ f.carries => stagingBuffer[f.slot] = f.value

(* A swapchain, its framebuffers and its depth buffer outlive every frame  *)
(* submitted against them, over any sequence of resizes: nextFrame never   *)
(* destroys what the one frame that may still be in flight draws into.     *)
(* (The older list that a frame runs whose own was never begun may name    *)
(* one that is gone; what counts here is what the frame would draw into.)  *)
SwapchainOutlivesFrames == \A f \in inFlight : f.swapchain \in Live

(* As long as no wait has failed since, the host is never more than        *)
(* BufferedImages frames ahead of the GPU, whichever other calls fail; and *)
(* only a slot whose wait failed serves two unfinished frames.             *)
BoundedLead ==
  /\ unwaited = {} => semaphoreValue <= timeline + BufferedImages
  /\ \A f, g \in inFlight : f.slot = g.slot => f = g \/ f.slot \in unwaited

(* The uniform buffers have no copy per slot and are written before the    *)
(* frame waits for its slot: a frame in flight may read matrices younger   *)
(* than its own, but never older ones and, unless a wait failed, never by  *)
(* more than BufferedImages frames.                                        *)
UniformSkew ==
  \A f \in inFlight :
    /\ f.value <= uniform
    /\ unwaited = {} => uniform <= f.value + BufferedImages

(* Nothing is in flight once the renderer starts destroying what frames    *)
(* use, and the window's close was what led there.                         *)
CleanShutdown ==
  pc \in {"deinit", "done"} => inFlight = {} /\ quit

(* No system waits for ever: the wait for the slot and the acquisition of  *)
(* an image both return and the frame is submitted.                        *)
FrameProgress == pc = "wait" ~> pc = "present"

(* A closed window ends the program with everything destroyed.             *)
QuitEndsProgram == quit ~> pc = "done"

(***************************************************************************)
(* The slots as DoubleBuffer sees them.                                    *)
(***************************************************************************)
OwnersOf(s) == {f.value : f \in {g \in inFlight : g.slot = s}}

Buffers == INSTANCE DoubleBuffer WITH
  Content  <- Nat \X Nat,
  owners   <- [s \in Slot |-> OwnersOf(s)],
  seized   <- unwaited,
  contents <- [s \in Slot |-> <<recorded[s], stagingBuffer[s]>>]

(* Command lists and staging buffers are double buffered: beginFrame to    *)
(* endFrame fill a slot only while no submission has it, or after a failed *)
(* wait for it, and submissions give slots back in the order of their      *)
(* frame numbers.                                                          *)
ImplementsDoubleBuffer == Buffers!Spec

(* Moreover, every slot that was submitted comes back.                     *)
SlotsComeBack == Buffers!FairSpec
=============================================================================
