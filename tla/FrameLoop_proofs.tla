-------------------------- MODULE FrameLoop_proofs --------------------------
(***************************************************************************)
(* What holds of the frame loop for any number of slots, any ring, any     *)
(* surface it serves and any set of failing driver calls.                  *)
(***************************************************************************)
EXTENDS FrameLoop, FiniteSetTheorems, TLAPS

LEMMA ModRange ==
  ASSUME NEW a \in Nat, NEW n \in Nat \ {0}
  PROVE  a % n \in 0 .. n - 1
  OBVIOUS

(* The neighbours that nextFrame destroys are never the current slot of    *)
(* the ring, whether or not the current slot is below the image count.     *)
LEMMA NeighboursDiffer ==
  ASSUME NEW cur \in Nat, NEW n \in Nat, n >= 2
  PROVE  /\ (cur + 1) % n # cur
         /\ (cur + n - 1) % n # cur
  OBVIOUS

(* A surface the ring serves leaves the image count between two and the    *)
(* length of the ring.                                                     *)
LEMMA ClampInRange ==
  ASSUME TypeOK, NEW c \in Capabilities
  PROVE  ClampImageCount(c) \in 2 .. RingSize
  BY ConstantsAssumption, SurfaceAssumption
  DEF TypeOK, ViewportTypes, ClampImageCount

LEMMA SubmissionTyped ==
  ASSUME TypeOK, swapchainData[currentSwapchain] # NoSwapchain
  PROVE  Submission \in SubmissionType
  BY DEF TypeOK, SlotTypes, ContentTypes, ViewportTypes, Submission,
         SubmissionType

(***************************************************************************)
(* Types.  Render is what guarantees that a submission names a swapchain.  *)
(***************************************************************************)
HasSwapchain ==
  pc = "submit" => swapchainData[currentSwapchain] # NoSwapchain

TypeInv == TypeOK /\ HasSwapchain

USE DEF host, slots, contents, viewport, gpu, surface, SubmissionType

LEMMA HandOverType ==
  ASSUME TypeOK, HandOverImage
  PROVE  SurfaceTypes'
<1>1. presented' \subseteq Nat
  BY DEF TypeOK, HandOverImage, SurfaceTypes, SlotTypes
<1>2. taken' \in Int
  BY DEF TypeOK, HandOverImage, SurfaceTypes
<1> QED BY <1>1, <1>2 DEF SurfaceTypes

LEMMA TypeInit == Init => TypeInv
<1> SUFFICES ASSUME Init PROVE TypeInv
    OBVIOUS
<1> USE ConstantsAssumption DEF Init
<1>1. HostTypes /\ HasSwapchain
  BY DEF HostTypes, HasSwapchain
<1>2. SlotTypes
  BY DEF SlotTypes, Slot
<1>3. ContentTypes
  BY DEF ContentTypes, NewFrame
<1>4. ViewportTypes
  BY DEF ViewportTypes, Ring
<1>5. GpuTypes /\ SurfaceTypes
  BY DEF GpuTypes, SurfaceTypes
<1> QED BY <1>1, <1>2, <1>3, <1>4, <1>5 DEF TypeInv, TypeOK

LEMMA TypeStep == TypeInv /\ [Next]_vars => TypeInv'
<1> SUFFICES ASSUME TypeInv, [Next]_vars PROVE TypeInv'
    OBVIOUS
<1> USE DEF TypeInv, HasSwapchain, TypeOK, HostTypes
<1>1. CASE UploadEvents
  BY <1>1 DEF UploadEvents, SlotTypes, ContentTypes, ViewportTypes, GpuTypes,
             SurfaceTypes
<1>2. CASE UpdateFOV
  BY <1>2 DEF UpdateFOV, SlotTypes, ContentTypes, ViewportTypes, GpuTypes,
             SurfaceTypes
<1>3. CASE UpdateUniforms
  <2>1. staged' \in BOOLEAN
    BY <1>3 DEF UpdateUniforms, ContentTypes
  <2>2. ContentTypes'
    BY <1>3, <2>1 DEF UpdateUniforms, NewFrame, ContentTypes, SlotTypes
  <2> QED BY <1>3, <2>2 DEF UpdateUniforms, SlotTypes, ViewportTypes, GpuTypes,
                            SurfaceTypes
<1>4. CASE WaitSlot \/ WaitFails
  BY <1>4 DEF WaitSlot, WaitFails, SlotTypes, ContentTypes, ViewportTypes, GpuTypes,
             SurfaceTypes
<1>5. CASE RecreateSwapchain
  <2>1. imageCount' \in 2 .. RingSize
    BY <1>5, ClampInRange DEF RecreateSwapchain
  <2>2. NextIndex \in Ring
    BY ConstantsAssumption, ModRange DEF ViewportTypes, NextIndex, Ring
  <2>3. swapchainData' \in [Ring -> Swapchain \cup {NoSwapchain}]
    BY <1>5, <2>2 DEF RecreateSwapchain, Survivors, ViewportTypes
  <2>4. ViewportTypes'
    BY <1>5, <2>1, <2>2, <2>3 DEF RecreateSwapchain, ViewportTypes
  <2>5. SurfaceTypes'
    BY <1>5 DEF RecreateSwapchain, SurfaceTypes
  <2>6. UNCHANGED <<host, slots, contents, gpu>> /\ pc = "next"
    BY <1>5 DEF RecreateSwapchain
  <2> QED BY <2>4, <2>5, <2>6 DEF SlotTypes, ContentTypes, GpuTypes
<1>6. CASE RecreateFails
  <2>1. imageCount' \in 2 .. RingSize
    BY <1>6, ClampInRange DEF RecreateFails
  <2>2. swapchainData' \in [Ring -> Swapchain \cup {NoSwapchain}]
    BY <1>6 DEF RecreateFails, Survivors, ViewportTypes
  <2>3. ViewportTypes'
    BY <1>6, <2>1, <2>2 DEF RecreateFails, ViewportTypes
  <2> QED BY <1>6, <2>3
          DEF RecreateFails, SlotTypes, ContentTypes, GpuTypes, SurfaceTypes
<1>7. CASE AcquireImage
  <2>1. taken' \in Int /\ UNCHANGED presented
    BY <1>7 DEF AcquireImage, SurfaceTypes
  <2>2. ContentTypes'
    BY <1>7 DEF AcquireImage, ContentTypes
  <2>3. UNCHANGED <<quit, resizeEvent, slots, viewport, gpu>> /\ pc' = "begin"
    BY <1>7 DEF AcquireImage
  <2> QED BY <2>1, <2>2, <2>3 DEF SlotTypes, ViewportTypes, GpuTypes,
                                  SurfaceTypes
<1>8. CASE AcquireFails
  BY <1>8 DEF AcquireFails, SlotTypes, ContentTypes, ViewportTypes, GpuTypes,
             SurfaceTypes
<1>9. CASE BeginRecording
  BY <1>9 DEF BeginRecording, SlotTypes, ContentTypes, ViewportTypes, GpuTypes,
             SurfaceTypes
<1>10. CASE BeginFails
  BY <1>10 DEF BeginFails, SlotTypes, ContentTypes, ViewportTypes, GpuTypes,
              SurfaceTypes
<1>11. CASE TransferData
  <2>1. ContentTypes'
    <3>1. stagingBuffer' \in [Slot -> Nat]
      BY <1>11 DEF TransferData, ContentTypes, SlotTypes
    <3>2. /\ frame' \in [acquired : BOOLEAN, begun : BOOLEAN, carries : BOOLEAN]
          /\ staged' \in BOOLEAN
      BY <1>11 DEF TransferData, ContentTypes
    <3>3. UNCHANGED <<recorded, uniform>>
      BY <1>11 DEF TransferData
    <3> QED BY <3>1, <3>2, <3>3 DEF ContentTypes
  <2> QED BY <1>11, <2>1 DEF TransferData, SlotTypes, ViewportTypes, GpuTypes,
                             SurfaceTypes
<1>12. CASE Render
  BY <1>12 DEF Render, SlotTypes, ContentTypes, ViewportTypes, GpuTypes,
              SurfaceTypes
<1>13. CASE EndCommandBufferFails
  BY <1>13 DEF EndCommandBufferFails, SlotTypes, ContentTypes, ViewportTypes,
              GpuTypes, SurfaceTypes
<1>14. CASE Submit
  <2>1. GpuTypes'
    BY <1>14, SubmissionTyped DEF Submit, GpuTypes
  <2>2. SlotTypes'
    BY <1>14 DEF Submit, TakeFrameNumber, SlotTypes
  <2> QED BY <1>14, <2>1, <2>2
          DEF Submit, ContentTypes, ViewportTypes, SurfaceTypes
<1>15. CASE SubmitFails
  <2>1. SlotTypes'
    BY <1>15 DEF SubmitFails, TakeFrameNumber, SlotTypes
  <2> QED BY <1>15, <2>1
          DEF SubmitFails, ContentTypes, ViewportTypes, GpuTypes, SurfaceTypes
<1>16. CASE PresentImage
  <2>1. SlotTypes'
    BY <1>16, ConstantsAssumption, ModRange DEF PresentImage, SlotTypes, Slot
  <2>2. SurfaceTypes'
    BY <1>16, HandOverType DEF PresentImage
  <2>3. UNCHANGED <<quit, resizeEvent, contents, viewport, gpu>> /\ pc' = "clear"
    BY <1>16 DEF PresentImage
  <2> QED BY <2>1, <2>2, <2>3 DEF ContentTypes, ViewportTypes, GpuTypes
<1>17. CASE PresentFails
  <2>1. SurfaceTypes'
    BY <1>17, HandOverType DEF PresentFails
  <2>2. /\ UNCHANGED <<quit, resizeEvent, slots, contents, viewport, gpu>>
        /\ pc' = "clear"
    BY <1>17 DEF PresentFails
  <2> QED BY <2>1, <2>2 DEF SlotTypes, ContentTypes, ViewportTypes, GpuTypes
<1>18. CASE ClearEvents
  BY <1>18 DEF ClearEvents, SlotTypes, ContentTypes, ViewportTypes, GpuTypes,
              SurfaceTypes
<1>19. CASE DeinitRenderer
  BY <1>19 DEF DeinitRenderer, SlotTypes, ContentTypes, ViewportTypes, GpuTypes,
              SurfaceTypes
<1>20. CASE DeinitViewport \/ DeinitFails
  BY <1>20 DEF DeinitViewport, DeinitFails, SlotTypes, ContentTypes,
              ViewportTypes, GpuTypes, SurfaceTypes
<1>21. CASE ExecuteFrame
  <2>1. GpuTypes'
    BY <1>21 DEF ExecuteFrame, GpuTypes
  <2> QED BY <1>21, <2>1
          DEF ExecuteFrame, SlotTypes, ContentTypes, ViewportTypes, SurfaceTypes
<1>22. CASE ReleaseImage
  <2>1. SurfaceTypes'
    BY <1>22 DEF ReleaseImage, SurfaceTypes
  <2> QED BY <1>22, <2>1
          DEF ReleaseImage, SlotTypes, ContentTypes, ViewportTypes, GpuTypes
<1>23. CASE Terminated \/ UNCHANGED vars
  BY <1>23 DEF Terminated, vars, SlotTypes, ContentTypes, ViewportTypes, GpuTypes,
              SurfaceTypes
<1> QED
  BY <1>1, <1>2, <1>3, <1>4, <1>5, <1>6, <1>7, <1>8, <1>9, <1>10, <1>11,
     <1>12, <1>13, <1>14, <1>15, <1>16, <1>17, <1>18, <1>19, <1>20, <1>21,
     <1>22, <1>23
  DEF Next, HostStep

(* The variables of the frame loop keep their types.                       *)
THEOREM TypeCorrect == Spec => []TypeOK
<1>1. Spec => []TypeInv
  BY TypeInit, TypeStep, PTL DEF Spec
<1> QED BY <1>1, PTL DEF TypeInv

(***************************************************************************)
(* Slots.  Every frame number above the timeline is the wait value of one  *)
(* slot, or one that a slot forgot because it was not waited for; and the  *)
(* slot the host works on is none of those that still wait for their       *)
(* frame, unless its wait failed.                                          *)
(***************************************************************************)
WorksOnSlot == {"next", "begin", "upload", "render", "submit"}

NumbersKept ==
  \A v \in timeline + 1 .. semaphoreValue :
    \E s \in Slot : \/ waitValues[s] = v
                    \/ s \in unwaited /\ v < waitValues[s]

FramesWaitedFor ==
  \A f \in inFlight :
    /\ timeline < f.value /\ f.value <= waitValues[f.slot]
    /\ f.slot \notin unwaited => f.value = waitValues[f.slot]

SlotInv ==
  /\ timeline <= semaphoreValue
  /\ \A s \in Slot : waitValues[s] <= semaphoreValue
  /\ NumbersKept
  /\ \A s, t \in Slot : waitValues[s] = waitValues[t] /\ s # t => waitValues[s] = 0
  /\ FramesWaitedFor
  /\ \A f, g \in inFlight : f.value = g.value => f = g
  /\ pc \in WorksOnSlot => SlotFree \/ imageIndex \in unwaited
  /\ pc \in {"next", "begin"} => imageIndex \notin unwaited

(* The uniform buffers hold the matrices of the current or the last frame. *)
UniformInv ==
  /\ uniform \in semaphoreValue .. semaphoreValue + 1
  /\ pc \in WorksOnSlot \cup {"wait"} => uniform = semaphoreValue + 1

CleanInv ==
  /\ CleanShutdown
  /\ pc = "preDeinit" => quit

(* A slot's list holds no frame younger than the slot's last number, but   *)
(* the one that is being recorded, or was when ending the list failed.     *)
ListsKnown ==
  \A s \in Slot : \/ recorded[s] <= waitValues[s]
                  \/ s = imageIndex /\ recorded[s] = semaphoreValue + 1

(* What the host has put into its slot so far, and that nobody else's slot *)
(* was touched.                                                            *)
ContentInv ==
  /\ GpuReadsItsOwnFrame
  /\ ListsKnown
  /\ pc = "present" => recorded[imageIndex] <= waitValues[imageIndex]
  /\ pc = "submit" /\ frame.begun => recorded[imageIndex] = semaphoreValue + 1
  /\ pc \in {"render", "submit"} /\ frame.carries
       => stagingBuffer[imageIndex] = semaphoreValue + 1

(* The frame's slot has not been part of a recreation yet.                 *)
BeforeRecreation ==
  \/ pc \in {"present", "clear", "events", "fov", "uniforms", "wait"}
  \/ pc = "next" /\ resized

Recreated == IF BeforeRecreation THEN {} ELSE {imageIndex}

(* A frame that draws into another swapchain than the current one is       *)
(* finished before the next recreation: every slot whose wait can lead     *)
(* there waits for at least its number.                                    *)
SwapchainInv ==
  /\ SwapchainOutlivesFrames
  /\ \A f \in inFlight :
       f.swapchain # swapchainData[currentSwapchain] =>
         \A s \in Slot \ Recreated : f.value <= waitValues[s]

LEMMA SlotInit == Init => SlotInv
<1> SUFFICES ASSUME Init PROVE SlotInv
    OBVIOUS
<1> QED BY ConstantsAssumption
        DEF Init, SlotInv, NumbersKept, FramesWaitedFor, WorksOnSlot, Slot

(* Steps that take no frame number, finish no frame and turn to no other   *)
(* slot.                                                                   *)
LEMMA SlotsUntouched ==
  ASSUME SlotInv, UNCHANGED <<slots, gpu>>,
         pc' \in WorksOnSlot => pc \in WorksOnSlot,
         pc' \in {"next", "begin"} => pc \in {"next", "begin"}
  PROVE  SlotInv'
  BY DEF SlotInv, NumbersKept, FramesWaitedFor, SlotFree

(* The host works on no slot that a frame in flight has, if it waited.     *)
LEMMA OwnSlot ==
  ASSUME TypeOK, SlotInv, pc \in WorksOnSlot, imageIndex \notin unwaited,
         NEW f \in inFlight
  PROVE  f.slot # imageIndex
<1>1. waitValues[imageIndex] <= timeline
  BY DEF SlotInv, SlotFree
<1>2. timeline < f.value /\ f.value <= waitValues[f.slot]
  BY DEF SlotInv, FramesWaitedFor
<1> QED BY <1>1, <1>2 DEF TypeOK, SlotTypes, GpuTypes

(* A successful wait: the slot is free, and nothing below its number is    *)
(* pending.                                                                *)
LEMMA SlotWaitedFor ==
  ASSUME TypeOK, SlotInv, WaitSlot
  PROVE  SlotInv'
<1> USE DEF TypeOK, SlotTypes, GpuTypes
<1>1. /\ UNCHANGED <<imageIndex, semaphoreValue, waitValues, gpu>>
      /\ unwaited' = unwaited \ {imageIndex}
      /\ waitValues[imageIndex] <= timeline /\ pc' = "next"
  BY DEF WaitSlot, SlotFree
<1>2. NumbersKept'
  <2> SUFFICES ASSUME NEW v \in timeline + 1 .. semaphoreValue
               PROVE  \E s \in Slot : \/ waitValues[s] = v
                                      \/ s \in unwaited' /\ v < waitValues[s]
      BY <1>1 DEF NumbersKept
  <2>1. PICK s \in Slot : \/ waitValues[s] = v
                          \/ s \in unwaited /\ v < waitValues[s]
    BY DEF SlotInv, NumbersKept
  <2>2. s # imageIndex
    BY <1>1, <2>1
  <2> QED BY <1>1, <2>1, <2>2
<1>3. FramesWaitedFor'
  <2> SUFFICES ASSUME NEW f \in inFlight
               PROVE  /\ timeline < f.value /\ f.value <= waitValues[f.slot]
                      /\ f.slot \notin unwaited' => f.value = waitValues[f.slot]
      BY <1>1 DEF FramesWaitedFor
  <2>1. /\ timeline < f.value /\ f.value <= waitValues[f.slot]
        /\ f.slot \notin unwaited => f.value = waitValues[f.slot]
    BY DEF SlotInv, FramesWaitedFor
  <2>2. f.slot # imageIndex
    BY <1>1, <2>1
  <2> QED BY <1>1, <2>1, <2>2
<1> QED BY <1>1, <1>2, <1>3 DEF SlotInv, SlotFree

(* A failed wait: what is known of the slot's frames is only weakened.     *)
LEMMA SlotTaken ==
  ASSUME TypeOK, SlotInv, WaitFails
  PROVE  SlotInv'
<1>1. /\ UNCHANGED <<imageIndex, semaphoreValue, waitValues, gpu>>
      /\ unwaited' = unwaited \cup {imageIndex} /\ pc' = "upload"
  BY DEF WaitFails
<1>2. NumbersKept'
  BY <1>1 DEF SlotInv, NumbersKept
<1>3. FramesWaitedFor'
  BY <1>1 DEF SlotInv, FramesWaitedFor
<1> QED BY <1>1, <1>2, <1>3 DEF SlotInv

(* Taking the next frame number for the slot the host works on.            *)
LEMMA FrameNumberTaken ==
  ASSUME TypeOK, SlotInv, pc = "submit", TakeFrameNumber,
         UNCHANGED <<imageIndex, unwaited, timeline>>, pc' \notin WorksOnSlot,
         inFlight' \subseteq inFlight \cup {Submission}
  PROVE  SlotInv'
<1> USE DEF TypeOK, SlotTypes, GpuTypes
<1>1. waitValues[imageIndex] <= timeline \/ imageIndex \in unwaited
  BY DEF SlotInv, SlotFree, WorksOnSlot
<1>2. /\ semaphoreValue' = semaphoreValue + 1
      /\ waitValues' = [waitValues EXCEPT ![imageIndex] = semaphoreValue + 1]
  BY DEF TakeFrameNumber
<1>3. timeline' <= semaphoreValue'
  BY <1>2 DEF SlotInv
<1>4. \A s \in Slot : waitValues'[s] <= semaphoreValue'
  BY <1>2 DEF SlotInv
<1>5. NumbersKept'
  <2> SUFFICES ASSUME NEW v \in timeline + 1 .. semaphoreValue + 1
               PROVE  \E s \in Slot : \/ waitValues'[s] = v
                                      \/ s \in unwaited /\ v < waitValues'[s]
      BY <1>2 DEF NumbersKept
  <2>1. CASE v = semaphoreValue + 1
    BY <1>2, <2>1
  <2>2. CASE v # semaphoreValue + 1
    <3>1. v \in timeline + 1 .. semaphoreValue
      BY <2>2
    <3>2. PICK s \in Slot : \/ waitValues[s] = v
                            \/ s \in unwaited /\ v < waitValues[s]
      BY <3>1 DEF SlotInv, NumbersKept
    <3>3. CASE s # imageIndex
      BY <1>2, <3>2, <3>3
    <3>4. CASE s = imageIndex
      <4>1. imageIndex \in unwaited
        BY <1>1, <3>1, <3>2, <3>4
      <4>2. v < waitValues'[imageIndex]
        BY <1>2, <3>1
      <4> QED BY <4>1, <4>2
    <3> QED BY <3>3, <3>4
  <2> QED BY <2>1, <2>2
<1>6. \A s, t \in Slot : waitValues'[s] = waitValues'[t] /\ s # t => waitValues'[s] = 0
  BY <1>2 DEF SlotInv
<1>7. FramesWaitedFor'
  <2> SUFFICES ASSUME NEW f \in inFlight'
               PROVE  /\ timeline < f.value /\ f.value <= waitValues'[f.slot]
                      /\ f.slot \notin unwaited => f.value = waitValues'[f.slot]
      BY DEF FramesWaitedFor
  <2>1. CASE f = Submission
    BY <1>2, <2>1 DEF SlotInv, Submission
  <2>2. CASE f \in inFlight
    <3>1. /\ timeline < f.value /\ f.value <= waitValues[f.slot]
          /\ f.slot \notin unwaited => f.value = waitValues[f.slot]
          /\ f.slot \in Slot /\ waitValues[f.slot] <= semaphoreValue
      BY <2>2 DEF SlotInv, FramesWaitedFor
    <3>2. CASE f.slot # imageIndex
      BY <1>2, <3>1, <3>2
    <3>3. CASE f.slot = imageIndex
      <4>1. imageIndex \in unwaited
        BY <1>1, <3>1, <3>3
      <4>2. f.value <= waitValues'[imageIndex]
        BY <1>2, <2>2, <3>1
      <4> QED BY <3>1, <3>3, <4>1, <4>2
    <3> QED BY <3>2, <3>3
  <2> QED BY <2>1, <2>2
<1>8. \A f, g \in inFlight' : f.value = g.value => f = g
  <2>1. \A f \in inFlight : f.value <= semaphoreValue
    BY DEF SlotInv, FramesWaitedFor
  <2>2. Submission.value = semaphoreValue + 1
    BY DEF Submission
  <2> QED BY <2>1, <2>2 DEF SlotInv
<1>9. pc' \notin {"next", "begin"}
  BY DEF WorksOnSlot
<1> QED BY <1>3, <1>4, <1>5, <1>6, <1>7, <1>8, <1>9 DEF SlotInv

LEMMA SlotStep == TypeInv /\ SlotInv /\ [Next]_vars => SlotInv'
<1> SUFFICES ASSUME TypeInv, SlotInv, [Next]_vars PROVE SlotInv'
    OBVIOUS
<1> USE DEF TypeInv
<1>1. CASE \/ UploadEvents \/ UpdateFOV \/ UpdateUniforms
           \/ EndCommandBufferFails \/ PresentFails \/ ClearEvents
           \/ DeinitRenderer \/ DeinitFails \/ DeinitViewport \/ ReleaseImage
  BY <1>1, SlotsUntouched
  DEF UploadEvents, UpdateFOV, UpdateUniforms, EndCommandBufferFails,
      PresentFails, ClearEvents, DeinitRenderer, DeinitFails, DeinitViewport,
      ReleaseImage, WorksOnSlot
<1>2. CASE \/ RecreateSwapchain \/ RecreateFails \/ AcquireImage \/ AcquireFails
           \/ BeginRecording \/ BeginFails
  BY <1>2, SlotsUntouched
  DEF RecreateSwapchain, RecreateFails, AcquireImage, AcquireFails,
      BeginRecording, BeginFails, WorksOnSlot
<1>3. CASE TransferData \/ Render
  BY <1>3, SlotsUntouched DEF TransferData, Render, WorksOnSlot
<1>4. CASE WaitSlot \/ WaitFails
  BY <1>4, SlotWaitedFor, SlotTaken
<1>5. CASE Submit
  BY <1>5, FrameNumberTaken DEF Submit, WorksOnSlot
<1>6. CASE SubmitFails
  BY <1>6, FrameNumberTaken DEF SubmitFails, WorksOnSlot
<1>7. CASE PresentImage
  BY <1>7 DEF PresentImage, SlotInv, NumbersKept, FramesWaitedFor, WorksOnSlot
<1>8. CASE ExecuteFrame
  <2> USE DEF TypeOK, SlotTypes, GpuTypes
  <2>1. PICK f \in inFlight : /\ f.value = timeline + 1
                              /\ timeline' = f.value
                              /\ inFlight' = inFlight \ {f}
    BY <1>8 DEF ExecuteFrame
  <2>2. UNCHANGED <<pc, slots>>
    BY <1>8 DEF ExecuteFrame
  <2>3. FramesWaitedFor'
    <3> SUFFICES ASSUME NEW g \in inFlight'
                 PROVE  /\ timeline' < g.value /\ g.value <= waitValues[g.slot]
                        /\ g.slot \notin unwaited => g.value = waitValues[g.slot]
        BY <2>2 DEF FramesWaitedFor
    <3>1. /\ g \in inFlight /\ timeline < g.value /\ g.value <= waitValues[g.slot]
          /\ g.slot \notin unwaited => g.value = waitValues[g.slot]
      BY <2>1 DEF SlotInv, FramesWaitedFor
    <3>2. g.value # f.value
      BY <2>1, <3>1 DEF SlotInv
    <3> QED BY <2>1, <3>1, <3>2
  <2>4. timeline' <= semaphoreValue'
    <3>1. f.value <= waitValues[f.slot] /\ waitValues[f.slot] <= semaphoreValue
      BY DEF SlotInv, FramesWaitedFor
    <3> QED BY <2>1, <2>2, <3>1
  <2>5. NumbersKept'
    BY <2>1, <2>2 DEF SlotInv, NumbersKept
  <2>6. pc' \in WorksOnSlot => SlotFree' \/ imageIndex' \in unwaited'
    BY <2>1, <2>2 DEF SlotInv, SlotFree
  <2>7. \A g, h \in inFlight' : g.value = h.value => g = h
    BY <2>1 DEF SlotInv
  <2> QED BY <2>2, <2>3, <2>4, <2>5, <2>6, <2>7 DEF SlotInv
<1>9. CASE Terminated \/ UNCHANGED vars
  BY <1>9, SlotsUntouched DEF Terminated, vars
<1> QED
  BY <1>1, <1>2, <1>3, <1>4, <1>5, <1>6, <1>7, <1>8, <1>9 DEF Next, HostStep

LEMMA SlotInvariant == Spec => [](TypeInv /\ SlotInv)
  BY TypeInit, TypeStep, SlotInit, SlotStep, PTL DEF Spec

(* If every slot was waited for, no more frame numbers are taken and not   *)
(* signalled than there are slots: each is the wait value of a slot of its *)
(* own.                                                                    *)
LEMMA LeadBound ==
  ASSUME TypeOK, SlotInv, unwaited = {}
  PROVE  semaphoreValue <= timeline + BufferedImages
<1> USE DEF TypeOK, SlotTypes, GpuTypes
<1> DEFINE Pending == timeline + 1 .. semaphoreValue
           Holders == {s \in Slot : waitValues[s] \in Pending}
           number  == [s \in Holders |-> waitValues[s]]
<1>1. IsFiniteSet(Slot) /\ Cardinality(Slot) = BufferedImages
  BY ConstantsAssumption, FS_Interval DEF Slot
<1>2. IsFiniteSet(Holders) /\ Cardinality(Holders) <= BufferedImages
  <2>1. Holders \in SUBSET Slot
    OBVIOUS
  <2> HIDE DEF Holders
  <2> QED BY <1>1, <2>1, FS_Subset
<1>3. number \in Surjection(Holders, Pending)
  <2>1. \A v \in Pending : \E s \in Holders : number[s] = v
    BY DEF SlotInv, NumbersKept
  <2>2. number \in [Holders -> Pending]
    OBVIOUS
  <2> QED BY <2>1, <2>2 DEF Surjection
<1>4. Cardinality(Pending) <= Cardinality(Holders)
  <2> HIDE DEF Pending, Holders, number
  <2> QED BY <1>2, <1>3, FS_Surjection
<1>5. Cardinality(Pending) = IF timeline + 1 > semaphoreValue THEN 0
                             ELSE semaphoreValue - timeline
  BY FS_Interval
<1>6. Cardinality(Holders) \in Nat
  <2> HIDE DEF Holders
  <2> QED BY <1>2, FS_CardinalityType
<1> HIDE DEF Pending, Holders
<1> QED BY <1>2, <1>4, <1>5, <1>6, ConstantsAssumption

(* Whichever driver calls fail, the waits included: the host is at most    *)
(* BufferedImages frames ahead of the GPU while every slot was waited for, *)
(* and a slot serves two unfinished frames only after its wait failed.     *)
THEOREM LeadCorrect == Spec => []BoundedLead
<1>1. ASSUME TypeInv, SlotInv PROVE BoundedLead
  <2> USE <1>1 DEF TypeInv
  <2>1. unwaited = {} => semaphoreValue <= timeline + BufferedImages
    BY LeadBound
  <2>2. ASSUME NEW f \in inFlight, NEW g \in inFlight, f.slot = g.slot
        PROVE  f = g \/ f.slot \in unwaited
    BY <2>2 DEF SlotInv, FramesWaitedFor
  <2> QED BY <2>1, <2>2 DEF BoundedLead
<1> QED BY <1>1, SlotInvariant, PTL

(***************************************************************************)
(* Shutdown.                                                               *)
(***************************************************************************)
(* When the last frame number is signalled, every submission is finished.  *)
LEMMA NothingPending ==
  ASSUME TypeOK, SlotInv, semaphoreValue <= timeline
  PROVE  inFlight = {}
<1>1. ASSUME NEW f \in inFlight PROVE FALSE
  <2>1. timeline < f.value /\ f.value <= waitValues[f.slot]
    BY DEF SlotInv, FramesWaitedFor
  <2>2. waitValues[f.slot] <= semaphoreValue
    BY DEF SlotInv, TypeOK, GpuTypes
  <2> QED BY <2>1, <2>2 DEF TypeOK, SlotTypes, GpuTypes
<1> QED BY <1>1

LEMMA CleanStep ==
  TypeInv /\ SlotInv /\ CleanInv /\ [Next]_vars => CleanInv'
<1> SUFFICES ASSUME TypeInv, SlotInv, CleanInv, [Next]_vars PROVE CleanInv'
    OBVIOUS
<1> USE DEF CleanInv, CleanShutdown
<1>1. CASE DeinitRenderer
  <2>1. inFlight = {}
    BY <1>1, NothingPending DEF DeinitRenderer, TypeInv
  <2> QED BY <1>1, <2>1 DEF DeinitRenderer
<1>2. CASE DeinitViewport \/ DeinitFails \/ ExecuteFrame \/ ReleaseImage
           \/ Terminated \/ UNCHANGED vars
  BY <1>2 DEF DeinitViewport, DeinitFails, ExecuteFrame, ReleaseImage, Terminated, vars
<1>3. CASE \/ UploadEvents \/ UpdateFOV \/ UpdateUniforms \/ WaitSlot
           \/ WaitFails \/ TransferData \/ Render
  BY <1>3 DEF UploadEvents, UpdateFOV, UpdateUniforms, WaitSlot, WaitFails,
              TransferData, Render
<1>4. CASE \/ RecreateSwapchain \/ RecreateFails \/ AcquireImage \/ AcquireFails
           \/ BeginRecording \/ BeginFails
  BY <1>4 DEF RecreateSwapchain, RecreateFails, AcquireImage, AcquireFails,
              BeginRecording, BeginFails
<1>5. CASE \/ EndCommandBufferFails \/ Submit \/ SubmitFails \/ PresentImage
           \/ PresentFails \/ ClearEvents
  BY <1>5 DEF EndCommandBufferFails, Submit, SubmitFails, PresentImage,
              PresentFails, ClearEvents
<1> QED BY <1>1, <1>2, <1>3, <1>4, <1>5 DEF Next, HostStep

LEMMA CleanInvariant == Spec => []CleanInv
<1>1. Init => CleanInv
  BY DEF Init, CleanInv, CleanShutdown
<1> QED BY <1>1, CleanStep, SlotInvariant, PTL DEF Spec

(* Nothing is in flight when the renderer's and the viewport's objects are *)
(* destroyed.                                                              *)
THEOREM ShutdownCorrect == Spec => []CleanShutdown
  BY CleanInvariant, PTL DEF CleanInv

(***************************************************************************)
(* Uniform buffers.                                                        *)
(***************************************************************************)
LEMMA UniformStep ==
  TypeInv /\ SlotInv /\ UniformInv /\ [Next]_vars => UniformInv'
<1> SUFFICES ASSUME TypeInv, SlotInv, UniformInv, [Next]_vars PROVE UniformInv'
    OBVIOUS
<1> USE DEF UniformInv, WorksOnSlot, TypeInv, TypeOK, SlotTypes, ContentTypes
<1>1. CASE UpdateUniforms \/ WaitSlot \/ WaitFails
  <2>1. UNCHANGED semaphoreValue /\ uniform' = semaphoreValue + 1
    BY <1>1 DEF UpdateUniforms, WaitSlot, WaitFails
  <2> QED BY <2>1
<1>2. CASE Submit \/ SubmitFails
  BY <1>2 DEF Submit, SubmitFails, TakeFrameNumber
<1>3. CASE \/ UploadEvents \/ UpdateFOV \/ TransferData \/ Render
  BY <1>3 DEF UploadEvents, UpdateFOV, TransferData, Render
<1>4. CASE \/ RecreateSwapchain \/ RecreateFails \/ AcquireImage \/ AcquireFails
           \/ BeginRecording \/ BeginFails
  BY <1>4 DEF RecreateSwapchain, RecreateFails, AcquireImage, AcquireFails,
              BeginRecording, BeginFails
<1>5. CASE \/ EndCommandBufferFails \/ PresentImage \/ PresentFails
           \/ ClearEvents \/ DeinitRenderer \/ DeinitFails \/ DeinitViewport
  BY <1>5 DEF EndCommandBufferFails, PresentImage, PresentFails, ClearEvents,
              DeinitRenderer, DeinitFails, DeinitViewport
<1>6. CASE ExecuteFrame \/ ReleaseImage \/ Terminated \/ UNCHANGED vars
  BY <1>6 DEF ExecuteFrame, ReleaseImage, Terminated, vars
<1> QED BY <1>1, <1>2, <1>3, <1>4, <1>5, <1>6 DEF Next, HostStep

(* Whichever driver calls fail: a frame in flight reads no matrices older  *)
(* than its own, and, while every slot was waited for, none that are more  *)
(* than BufferedImages frames younger.                                     *)
THEOREM UniformSkewCorrect == Spec => []UniformSkew
<1>1. Init => UniformInv
  BY DEF Init, UniformInv, WorksOnSlot
<1>2. TypeInv /\ SlotInv /\ UniformInv => UniformSkew
  <2> SUFFICES ASSUME TypeInv, SlotInv, UniformInv, NEW f \in inFlight
               PROVE  /\ f.value <= uniform
                      /\ unwaited = {} => uniform <= f.value + BufferedImages
      BY DEF UniformSkew
  <2> USE DEF TypeInv, TypeOK, SlotTypes, ContentTypes, GpuTypes
  <2>1. f.value \in Nat /\ timeline < f.value /\ f.value <= semaphoreValue
    BY DEF SlotInv, FramesWaitedFor
  <2>2. unwaited = {} => semaphoreValue <= timeline + BufferedImages
    BY LeadBound
  <2> QED BY <2>1, <2>2, ConstantsAssumption DEF UniformInv
<1> QED BY <1>1, <1>2, UniformStep, SlotInvariant, PTL DEF Spec

(***************************************************************************)
(* Command lists and staging buffers.                                      *)
(***************************************************************************)

(* A frame in flight whose slot was waited for has another slot than the   *)
(* one the host works on, whether or not the host waited for that one.     *)
LEMMA OtherSlot ==
  ASSUME TypeOK, SlotInv, pc \in WorksOnSlot, NEW f \in inFlight,
         f.slot \notin unwaited
  PROVE  f.slot # imageIndex
  BY OwnSlot

(* What a slot keeps is known to the frames that are waited for.           *)
LEMMA ContentKept ==
  ASSUME GpuReadsItsOwnFrame, UNCHANGED <<inFlight, unwaited, timeline>>,
         \A f \in inFlight :
           f.slot \notin unwaited =>
             /\ recorded'[f.slot] = recorded[f.slot]
             /\ stagingBuffer'[f.slot] = stagingBuffer[f.slot]
  PROVE  GpuReadsItsOwnFrame'
  BY DEF GpuReadsItsOwnFrame

LEMMA ContentStep ==
  ASSUME TypeInv, SlotInv, ContentInv, [Next]_vars
  PROVE  ContentInv'
<1> USE DEF ContentInv, TypeInv
<1>1. CASE UpdateUniforms
  BY <1>1 DEF UpdateUniforms, GpuReadsItsOwnFrame, ListsKnown
<1>2. CASE \/ UploadEvents \/ UpdateFOV \/ RecreateSwapchain
           \/ RecreateFails \/ AcquireFails \/ DeinitFails
  BY <1>2 DEF UploadEvents, UpdateFOV, RecreateSwapchain,
              RecreateFails, AcquireFails, DeinitFails, GpuReadsItsOwnFrame,
              ListsKnown
<1>3. CASE AcquireImage
  BY <1>3 DEF AcquireImage, GpuReadsItsOwnFrame, ListsKnown
<1>4. CASE BeginRecording
  <2>1. pc = "begin" /\ UNCHANGED <<slots, gpu, stagingBuffer>>
        /\ recorded' = [recorded EXCEPT ![imageIndex] = 0] /\ pc' = "upload"
    BY <1>4 DEF BeginRecording
  <2>2. \A f \in inFlight : f.slot \notin unwaited => f.slot # imageIndex
    BY <2>1, OtherSlot DEF WorksOnSlot
  <2>3. GpuReadsItsOwnFrame'
    BY <2>1, <2>2, ContentKept DEF TypeOK, ContentTypes, GpuTypes
  <2>4. ListsKnown'
    BY <2>1 DEF ListsKnown, TypeOK, ContentTypes, SlotTypes
  <2> QED BY <2>1, <2>3, <2>4
<1>5. CASE BeginFails
  BY <1>5 DEF BeginFails, GpuReadsItsOwnFrame, ListsKnown
<1>6. CASE TransferData
  <2>1. /\ pc = "upload" /\ UNCHANGED <<slots, gpu, recorded>> /\ pc' = "render"
        /\ frame' = [frame EXCEPT !.carries = staged]
        /\ stagingBuffer' = IF staged
                            THEN [stagingBuffer EXCEPT
                                    ![imageIndex] = semaphoreValue + 1]
                            ELSE stagingBuffer
    BY <1>6 DEF TransferData
  <2>2. \A f \in inFlight : f.slot \notin unwaited => f.slot # imageIndex
    BY <2>1, OtherSlot DEF WorksOnSlot
  <2>3. GpuReadsItsOwnFrame'
    BY <2>1, <2>2, ContentKept DEF TypeOK, ContentTypes, GpuTypes
  <2>4. frame'.carries => stagingBuffer'[imageIndex] = semaphoreValue + 1
    BY <2>1 DEF TypeOK, ContentTypes, SlotTypes
  <2>5. ListsKnown'
    BY <2>1 DEF ListsKnown
  <2> QED BY <2>1, <2>3, <2>4, <2>5
<1>7. CASE Render
  <2>1. /\ pc = "render" /\ UNCHANGED <<slots, gpu, stagingBuffer, frame>>
        /\ \/ recorded' = [recorded EXCEPT ![imageIndex] = semaphoreValue + 1]
           \/ UNCHANGED recorded
        /\ pc' = "submit" /\ frame.begun
             => recorded' = [recorded EXCEPT ![imageIndex] = semaphoreValue + 1]
        /\ pc' \in {"submit", "panic"}
    BY <1>7 DEF Render
  <2>2. \A f \in inFlight : f.slot \notin unwaited => f.slot # imageIndex
    BY <2>1, OtherSlot DEF WorksOnSlot
  <2>3. GpuReadsItsOwnFrame'
    BY <2>1, <2>2, ContentKept DEF TypeOK, ContentTypes, GpuTypes
  <2>4. pc' = "submit" /\ frame.begun => recorded'[imageIndex] = semaphoreValue + 1
    BY <2>1 DEF TypeOK, ContentTypes, SlotTypes
  <2>5. ListsKnown'
    BY <2>1 DEF ListsKnown, TypeOK, ContentTypes, SlotTypes
  <2> QED BY <2>1, <2>3, <2>4, <2>5
<1>8. CASE Submit \/ SubmitFails
  <2>1. /\ pc = "submit" /\ pc' \in {"present", "clear"}
        /\ UNCHANGED <<imageIndex, unwaited, timeline, contents>>
        /\ inFlight' \subseteq inFlight \cup {Submission}
        /\ semaphoreValue' = semaphoreValue + 1
        /\ waitValues' = [waitValues EXCEPT ![imageIndex] = semaphoreValue + 1]
    BY <1>8 DEF Submit, SubmitFails, TakeFrameNumber
  <2>2. GpuReadsItsOwnFrame'
    <3> SUFFICES ASSUME NEW f \in inFlight', f.slot \notin unwaited
                 PROVE  /\ \/ recorded[f.slot] = f.value
                           \/ ~f.begun /\ recorded[f.slot] <= timeline
                        /\ f.carries => stagingBuffer[f.slot] = f.value
        BY <2>1 DEF GpuReadsItsOwnFrame
    <3>1. CASE f \in inFlight
      BY <3>1 DEF GpuReadsItsOwnFrame
    <3>2. CASE f = Submission
      <4>1. /\ f.slot = imageIndex /\ f.value = semaphoreValue + 1
            /\ f.begun = frame.begun /\ f.carries = frame.carries
        BY <3>2 DEF Submission
      <4>2. waitValues[imageIndex] <= timeline
        BY <2>1, <4>1 DEF SlotInv, SlotFree, WorksOnSlot
      <4>3. recorded[imageIndex] <= timeline \/ recorded[imageIndex] = f.value
        BY <4>1, <4>2 DEF ListsKnown, TypeOK, ContentTypes, SlotTypes, GpuTypes
      <4> QED BY <2>1, <4>1, <4>3 DEF TypeOK, ContentTypes
    <3> QED BY <2>1, <3>1, <3>2
  <2>3. ASSUME NEW s \in Slot PROVE recorded[s] <= waitValues'[s]
    BY <2>1 DEF ListsKnown, SlotInv, TypeOK, ContentTypes, SlotTypes
  <2>4. imageIndex \in Slot
    BY DEF TypeOK, SlotTypes
  <2> QED BY <2>1, <2>2, <2>3, <2>4 DEF ListsKnown
<1>9. CASE \/ EndCommandBufferFails \/ PresentFails \/ ClearEvents
           \/ DeinitViewport
  BY <1>9 DEF EndCommandBufferFails, PresentFails, ClearEvents, DeinitViewport,
              GpuReadsItsOwnFrame, ListsKnown
<1>10. CASE PresentImage
  <2>1. /\ pc = "present" /\ pc' = "clear"
        /\ UNCHANGED <<semaphoreValue, waitValues, unwaited, contents, gpu>>
    BY <1>10 DEF PresentImage
  <2>2. GpuReadsItsOwnFrame'
    BY <2>1 DEF GpuReadsItsOwnFrame
  <2>3. ListsKnown'
    BY <2>1 DEF ListsKnown
  <2> QED BY <2>1, <2>2, <2>3
<1>11. CASE DeinitRenderer
  <2>1. inFlight = {} /\ UNCHANGED <<inFlight, slots>> /\ pc' = "deinit"
        /\ recorded' = [s \in Slot |-> 0]
    BY <1>11, NothingPending DEF DeinitRenderer
  <2> QED BY <2>1 DEF GpuReadsItsOwnFrame, ListsKnown, TypeOK, SlotTypes
<1>12. CASE ExecuteFrame
  <2>1. UNCHANGED <<host, slots, contents>> /\ timeline <= timeline'
        /\ inFlight' \subseteq inFlight /\ timeline' \in Nat
    BY <1>12 DEF ExecuteFrame, TypeOK, GpuTypes
  <2>2. GpuReadsItsOwnFrame'
    <3> SUFFICES ASSUME NEW f \in inFlight, f.slot \notin unwaited
                 PROVE  /\ \/ recorded[f.slot] = f.value
                           \/ ~f.begun /\ recorded[f.slot] <= timeline'
                        /\ f.carries => stagingBuffer[f.slot] = f.value
        BY <2>1 DEF GpuReadsItsOwnFrame
    <3>1. recorded[f.slot] \in Nat
      BY DEF TypeOK, GpuTypes, ContentTypes
    <3> QED BY <2>1, <3>1 DEF GpuReadsItsOwnFrame, TypeOK, GpuTypes
  <2> QED BY <2>1, <2>2 DEF ListsKnown
<1>13. CASE WaitSlot \/ WaitFails
  <2>1. /\ UNCHANGED <<imageIndex, semaphoreValue, waitValues, contents, gpu>>
        /\ pc' \in {"next", "upload"}
    BY <1>13 DEF WaitSlot, WaitFails
  <2>2. \A f \in inFlight : f.slot \notin unwaited' => f.slot \notin unwaited
    <3>1. CASE WaitFails
      BY <3>1 DEF WaitFails
    <3>2. CASE WaitSlot
      <4>1. ASSUME NEW f \in inFlight PROVE f.slot # imageIndex
        BY <3>2 DEF WaitSlot, SlotFree, SlotInv, FramesWaitedFor, TypeOK,
                    SlotTypes, GpuTypes
      <4> QED BY <3>2, <4>1 DEF WaitSlot
    <3> QED BY <1>13, <3>1, <3>2
  <2>3. GpuReadsItsOwnFrame'
    BY <2>1, <2>2 DEF GpuReadsItsOwnFrame
  <2> QED BY <2>1, <2>3 DEF ListsKnown
<1>14. CASE ReleaseImage \/ Terminated \/ UNCHANGED vars
  BY <1>14 DEF ReleaseImage, Terminated, vars, GpuReadsItsOwnFrame, ListsKnown
<1> QED
  BY <1>1, <1>2, <1>3, <1>4, <1>5, <1>6, <1>7, <1>8, <1>9, <1>10, <1>11,
     <1>12, <1>13, <1>14
  DEF Next, HostStep

(* Whichever driver calls fail: the GPU reads the commands and the staged  *)
(* bytes of the frame it executes, unless the wait for its slot failed or  *)
(* the list was never begun for it; then the list is of a finished frame.  *)
THEOREM ContentCorrect == Spec => []GpuReadsItsOwnFrame
<1>1. Init => ContentInv
  BY DEF Init, ContentInv, GpuReadsItsOwnFrame, ListsKnown
<1>2. TypeInv /\ SlotInv /\ ContentInv /\ [Next]_vars => ContentInv'
  BY ContentStep
<1>3. ContentInv => GpuReadsItsOwnFrame
  BY DEF ContentInv
<1> QED BY <1>1, <1>2, <1>3, SlotInvariant, PTL DEF Spec

(***************************************************************************)
(* Swapchains.  With two slots, every frame that can be in flight while    *)
(* the swapchain is recreated draws into the current one, which recreation *)
(* keeps.  A frame whose wait failed recreates nothing.                    *)
(***************************************************************************)
LEMMA AllDrawIntoCurrent ==
  ASSUME TypeInv, SlotInv, SwapchainInv, pc = "next", resized, NEW f \in inFlight
  PROVE  f.swapchain = swapchainData[currentSwapchain]
<1> USE DEF TypeInv, TypeOK, SlotTypes, GpuTypes
<1>1. waitValues[imageIndex] <= timeline /\ timeline < f.value
  BY DEF SlotInv, SlotFree, WorksOnSlot, FramesWaitedFor
<1>2. Recreated = {}
  BY DEF Recreated, BeforeRecreation
<1>3. ~(f.value <= waitValues[imageIndex])
  BY <1>1
<1> QED BY <1>2, <1>3 DEF SwapchainInv

(* And its slot is the other one.                                          *)
LEMMA OtherSlotsWait ==
  ASSUME BufferedImages <= 2, TypeInv, SlotInv, pc = "next",
         NEW f \in inFlight, NEW s \in Slot \ {imageIndex}
  PROVE  f.value <= waitValues[s]
<1> USE DEF TypeInv, TypeOK, SlotTypes, GpuTypes
<1>1. f.slot # imageIndex /\ f.slot \in Slot
  BY OwnSlot DEF SlotInv, WorksOnSlot
<1>2. f.slot = s
  BY <1>1, ConstantsAssumption DEF Slot
<1> QED BY <1>2 DEF SlotInv, FramesWaitedFor

LEMMA RecreationKeepsCurrent ==
  ASSUME TypeInv
  PROVE  /\ NextIndex # currentSwapchain
         /\ Survivors[currentSwapchain] = swapchainData[currentSwapchain]
  BY NeighboursDiffer
  DEF TypeInv, TypeOK, ViewportTypes, NextIndex, LastIndex, Survivors, Ring

(* Steps that change no swapchain, no wait value and no slot, and do not   *)
(* pass from recreation back to before it.                                 *)
LEMMA SwapchainsUntouched ==
  ASSUME SwapchainInv, inFlight' \subseteq inFlight,
         UNCHANGED <<swapchainData, currentSwapchain, waitValues, imageIndex>>,
         BeforeRecreation' => BeforeRecreation
  PROVE  SwapchainInv'
  BY DEF SwapchainInv, SwapchainOutlivesFrames, Live, Recreated

LEMMA NumberForNextRecreation ==
  ASSUME TypeInv, SlotInv, SwapchainInv, pc = "submit",
         swapchainData[currentSwapchain] # NoSwapchain,
         TakeFrameNumber, UNCHANGED <<swapchainData, currentSwapchain, imageIndex>>,
         inFlight' \subseteq inFlight \cup {Submission}
  PROVE  SwapchainInv'
<1> USE DEF TypeInv, TypeOK, SlotTypes, GpuTypes
<1>1. waitValues' = [waitValues EXCEPT ![imageIndex] = semaphoreValue + 1]
  BY DEF TakeFrameNumber
<1>2. Submission.swapchain = swapchainData[currentSwapchain]
  BY DEF Submission
<1>3. swapchainData[currentSwapchain] \in Live
  BY DEF Live, ViewportTypes
<1>4. SwapchainOutlivesFrames'
  BY <1>2, <1>3 DEF SwapchainInv, SwapchainOutlivesFrames, Live
<1>5. ASSUME NEW f \in inFlight', f.swapchain # swapchainData[currentSwapchain],
             NEW s \in Slot
      PROVE  f.value <= waitValues'[s]
  <2>1. f \in inFlight
    BY <1>2, <1>5
  <2>2. f.value <= semaphoreValue /\ f.value \in Nat
    BY <2>1 DEF SlotInv, FramesWaitedFor
  <2>3. CASE s = imageIndex
    BY <1>1, <2>2, <2>3
  <2>4. CASE s # imageIndex
    BY <1>1, <1>5, <2>1, <2>4
    DEF SwapchainInv, Recreated, BeforeRecreation
  <2> QED BY <2>3, <2>4
<1> QED BY <1>4, <1>5 DEF SwapchainInv

LEMMA SwapchainStep ==
  ASSUME BufferedImages <= 2, ~MayFail("end"), TypeInv, SlotInv, CleanInv,
         SwapchainInv, [Next]_vars
  PROVE  SwapchainInv'
<1>1. CASE \/ UploadEvents \/ UpdateFOV \/ UpdateUniforms \/ WaitSlot \/ WaitFails
  BY <1>1, SwapchainsUntouched
  DEF UploadEvents, UpdateFOV, UpdateUniforms, WaitSlot, WaitFails,
      BeforeRecreation
<1>2. CASE RecreateSwapchain
  <2>1. \A f \in inFlight : f.swapchain = swapchainData[currentSwapchain]
    BY <1>2, AllDrawIntoCurrent DEF RecreateSwapchain
  <2>2. swapchainData'[currentSwapchain] = swapchainData[currentSwapchain]
    BY <1>2, RecreationKeepsCurrent
    DEF RecreateSwapchain, Survivors, TypeInv, TypeOK, ViewportTypes
  <2>3. currentSwapchain \in Ring
    BY DEF TypeInv, TypeOK, ViewportTypes
  <2>4. \A f \in inFlight : f.swapchain # NoSwapchain
    BY DEF SwapchainInv, SwapchainOutlivesFrames, Live
  <2>5. SwapchainOutlivesFrames'
    BY <1>2, <2>1, <2>2, <2>3, <2>4
    DEF RecreateSwapchain, SwapchainOutlivesFrames, Live
  <2>6. \A f \in inFlight : \A s \in Slot \ {imageIndex} : f.value <= waitValues[s]
    BY <1>2, OtherSlotsWait DEF RecreateSwapchain
  <2>7. Recreated' = {imageIndex}
        /\ UNCHANGED <<inFlight, waitValues>>
    BY <1>2 DEF RecreateSwapchain, Recreated, BeforeRecreation
  <2> QED BY <2>5, <2>6, <2>7 DEF SwapchainInv
<1>3. CASE RecreateFails
  <2>1. \A f \in inFlight : f.swapchain = swapchainData[currentSwapchain]
    BY <1>3, AllDrawIntoCurrent DEF RecreateFails
  <2>2. swapchainData'[currentSwapchain] = swapchainData[currentSwapchain]
    BY <1>3, RecreationKeepsCurrent DEF RecreateFails
  <2>3. currentSwapchain \in Ring
    BY DEF TypeInv, TypeOK, ViewportTypes
  <2>4. UNCHANGED <<inFlight, currentSwapchain>>
    BY <1>3 DEF RecreateFails
  <2> QED BY <2>1, <2>2, <2>3, <2>4
          DEF SwapchainInv, SwapchainOutlivesFrames, Live
<1>4. CASE AcquireImage \/ AcquireFails \/ BeginRecording \/ BeginFails
  BY <1>4, SwapchainsUntouched
  DEF AcquireImage, AcquireFails, BeginRecording, BeginFails, BeforeRecreation
<1>5. CASE TransferData \/ Render
  BY <1>5, SwapchainsUntouched DEF TransferData, Render, BeforeRecreation
<1>6. CASE EndCommandBufferFails
  BY <1>6 DEF EndCommandBufferFails
<1>7. CASE Submit \/ SubmitFails
  <2>1. pc = "submit" /\ swapchainData[currentSwapchain] # NoSwapchain
    BY <1>7 DEF Submit, SubmitFails, TypeInv, HasSwapchain
  <2> QED BY <1>7, <2>1, NumberForNextRecreation DEF Submit, SubmitFails
<1>8. CASE PresentImage
  <2>1. UNCHANGED <<swapchainData, currentSwapchain, waitValues, inFlight>>
        /\ Recreated = {}
    BY <1>8 DEF PresentImage, Recreated, BeforeRecreation
  <2> QED BY <2>1 DEF SwapchainInv, SwapchainOutlivesFrames, Live
<1>9. CASE PresentFails \/ ClearEvents
  BY <1>9, SwapchainsUntouched DEF PresentFails, ClearEvents, BeforeRecreation
<1>10. CASE DeinitRenderer \/ DeinitFails
  BY <1>10, SwapchainsUntouched
  DEF DeinitRenderer, DeinitFails, BeforeRecreation
<1>11. CASE DeinitViewport
  <2>1. inFlight' = {}
    BY <1>11 DEF DeinitViewport, CleanInv, CleanShutdown
  <2> QED BY <2>1 DEF SwapchainInv, SwapchainOutlivesFrames
<1>12. CASE ExecuteFrame \/ ReleaseImage \/ Terminated \/ UNCHANGED vars
  BY <1>12, SwapchainsUntouched
  DEF ExecuteFrame, ReleaseImage, Terminated, vars, BeforeRecreation
<1> QED
  BY <1>1, <1>2, <1>3, <1>4, <1>5, <1>6, <1>7, <1>8, <1>9, <1>10, <1>11, <1>12
  DEF Next, HostStep

(* No resize destroys a swapchain that an unfinished frame draws into,     *)
(* whatever the length of the ring and the image counts the surface        *)
(* reports, if there are at most two slots and ending a command list       *)
(* cannot fail.                                                            *)
THEOREM SwapchainCorrect ==
  ASSUME BufferedImages <= 2, ~MayFail("end")
  PROVE  Spec => []SwapchainOutlivesFrames
<1>1. Init => SwapchainInv
  BY DEF Init, SwapchainInv, SwapchainOutlivesFrames
<1>2. TypeInv /\ SlotInv /\ CleanInv /\ SwapchainInv /\ [Next]_vars
      => SwapchainInv'
  BY SwapchainStep
<1>3. SwapchainInv => SwapchainOutlivesFrames
  BY DEF SwapchainInv
<1> QED BY <1>1, <1>2, <1>3, SlotInvariant, CleanInvariant, PTL DEF Spec

(***************************************************************************)
(* The slots implement DoubleBuffer.                                       *)
(***************************************************************************)
Owners     == [s \in Slot |-> OwnersOf(s)]
SlotStates == [s \in Slot |-> <<recorded[s], stagingBuffer[s]>>]

LEMMA SlotStatesType ==
  ASSUME TypeOK PROVE SlotStates \in [Slot -> Nat \X Nat]
  BY DEF TypeOK, ContentTypes, SlotStates

LEMMA NoOwners ==
  ASSUME NEW s \in Slot, \A f \in inFlight : f.slot # s
  PROVE  Owners[s] = {}
  BY DEF Owners, OwnersOf

LEMMA OwnersAre ==
  ASSUME NEW s \in Slot, NEW n \in Owners[s]
  PROVE  \E f \in inFlight : f.slot = s /\ f.value = n
  BY DEF Owners, OwnersOf

(* Steps that hand no slot over and take none back write at most the slot  *)
(* the host works on.                                                      *)
LEMMA HostWrites ==
  ASSUME TypeInv, TypeInv', UNCHANGED <<inFlight, unwaited>>,
         \A s \in Slot :
           \/ recorded'[s] = recorded[s] /\ stagingBuffer'[s] = stagingBuffer[s]
           \/ \A f \in inFlight : f.slot # s
           \/ s \in unwaited
  PROVE  Buffers!Write
<1>1. SlotStates' \in [Slot -> Nat \X Nat]
  BY SlotStatesType DEF TypeInv, TypeOK, ContentTypes, SlotStates
<1>2. Owners' = Owners
  BY DEF Owners, OwnersOf
<1>3. \A s \in Slot :
        SlotStates'[s] # SlotStates[s] => Owners[s] = {} \/ s \in unwaited
  BY NoOwners DEF SlotStates
<1> QED BY <1>1, <1>2, <1>3 DEF Buffers!Write, Buffers!MayFill, Owners, SlotStates

LEMMA SubmitHandsOver ==
  ASSUME TypeInv, SlotInv, Submit
  PROVE  Buffers!HandOver(imageIndex)
<1> USE DEF TypeInv, TypeOK, SlotTypes, GpuTypes
<1>1. /\ inFlight' = inFlight \cup {Submission}
      /\ Submission.slot = imageIndex /\ Submission.value = semaphoreValue + 1
      /\ imageIndex \in Slot /\ pc = "submit" /\ UNCHANGED unwaited
  BY DEF Submit, Submission
<1>2. Owners[imageIndex] = {} \/ imageIndex \in unwaited
  BY <1>1, OwnSlot, NoOwners DEF WorksOnSlot
<1>3. Owners'[imageIndex] = Owners[imageIndex] \cup {semaphoreValue + 1}
  BY <1>1 DEF Owners, OwnersOf
<1>4. ASSUME NEW s \in Slot, s # imageIndex PROVE Owners'[s] = Owners[s]
  BY <1>1, <1>4 DEF Owners, OwnersOf
<1>5. Owners' = [Owners EXCEPT
                   ![imageIndex] = Owners[imageIndex] \cup {semaphoreValue + 1}]
  BY <1>3, <1>4 DEF Owners
<1>6. ASSUME NEW s \in Slot, NEW n \in Owners[s] PROVE n < semaphoreValue + 1
  <2>1. PICK f \in inFlight : f.slot = s /\ f.value = n
    BY <1>6, OwnersAre
  <2> QED BY <2>1 DEF SlotInv, FramesWaitedFor
<1>7. SlotStates' = SlotStates
  BY DEF Submit, SlotStates
<1>8. semaphoreValue + 1 \in Owners'[imageIndex] /\ semaphoreValue + 1 \in Nat
  BY <1>3
<1> QED BY <1>1, <1>2, <1>5, <1>6, <1>7, <1>8
        DEF Buffers!HandOver, Buffers!MayFill, Owners, SlotStates

LEMMA ExecuteFinishes ==
  ASSUME TypeInv, SlotInv, ExecuteFrame
  PROVE  \E s \in Slot : Buffers!Finish(s)
<1> USE DEF TypeInv, TypeOK, SlotTypes, GpuTypes
<1>1. PICK f \in inFlight : f.value = timeline + 1 /\ inFlight' = inFlight \ {f}
  BY DEF ExecuteFrame
<1>2. f.slot \in Slot /\ UNCHANGED unwaited /\ f.value \in Owners[f.slot]
  BY DEF ExecuteFrame, Owners, OwnersOf
<1>3. \A g \in inFlight : g.value = f.value => g = f
  BY DEF SlotInv
<1>4. Owners'[f.slot] = Owners[f.slot] \ {f.value}
  BY <1>1, <1>2, <1>3 DEF Owners, OwnersOf
<1>5. ASSUME NEW s \in Slot, s # f.slot PROVE Owners'[s] = Owners[s]
  BY <1>1, <1>5 DEF Owners, OwnersOf
<1>6. Owners' = [Owners EXCEPT ![f.slot] = Owners[f.slot] \ {f.value}]
  BY <1>4, <1>5 DEF Owners
<1>7. ASSUME NEW s \in Slot, NEW n \in Owners[s] PROVE f.value <= n
  <2>1. PICK g \in inFlight : g.slot = s /\ g.value = n
    BY <1>7, OwnersAre
  <2> QED BY <1>1, <2>1 DEF SlotInv, FramesWaitedFor
<1>8. SlotStates' = SlotStates
  BY DEF ExecuteFrame, SlotStates
<1> QED BY <1>2, <1>6, <1>7, <1>8 DEF Buffers!Finish, Owners, SlotStates

(* A failed wait seizes the slot, a successful one settles it.             *)
LEMMA WaitSettles ==
  ASSUME TypeInv, SlotInv, WaitSlot \/ WaitFails
  PROVE  Buffers!Seize(imageIndex) \/ Buffers!Settle(imageIndex)
<1> USE DEF TypeInv, TypeOK, SlotTypes, GpuTypes
<1>1. Owners' = Owners /\ SlotStates' = SlotStates
  BY DEF WaitSlot, WaitFails, Owners, OwnersOf, SlotStates
<1>2. CASE WaitFails
  BY <1>1, <1>2 DEF WaitFails, Buffers!Seize, Owners, SlotStates
<1>3. CASE WaitSlot
  <2>1. \A f \in inFlight : f.slot # imageIndex
    BY <1>3 DEF WaitSlot, SlotFree, SlotInv, FramesWaitedFor
  <2>2. Owners[imageIndex] = {}
    BY <2>1, NoOwners
  <2> QED BY <1>1, <1>3, <2>2 DEF WaitSlot, Buffers!Settle, Owners, SlotStates
<1> QED BY <1>2, <1>3

LEMMA StepRefines ==
  ASSUME TypeInv, SlotInv, TypeInv', [Next]_vars
  PROVE  [Buffers!Next]_Buffers!vars
<1> USE DEF TypeInv
<1>1. CASE Submit
  BY <1>1, SubmitHandsOver DEF Buffers!Next, TypeOK, SlotTypes
<1>2. CASE ExecuteFrame
  BY <1>2, ExecuteFinishes DEF Buffers!Next
<1>3. CASE BeginRecording \/ TransferData \/ Render
  <2>1. (\A f \in inFlight : f.slot # imageIndex) \/ imageIndex \in unwaited
    BY <1>3, OwnSlot DEF BeginRecording, TransferData, Render, WorksOnSlot
  <2>2. UNCHANGED <<inFlight, unwaited>>
    BY <1>3 DEF BeginRecording, TransferData, Render
  <2>3. ASSUME NEW s \in Slot, s # imageIndex
        PROVE  recorded'[s] = recorded[s] /\ stagingBuffer'[s] = stagingBuffer[s]
    BY <1>3, <2>3 DEF BeginRecording, TransferData, Render, TypeOK,
                      ContentTypes
  <2> QED BY <2>1, <2>2, <2>3, HostWrites DEF Buffers!Next
<1>4. CASE DeinitRenderer
  <2>1. inFlight = {} /\ UNCHANGED <<inFlight, unwaited>>
    BY <1>4, NothingPending DEF DeinitRenderer
  <2> QED BY <2>1, HostWrites DEF Buffers!Next
<1>5. CASE UNCHANGED <<recorded, stagingBuffer, inFlight, unwaited>>
  BY <1>5 DEF Buffers!vars, OwnersOf
<1>6. CASE \/ UploadEvents \/ UpdateFOV \/ UpdateUniforms
           \/ RecreateSwapchain \/ RecreateFails \/ AcquireImage \/ AcquireFails
           \/ BeginFails
  BY <1>5, <1>6 DEF UploadEvents, UpdateFOV, UpdateUniforms,
                    RecreateSwapchain, RecreateFails, AcquireImage,
                    AcquireFails, BeginFails
<1>7. CASE \/ EndCommandBufferFails \/ SubmitFails \/ PresentImage
           \/ PresentFails \/ ClearEvents \/ DeinitFails \/ DeinitViewport
           \/ ReleaseImage \/ Terminated \/ UNCHANGED vars
  BY <1>5, <1>7 DEF EndCommandBufferFails, SubmitFails, PresentImage,
                    PresentFails, ClearEvents, DeinitFails, DeinitViewport,
                    ReleaseImage, Terminated, vars
<1>8. CASE WaitSlot \/ WaitFails
  BY <1>8, WaitSettles DEF Buffers!Next, TypeOK, SlotTypes
<1> QED BY <1>1, <1>2, <1>3, <1>4, <1>6, <1>7, <1>8 DEF Next, HostStep

(* Command lists and staging buffers are double buffered: the frame loop   *)
(* implements DoubleBuffer, whichever driver calls fail; a failed wait is  *)
(* the slot being seized.                                                  *)
THEOREM RefinesDoubleBuffer == Spec => ImplementsDoubleBuffer
<1>1. Init => Buffers!Init
  BY DEF Init, Buffers!Init, OwnersOf
<1>2. TypeInv /\ SlotInv /\ (TypeInv /\ SlotInv)' /\ [Next]_vars
      => [Buffers!Next]_Buffers!vars
  BY StepRefines
<1> QED BY <1>1, <1>2, SlotInvariant, PTL
        DEF Spec, ImplementsDoubleBuffer, Buffers!Spec
=============================================================================
