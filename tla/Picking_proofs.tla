--------------------------- MODULE Picking_proofs ---------------------------
(***************************************************************************)
(* What a click of the editor reads, for every number of slots, every size *)
(* of the window and any run of frames, resizes and failures.              *)
(*                                                                         *)
(* The argument: a frame may only be begun when the one BufferedImages     *)
(* before it is finished (Paced); frames finish in order (Ordered); and as *)
(* long as no creation has failed, all six handles carry the number of the *)
(* frame that made them (Together), a frame in flight uses them exactly if *)
(* it is not older than they are (Uses), and the buffer holds the last     *)
(* finished frame among those (Holds).                                     *)
(***************************************************************************)
EXTENDS Picking, TLAPS

Ordered == \A f, g \in inFlight : f.number = g.number => f = g

Paced ==
  /\ pc \in {"ids", "gui", "end"} => frame - BufferedImages <= done
  /\ \A o \in Object : handles[o] - BufferedImages <= done
  /\ pc = "done" => inFlight = {}

Older ==
  /\ \A o \in Object : handles[o] <= frame
  /\ pc \in {"poll", "pick", "begin", "ids"} => \A o \in Object : handles[o] < frame
  /\ \A f \in inFlight : \A o \in Object : f.handles[o] <= f.number

Together == ~ failed => \A o \in Object : handles[o] = handles[ReadBackBuffer]

Uses ==
  ~ failed => \A f \in inFlight :
    f.number >= handles[ReadBackBuffer] =>
      /\ f.handles = handles
      /\ ~ lost => f.sound /\ f.size = size

Begun == ~ failed /\ ~ lost /\ pc \in {"gui", "end"} => begun /\ viewport = size

Holds ==
  ~ failed /\ ~ lost =>
    /\ readBack # Garbage =>
         readBack.size = size /\ readBack.frame \in handles[ReadBackBuffer] .. done
    /\ done >= 1 /\ done >= handles[ReadBackBuffer] =>
         readBack # Garbage /\ readBack.frame = done

IInv ==
  /\ TypeOK /\ Ordered /\ Paced /\ Older /\ Together
  /\ Uses /\ Begun /\ Holds /\ DataComplete /\ PickIsRecent

----------------------------------------------------------------------------
\* A pixel of the viewport has its place in a buffer of the viewport's size.
LEMMA InBuffer ==
  ASSUME NEW w \in Nat, NEW h \in Nat, NEW x \in 0 .. w - 1, NEW y \in 0 .. h - 1
  PROVE  y * w + x \in Nat /\ y * w + x < w * h
<1>1. x \in Nat /\ y \in Nat /\ x < w /\ y + 1 <= h /\ h - 1 - y \in Nat
  OBVIOUS
<1>2. \A a, b \in Nat : a * b \in Nat
  OBVIOUS
<1>3. (h - 1 - y) * w \in Nat /\ y * w \in Nat
  BY <1>1, <1>2
<1>4. (h - 1 - y) * w = h * w - w - y * w
  BY <1>1
<1> QED BY <1>1, <1>3, <1>4

\* The initial state satisfies the invariant (Editor.init).
LEMMA InitInvariant == Init => IInv
<1> SUFFICES ASSUME Init PROVE IInv
  OBVIOUS
<1> USE PickingAssumption DEF Init, Object, ReadBackBuffer, None, Garbage
<1>1. TypeOK
  <2>1. frame \in Nat \ {0} /\ done \in Nat /\ done < frame /\ frame - 1 - done <= BufferedImages
    OBVIOUS
  <2>2. /\ inFlight \subseteq Flight
        /\ \A f \in inFlight : f.number \in done + 1 .. frame - 1
    OBVIOUS
  <2>3. handles \in [Object -> Nat] /\ live \subseteq Object \X Nat
    OBVIOUS
  <2>4. /\ pc \in {"poll", "pick", "begin", "ids", "gui", "end", "deinit", "done", "crashed"}
        /\ viewport \in Size /\ size \in Size /\ selectedEntity \in {"known", "garbage"}
        /\ resized \in BOOLEAN /\ begun \in BOOLEAN /\ lost \in BOOLEAN /\ failed \in BOOLEAN
    OBVIOUS
  <2>5. /\ readBack \in Drawn \cup {Garbage} /\ click \in Position \cup {None}
        /\ pick \in [at : Position, value : Id \cup {Garbage}, madeIn : Nat,
                     outdated : BOOLEAN] \cup {None}
    BY Zenon
  <2> QED BY <2>1, <2>2, <2>3, <2>4, <2>5, Zenon DEF TypeOK
<1>2. Ordered /\ Paced /\ Older /\ Together /\ Uses /\ Begun /\ Holds /\ PickIsRecent
  BY DEF Ordered, Paced, Older, Together, Uses, Begun, Holds, PickIsRecent
<1>3. DataComplete
  BY DEF DataComplete, Current
<1> QED BY <1>1, <1>2, <1>3 DEF IInv

----------------------------------------------------------------------------
\* The steps that touch neither the objects nor the frames in flight.
Quiet ==
  \/ PollEvents \/ UpdateSelectedID_Nothing \/ UpdateSelectedID \/ BeginFrame
  \/ StartRenderIDs_Crashes \/ GuiNextFrame \/ Ended \/ UNCHANGED vars

LEMMA QuietSteps ==
  ASSUME TypeOK, Quiet
  PROVE  UNCHANGED <<frame, gpu, data, lost, failed, begun>>
BY DEF Quiet, PollEvents, UpdateSelectedID_Nothing, UpdateSelectedID, BeginFrame,
       StartRenderIDs_Crashes, GuiNextFrame, Ended, vars, gpu, data

\* What an action does to the handles, with all or some objects created.
LEMMA Created ==
  ASSUME TypeOK, NEW n \in 0 .. 6, CreateReadBackData(n)
  PROVE  /\ handles' = [o \in Object |-> IF o <= n THEN frame ELSE handles[o]]
         /\ handles' \in [Object -> Nat] /\ live' \subseteq Object \X Nat
         /\ live' = (live \ Current) \cup (1 .. n) \X {frame}
         /\ size' \in Size
         /\ n >= 1 => size' = viewport /\ readBack' = Garbage
         /\ n = 0 => size' = size /\ readBack' = readBack
<1> USE DEF CreateReadBackData, Object, ReadBackBuffer
<1>1. frame \in Nat /\ handles \in [Object -> Nat] /\ live \subseteq Object \X Nat
      /\ viewport \in Size /\ size \in Size
  BY DEF TypeOK
<1>2. handles' \in [Object -> Nat]
  BY <1>1
<1>3. live' \subseteq Object \X Nat
  BY <1>1
<1>4. n >= 1 \/ n = 0
  OBVIOUS
<1> QED BY <1>1, <1>2, <1>3, <1>4

\* Facts about numbers that the steps below share.
LEMMA Numbers ==
  ASSUME TypeOK
  PROVE  /\ frame \in Nat \ {0} /\ done \in Nat /\ done < frame
         /\ frame - 1 - done <= BufferedImages
         /\ BufferedImages \in Nat \ {0}
         /\ handles \in [Object -> Nat]
         /\ \A o \in Object : handles[o] \in Nat
         /\ ReadBackBuffer \in Object
         /\ \A f \in inFlight :
              /\ f \in Flight /\ f.number \in Nat /\ f.size \in Size
              /\ f.handles \in [Object -> Nat]
              /\ f.number > done /\ f.number < frame
<1>1. \A f \in inFlight : f \in Flight
  BY DEF TypeOK
<1>2. \A f \in inFlight : f.number \in Nat /\ f.size \in Size /\ f.handles \in [Object -> Nat]
  BY <1>1 DEF Flight
<1> QED BY <1>1, <1>2, PickingAssumption DEF TypeOK, Object, ReadBackBuffer

\* Types, and how many frames are in flight.
LEMMA TypeStep ==
  ASSUME TypeOK, Paced, Ordered, [Next]_vars
  PROVE  TypeOK'
<1> DEFINE Clock == /\ frame \in Nat \ {0} /\ done \in Nat /\ done < frame
                    /\ frame - 1 - done <= BufferedImages
           Flying == /\ inFlight \subseteq Flight
                     /\ \A f \in inFlight : f.number \in done + 1 .. frame - 1
           Read == readBack \in Drawn \cup {Garbage}
           Input == viewport \in Size /\ resized \in BOOLEAN /\ click \in Position \cup {None}
           Data == handles \in [Object -> Nat] /\ live \subseteq Object \X Nat /\ size \in Size
           Host == /\ pc \in {"poll", "pick", "begin", "ids", "gui", "end", "deinit", "done", "crashed"}
                   /\ begun \in BOOLEAN /\ selectedEntity \in {"known", "garbage"}
                   /\ lost \in BOOLEAN /\ failed \in BOOLEAN
           Pick == pick \in [at : Position, value : Id \cup {Garbage}, madeIn : Nat,
                             outdated : BOOLEAN] \cup {None}
<1>0. Clock /\ Flying /\ Read /\ Input /\ Data /\ Host /\ Pick
  BY DEF TypeOK
<1>1. Clock'
  <2>1. CASE UNCHANGED <<frame, done>>
    BY <2>1, <1>0
  <2>2. CASE EndFrame
    BY <2>2, <1>0, PickingAssumption DEF EndFrame, Paced
  <2>3. CASE ExecuteFrame
    <3>1. PICK f \in inFlight : f.number = done + 1 /\ done' = f.number
      BY <2>3 DEF ExecuteFrame
    <3>2. frame' = frame /\ f.number < frame
      BY <2>3, <3>1, Numbers DEF ExecuteFrame
    <3> QED BY <3>1, <3>2, <1>0, PickingAssumption
  <2> QED BY <2>1, <2>2, <2>3, QuietSteps DEF Next, Quiet, gpu, vars, StartRenderIDs,
        StartRenderIDs_Resized, StartRenderIDs_Fails, Deinit
<1>2. Flying'
  <2>1. CASE UNCHANGED <<frame, done, inFlight>>
    BY <2>1, <1>0
  <2>2. CASE EndFrame
    <3> DEFINE f == [number |-> frame, handles |-> handles, size |-> viewport,
                     sound |-> begun /\ viewport = size]
    <3>1. f \in Flight
      BY <1>0, Zenon DEF Flight
    <3>2. f.number = frame
      OBVIOUS
    <3> HIDE DEF f
    <3>3. inFlight' = inFlight \cup {f} /\ frame' = frame + 1 /\ done' = done
      BY <2>2, Zenon DEF EndFrame, f
    <3> QED BY <3>1, <3>2, <3>3, <1>0
  <2>3. CASE ExecuteFrame
    <3>1. PICK f \in inFlight : /\ f.number = done + 1 /\ done' = f.number
                              /\ inFlight' = inFlight \ {f}
      BY <2>3 DEF ExecuteFrame
    <3>2. frame' = frame
      BY <2>3 DEF ExecuteFrame
    <3>3. \A g \in inFlight : g # f => g.number # f.number
      BY <3>1 DEF Ordered
    <3> QED BY <3>1, <3>2, <3>3, <1>0, Numbers
  <2> QED BY <2>1, <2>2, <2>3, QuietSteps DEF Next, Quiet, gpu, vars, StartRenderIDs,
        StartRenderIDs_Resized, StartRenderIDs_Fails, Deinit
<1>3. Read'
  <2>1. CASE ExecuteFrame
    <3>1. PICK f \in inFlight :
            readBack' = [frame |-> f.number, size |-> f.size] \/ readBack' \in {readBack, Garbage}
      BY <2>1 DEF ExecuteFrame
    <3>2. f.number \in Nat \ {0} /\ f.size \in Size
      BY Numbers DEF Flight
    <3>3. [frame |-> f.number, size |-> f.size] \in Drawn
      BY <3>2 DEF Drawn
    <3> QED BY <3>1, <3>3, <1>0, Zenon
  <2>2. CASE StartRenderIDs_Resized \/ StartRenderIDs_Fails
    <3>1. readBack' \in {readBack, Garbage}
      BY <2>2, Zenon DEF StartRenderIDs_Resized, StartRenderIDs_Fails, CreateReadBackData
    <3> QED BY <3>1, <1>0, Zenon
  <2>3. CASE readBack' = readBack
    BY <2>3, <1>0
  <2> QED BY <2>1, <2>2, <2>3, QuietSteps DEF Next, Quiet, gpu, vars, StartRenderIDs,
        EndFrame, Deinit
<1>4. Input'
  BY <1>0, Zenon DEF Next, vars, input, PollEvents, UpdateSelectedID_Nothing, UpdateSelectedID,
     BeginFrame, StartRenderIDs, StartRenderIDs_Resized, StartRenderIDs_Fails,
     StartRenderIDs_Crashes, GuiNextFrame, EndFrame, Deinit, ExecuteFrame, Ended
<1>5. Data'
  <2>1. CASE StartRenderIDs_Resized
    BY <2>1, Created DEF StartRenderIDs_Resized
  <2>2. CASE StartRenderIDs_Fails
    <3>1. PICK n \in 0 .. 5 : CreateReadBackData(n)
      BY <2>2 DEF StartRenderIDs_Fails
    <3>2. n \in 0 .. 6
      OBVIOUS
    <3> QED BY <3>1, <3>2, Created
  <2>3. CASE Deinit
    BY <2>3, <1>0 DEF Deinit
  <2>4. CASE UNCHANGED data
    BY <2>4, <1>0 DEF data
  <2> QED BY <2>1, <2>2, <2>3, <2>4, QuietSteps DEF Next, Quiet, StartRenderIDs, EndFrame, ExecuteFrame
<1>6. Host'
  BY <1>0, Zenon DEF Next, vars, data, gpu, PollEvents, UpdateSelectedID_Nothing, UpdateSelectedID,
     BeginFrame, StartRenderIDs, StartRenderIDs_Resized, StartRenderIDs_Fails,
     StartRenderIDs_Crashes, GuiNextFrame, EndFrame, Deinit, ExecuteFrame, Ended
<1>7. Pick'
  <2>1. CASE UpdateSelectedID
    <3>1. IdAt(PixelReadPos) \in Id \cup {Garbage}
      <4>1. CASE IdAt(PixelReadPos) = Garbage
        BY <4>1
      <4>2. CASE IdAt(PixelReadPos) # Garbage
        <5>1. readBack # Garbage
              /\ IdAt(PixelReadPos) = [frame |-> readBack.frame, size |-> readBack.size, index |-> PixelReadPos]
          BY <4>2, Zenon DEF IdAt
        <5>2. readBack.frame \in Nat \ {0} /\ readBack.size \in Size
          BY <5>1, <1>0 DEF Drawn
        <5>3. PixelReadPos \in Nat
          <6>1. /\ viewport[1] \in Nat /\ viewport[2] \in Nat
                /\ click[1] - 1 \in 0 .. viewport[1] - 1 /\ click[2] - 1 \in 0 .. viewport[2] - 1
            BY <2>1, <1>0, PickingAssumption DEF UpdateSelectedID, InViewport
          <6> QED BY <6>1, InBuffer DEF PixelReadPos
        <5>4. [frame |-> readBack.frame, size |-> readBack.size, index |-> PixelReadPos] \in Id
          BY <5>2, <5>3 DEF Id
        <5> QED BY <5>1, <5>4, Zenon
      <4> QED BY <4>1, <4>2, Zenon
    <3>2. click \in Position
      BY <2>1, <1>0, Zenon DEF UpdateSelectedID, InViewport
    <3>3. handles[ReadBackBuffer] \in Nat
      BY Numbers
    <3>4. (size # viewport \/ lost \/ failed) \in BOOLEAN
      BY <1>0, Zenon
    <3> QED BY <2>1, <3>1, <3>2, <3>3, <3>4, Zenon DEF UpdateSelectedID
  <2>2. CASE pick' = pick \/ pick' = None
    BY <2>2, <1>0, Zenon
  <2> QED BY <2>1, <2>2 DEF Next, vars, PollEvents, UpdateSelectedID_Nothing,
     BeginFrame, StartRenderIDs, StartRenderIDs_Resized, StartRenderIDs_Fails,
     StartRenderIDs_Crashes, GuiNextFrame, EndFrame, Deinit, ExecuteFrame, Ended
<1> QED BY <1>1, <1>2, <1>3, <1>4, <1>5, <1>6, <1>7, Zenon DEF TypeOK

----------------------------------------------------------------------------
\* The steps by what they change: Next is one of Quiet, StartRenderIDs, Renew,
\* EndFrame, Deinit and ExecuteFrame.
Renew(n) ==
  /\ pc = "ids" /\ pc' = "gui" /\ CreateReadBackData(n)
  /\ n = 6 => failed' = failed /\ lost' = FALSE /\ begun' = TRUE
  /\ n < 6 => failed' = TRUE
  /\ UNCHANGED <<frame, done, inFlight, viewport, pick>>

LEMMA Steps ==
  ASSUME [Next]_vars
  PROVE  Quiet \/ StartRenderIDs \/ EndFrame \/ Deinit \/ ExecuteFrame \/ \E n \in 0 .. 6 : Renew(n)
<1>1. StartRenderIDs_Resized => Renew(6)
  BY DEF StartRenderIDs_Resized, Renew, input
<1>2. ASSUME StartRenderIDs_Fails PROVE \E n \in 0 .. 6 : Renew(n)
  <2>1. PICK n \in 0 .. 5 : CreateReadBackData(n)
    BY <1>2 DEF StartRenderIDs_Fails
  <2>2. n \in 0 .. 6 /\ n < 6 /\ n # 6
    OBVIOUS
  <2>3. Renew(n)
    BY <1>2, <2>1, <2>2, Zenon DEF StartRenderIDs_Fails, Renew, input
  <2> QED BY <2>2, <2>3
<1>3. 6 \in 0 .. 6
  OBVIOUS
<1> QED BY <1>1, <1>2, <1>3, Zenon DEF Next, Quiet

LEMMA Executed ==
  ASSUME TypeOK, Ordered, ExecuteFrame
  PROVE  /\ UNCHANGED <<pc, frame, handles, live, size, viewport, begun, pick, lost, failed>>
         /\ \E f \in inFlight :
              /\ f.number = done + 1 /\ done' = f.number
              /\ inFlight' = inFlight \ {f}
              /\ \A g \in inFlight' : g \in inFlight /\ g.number > f.number
              /\ f.sound /\ ObjectsLive(f) =>
                   readBack' = [frame |-> f.number, size |-> f.size]
              /\ ~ (f.sound /\ ObjectsLive(f)) => readBack' \in {readBack, Garbage}
<1>1. UNCHANGED <<pc, frame, handles, live, size, viewport, begun, pick, lost, failed>>
  BY DEF ExecuteFrame, data, input
<1>2. PICK f \in inFlight :
        /\ f.number = done + 1 /\ done' = f.number
        /\ inFlight' = inFlight \ {f}
        /\ f.sound /\ ObjectsLive(f) => readBack' = [frame |-> f.number, size |-> f.size]
        /\ ~ (f.sound /\ ObjectsLive(f)) => readBack' \in {readBack, Garbage}
  BY Zenon DEF ExecuteFrame
<1>3. ASSUME NEW g \in inFlight' PROVE g \in inFlight /\ g.number > f.number
  <2>1. g \in inFlight /\ g # f
    BY <1>2, <1>3, Zenon
  <2>2. g.number # f.number
    BY <2>1 DEF Ordered
  <2>3. g.number > done /\ g.number \in Nat /\ done \in Nat
    BY <2>1, Numbers
  <2> QED BY <1>2, <2>1, <2>2, <2>3
<1> QED BY <1>1, <1>2, <1>3, Zenon

LEMMA Submitted ==
  ASSUME TypeOK, EndFrame
  PROVE  /\ UNCHANGED <<done, readBack, viewport, handles, live, size, begun, lost, failed>>
         /\ pc = "end" /\ pc' \in {"poll", "deinit"} /\ frame' = frame + 1 /\ pick' = None
         /\ \E f : /\ f.number = frame /\ f.handles = handles /\ f.size = viewport
                  /\ f.sound = (begun /\ viewport = size)
                  /\ inFlight' = inFlight \cup {f}
<1> DEFINE f == [number |-> frame, handles |-> handles, size |-> viewport,
                 sound |-> begun /\ viewport = size]
<1>1. f.number = frame /\ f.handles = handles /\ f.size = viewport /\ f.sound = (begun /\ viewport = size)
  OBVIOUS
<1>2. inFlight' = inFlight \cup {f}
  BY Zenon DEF EndFrame
<1> HIDE DEF f
<1> QED BY <1>1, <1>2, Zenon DEF EndFrame, data

\* Frames have different numbers; their handles are not younger than they are.
LEMMA OrderStep ==
  ASSUME TypeOK, Ordered, Paced, Older, [Next]_vars
  PROVE  Ordered' /\ Older'
<1> USE Numbers
<1>1. CASE Quiet
  <2>1. UNCHANGED <<frame, done, inFlight, handles>>
    BY <1>1, QuietSteps DEF gpu, data
  <2>2. Ordered'
    BY <2>1 DEF Ordered
  <2>3. pc' \in {"poll", "pick", "begin", "ids"} => pc \in {"poll", "pick", "begin", "ids"}
    BY <1>1 DEF Quiet, PollEvents, UpdateSelectedID_Nothing, UpdateSelectedID, BeginFrame,
       StartRenderIDs_Crashes, GuiNextFrame, Ended, vars
  <2> QED BY <2>1, <2>2, <2>3 DEF Older
<1>2. CASE StartRenderIDs \/ Deinit
  BY <1>2 DEF StartRenderIDs, Deinit, gpu, data, Ordered, Older
<1>3. ASSUME NEW n \in 0 .. 6, Renew(n) PROVE Ordered' /\ Older'
  <2>1. handles' = [o \in Object |-> IF o <= n THEN frame ELSE handles[o]]
    BY <1>3, Created DEF Renew
  <2>2. UNCHANGED <<frame, inFlight>> /\ pc' = "gui"
    BY <1>3 DEF Renew
  <2>3. \A o \in Object : handles'[o] \in {frame, handles[o]}
    BY <2>1
  <2>4. \A o \in Object : handles'[o] <= frame
    BY <2>3 DEF Older
  <2> QED BY <2>2, <2>4 DEF Ordered, Older
<1>4. CASE EndFrame
  <2>1. PICK f : /\ f.number = frame /\ f.handles = handles
                 /\ inFlight' = inFlight \cup {f}
    BY <1>4, Submitted
  <2>2. handles' = handles /\ frame' = frame + 1
    BY <1>4, Submitted
  <2>3. \A g \in inFlight' : g \in inFlight \/ g = f
    BY <2>1
  <2>4. Ordered'
    BY <2>1, <2>3 DEF Ordered
  <2>5. \A g \in inFlight' : \A o \in Object : g.handles[o] <= g.number
    BY <2>1, <2>3 DEF Older
  <2> QED BY <2>2, <2>4, <2>5 DEF Older
<1>5. CASE ExecuteFrame
  <2>1. PICK f \in inFlight : \A g \in inFlight' : g \in inFlight
    BY <1>5, Executed
  <2>2. UNCHANGED <<pc, frame, handles>>
    BY <1>5, Executed
  <2> QED BY <2>1, <2>2 DEF Ordered, Older
<1> QED BY <1>1, <1>2, <1>3, <1>4, <1>5, Steps

\* The pace of the renderer, and what it says of the age of the handles.
LEMMA PaceStep ==
  ASSUME TypeOK, Ordered, Paced, Older, [Next]_vars
  PROVE  Paced'
<1> USE Numbers
<1>1. CASE Quiet
  <2>1. UNCHANGED <<frame, done, inFlight, handles>>
    BY <1>1, QuietSteps DEF gpu, data
  <2>2. pc' \in {"ids", "gui", "end"} => pc \in {"ids", "gui", "end"} \/ frame - BufferedImages <= done
    BY <1>1 DEF Quiet, PollEvents, UpdateSelectedID_Nothing, UpdateSelectedID, BeginFrame,
       StartRenderIDs_Crashes, GuiNextFrame, Ended, vars
  <2>3. pc' = "done" => pc = "done"
    BY <1>1 DEF Quiet, PollEvents, UpdateSelectedID_Nothing, UpdateSelectedID, BeginFrame,
       StartRenderIDs_Crashes, GuiNextFrame, Ended, vars
  <2> QED BY <2>1, <2>2, <2>3 DEF Paced
<1>2. CASE StartRenderIDs \/ Deinit
  BY <1>2 DEF StartRenderIDs, Deinit, gpu, data, Paced
<1>3. ASSUME NEW n \in 0 .. 6, Renew(n) PROVE Paced'
  <2>1. handles' = [o \in Object |-> IF o <= n THEN frame ELSE handles[o]]
    BY <1>3, Created DEF Renew
  <2>2. UNCHANGED <<frame, done, inFlight>> /\ pc' = "gui" /\ pc = "ids"
    BY <1>3 DEF Renew
  <2>3. \A o \in Object : handles'[o] \in {frame, handles[o]}
    BY <2>1
  <2> QED BY <2>2, <2>3 DEF Paced
<1>4. CASE EndFrame
  BY <1>4, Submitted DEF Paced
<1>5. CASE ExecuteFrame
  <2>1. done' > done /\ done' \in Nat /\ (inFlight = {} => inFlight' = {})
    BY <1>5, Executed
  <2>2. UNCHANGED <<pc, frame, handles>>
    BY <1>5, Executed
  <2> QED BY <2>1, <2>2 DEF Paced
<1> QED BY <1>1, <1>2, <1>3, <1>4, <1>5, Steps

\* Nothing is leaked, and as long as no creation fails nothing is stale.
LEMMA DataStep ==
  ASSUME TypeOK, Ordered, Paced, Older, Together, DataComplete, [Next]_vars
  PROVE  DataComplete' /\ Together'
<1> USE Numbers
<1>1. CASE Quiet \/ StartRenderIDs
  <2>1. UNCHANGED <<handles, live, failed>>
    BY <1>1, QuietSteps DEF data, StartRenderIDs
  <2>2. pc' = "done" <=> pc = "done"
    BY <1>1 DEF Quiet, PollEvents, UpdateSelectedID_Nothing, UpdateSelectedID, BeginFrame,
       StartRenderIDs_Crashes, GuiNextFrame, Ended, vars, StartRenderIDs
  <2> QED BY <2>1, <2>2 DEF DataComplete, Together, Current
<1>2. ASSUME NEW n \in 0 .. 6, Renew(n) PROVE DataComplete' /\ Together'
  <2>1. /\ handles' = [o \in Object |-> IF o <= n THEN frame ELSE handles[o]]
        /\ live' = (live \ Current) \cup (1 .. n) \X {frame}
    BY <1>2, Created DEF Renew
  <2>2. pc' = "gui" /\ (n = 6 => failed' = failed) /\ (n < 6 => failed' = TRUE)
    BY <1>2 DEF Renew
  <2>3. live \ Current = {}
    BY DEF DataComplete
  <2>4. live' = (1 .. n) \X {frame}
    BY <2>1, <2>3
  <2>5. \A o \in 1 .. n : o \in Object /\ handles'[o] = frame
    BY <2>1 DEF Object
  <2>6. live' \subseteq Current'
    BY <2>4, <2>5 DEF Current
  <2>7. CASE n = 6
    <3>1. \A o \in Object : handles'[o] = frame /\ <<o, frame>> \in live'
      BY <2>7, <2>4, <2>5 DEF Object
    <3>2. Current' \subseteq live'
      BY <3>1 DEF Current
    <3> QED BY <3>1, <3>2, <2>2, <2>6 DEF DataComplete, Together
  <2>8. CASE n < 6
    BY <2>8, <2>2, <2>6 DEF DataComplete, Together
  <2> QED BY <2>7, <2>8
<1>3. CASE EndFrame
  BY <1>3, Submitted DEF DataComplete, Together, Current
<1>4. CASE Deinit
  <2>1. live' = live \ Current /\ UNCHANGED <<handles, failed>> /\ pc = "deinit"
    BY <1>4 DEF Deinit
  <2>2. live' = {}
    BY <2>1 DEF DataComplete
  <2>3. pc' # "done" => ~ Current \subseteq live
    BY <1>4 DEF Deinit
  <2>4. pc' # "done" => failed'
    BY <2>1, <2>3 DEF DataComplete
  <2> QED BY <2>1, <2>2, <2>4 DEF DataComplete, Together
<1>5. CASE ExecuteFrame
  BY <1>5, Executed DEF DataComplete, Together, Current
<1> QED BY <1>1, <1>2, <1>3, <1>4, <1>5, Steps

\* A frame in flight uses the editor's objects, in their size, if it is not older
\* than they are.
LEMMA UsesStep ==
  ASSUME IInv, [Next]_vars
  PROVE  Uses' /\ Begun'
<1> USE Numbers DEF IInv
<1>1. CASE Quiet
  <2>1. UNCHANGED <<inFlight, handles, size, begun, lost, failed>>
    BY <1>1, QuietSteps DEF gpu, data
  <2>2. Begun'
    BY <1>1, <2>1 DEF Begun, Quiet, PollEvents, UpdateSelectedID_Nothing, UpdateSelectedID,
       BeginFrame, StartRenderIDs_Crashes, GuiNextFrame, Ended, vars, input
  <2> QED BY <2>1, <2>2 DEF Uses
<1>2. CASE StartRenderIDs
  <2>1. /\ UNCHANGED <<inFlight, handles, size, viewport, failed>> /\ begun' = TRUE
        /\ ~ lost' => ~ lost /\ viewport = size
    BY <1>2, Zenon DEF StartRenderIDs, gpu, data, input
  <2>2. Uses'
    BY <2>1 DEF Uses
  <2>3. Begun'
    BY <2>1, Zenon DEF Begun
  <2> QED BY <2>2, <2>3
<1>3. ASSUME NEW n \in 0 .. 6, Renew(n) PROVE Uses' /\ Begun'
  <2>1. CASE n < 6
    <3>1. failed'
      BY <1>3, <2>1 DEF Renew
    <3> QED BY <3>1 DEF Uses, Begun
  <2>2. CASE n = 6
    <3>1. /\ handles' = [o \in Object |-> IF o <= n THEN frame ELSE handles[o]]
          /\ size' = viewport
      BY <1>3, <2>2, Created DEF Renew
    <3>2. handles'[ReadBackBuffer] = frame
      BY <3>1, <2>2 DEF ReadBackBuffer, Object
    <3>3. begun' = TRUE /\ UNCHANGED <<frame, inFlight, viewport>>
      BY <1>3, <2>2 DEF Renew
    <3>4. \A f \in inFlight' : ~ (f.number >= handles'[ReadBackBuffer])
      BY <3>2, <3>3
    <3>5. Uses'
      BY <3>4 DEF Uses
    <3>6. Begun'
      BY <3>1, <3>3 DEF Begun
    <3> QED BY <3>5, <3>6
  <2> QED BY <2>1, <2>2
<1>4. CASE EndFrame
  <2>1. PICK f : /\ f.handles = handles /\ f.size = viewport
                 /\ f.sound = (begun /\ viewport = size)
                 /\ inFlight' = inFlight \cup {f}
    BY <1>4, Submitted
  <2>2. UNCHANGED <<handles, size, viewport, lost, failed>> /\ pc = "end" /\ pc' \in {"poll", "deinit"}
    BY <1>4, Submitted
  <2>3. ~ failed /\ ~ lost => f.sound /\ f.size = size
    BY <2>1, <2>2, Zenon DEF Begun
  <2>4. \A g \in inFlight' : g \in inFlight \/ g = f
    BY <2>1
  <2>5. Uses'
    BY <2>1, <2>2, <2>3, <2>4 DEF Uses
  <2> QED BY <2>2, <2>5 DEF Begun
<1>5. CASE Deinit
  BY <1>5 DEF Deinit, gpu, Uses, Begun
<1>6. CASE ExecuteFrame
  <2>1. PICK f \in inFlight : \A g \in inFlight' : g \in inFlight
    BY <1>6, Executed
  <2>2. UNCHANGED <<pc, handles, size, viewport, begun, lost, failed>>
    BY <1>6, Executed
  <2> QED BY <2>1, <2>2 DEF Uses, Begun
<1> QED BY <1>1, <1>2, <1>3, <1>4, <1>5, <1>6, Steps

\* A frame in flight has its objects exactly if it is not older than they are.
LEMMA LiveExactly ==
  ASSUME IInv, ~ failed, NEW f \in inFlight
  PROVE  ObjectsLive(f) <=> f.number >= handles[ReadBackBuffer]
<1> USE Numbers DEF IInv
<1>1. pc # "done"
  BY DEF Paced
<1>2. \A o \in Object : <<o, handles[o]>> \in live
  BY <1>1 DEF DataComplete, Current
<1>3. ASSUME f.number >= handles[ReadBackBuffer] PROVE ObjectsLive(f)
  <2>1. f.handles = handles
    BY <1>3 DEF Uses
  <2> QED BY <1>2, <2>1 DEF ObjectsLive
<1>4. ASSUME ObjectsLive(f) PROVE f.number >= handles[ReadBackBuffer]
  <2>1. <<ReadBackBuffer, f.handles[ReadBackBuffer]>> \in Current
    BY <1>4 DEF ObjectsLive, DataComplete
  <2>2. f.handles[ReadBackBuffer] = handles[ReadBackBuffer]
    BY <2>1 DEF Current
  <2> QED BY <2>2 DEF Older
<1> QED BY <1>3, <1>4

\* The read-back buffer holds what the last finished frame that uses it drew.
LEMMA HoldsStep ==
  ASSUME IInv, [Next]_vars
  PROVE  Holds'
<1> USE Numbers DEF IInv
<1>1. CASE Quiet \/ StartRenderIDs \/ EndFrame \/ Deinit
  <2>1. UNCHANGED <<done, readBack, handles, size, failed>> /\ (~ lost' => ~ lost)
    <3>1. CASE Quiet \/ EndFrame \/ Deinit
      <4>1. UNCHANGED <<done, readBack, handles, size, lost, failed>>
        BY <3>1, QuietSteps, Submitted DEF gpu, data, Deinit
      <4> QED BY <4>1, Zenon
    <3>2. CASE StartRenderIDs
      BY <3>2, Zenon DEF gpu, data, StartRenderIDs
    <3> QED BY <1>1, <3>1, <3>2
  <2> QED BY <2>1 DEF Holds
<1>2. ASSUME NEW n \in 0 .. 6, Renew(n) PROVE Holds'
  <2>1. CASE n < 6
    BY <1>2, <2>1 DEF Renew, Holds
  <2>2. CASE n = 6
    <3>1. readBack' = Garbage /\ handles' = [o \in Object |-> IF o <= n THEN frame ELSE handles[o]]
      BY <1>2, <2>2, Created DEF Renew
    <3>2. handles'[ReadBackBuffer] = frame
      BY <3>1, <2>2 DEF ReadBackBuffer, Object
    <3>3. done' = done
      BY <1>2 DEF Renew
    <3> QED BY <3>1, <3>2, <3>3 DEF Holds
  <2> QED BY <2>1, <2>2
<1>3. CASE ExecuteFrame
  <2>1. UNCHANGED <<handles, size, lost, failed>>
    BY <1>3, Executed
  <2>2. PICK f \in inFlight :
          /\ f.number = done + 1 /\ done' = f.number
          /\ f.sound /\ ObjectsLive(f) => readBack' = [frame |-> f.number, size |-> f.size]
          /\ ~ (f.sound /\ ObjectsLive(f)) => readBack' \in {readBack, Garbage}
    BY <1>3, Executed
  <2>3. SUFFICES ASSUME ~ failed, ~ lost
                 PROVE  /\ readBack' # Garbage =>
                             readBack'.size = size /\ readBack'.frame \in handles[ReadBackBuffer] .. done'
                        /\ done' >= 1 /\ done' >= handles[ReadBackBuffer] =>
                             readBack' # Garbage /\ readBack'.frame = done'
    BY <2>1, Zenon DEF Holds
  <2>4. ObjectsLive(f) <=> f.number >= handles[ReadBackBuffer]
    BY <2>3, LiveExactly
  <2>5. CASE f.number >= handles[ReadBackBuffer]
    <3>1. f.sound /\ f.size = size
      BY <2>3, <2>5 DEF Uses
    <3>2. readBack' = [frame |-> f.number, size |-> f.size]
      BY <2>2, <2>4, <2>5, <3>1, Zenon
    <3>3. readBack' # Garbage
      BY <3>2 DEF Garbage
    <3>4. readBack'.frame = f.number /\ readBack'.size = size
      BY <3>1, <3>2
    <3> QED BY <2>2, <2>5, <3>3, <3>4
  <2>6. CASE ~ (f.number >= handles[ReadBackBuffer])
    <3>1. readBack' \in {readBack, Garbage}
      BY <2>2, <2>4, <2>6, Zenon
    <3>2. readBack = Garbage
      BY <2>2, <2>3, <2>6 DEF Holds
    <3> QED BY <2>2, <2>6, <3>1, <3>2
  <2> QED BY <2>5, <2>6
<1> QED BY <1>1, <1>2, <1>3, Steps

\* A click that is not outdated reads a pixel of a frame still recent.
LEMMA ClickReads ==
  ASSUME IInv, UpdateSelectedID
  PROVE  PickIsRecent'
<1> USE Numbers DEF IInv
<1>1. /\ pick' = [at |-> click, value |-> IdAt(PixelReadPos), madeIn |-> handles[ReadBackBuffer],
                   outdated |-> size # viewport \/ lost \/ failed]
      /\ frame' = frame /\ InViewport /\ pc = "pick"
  BY DEF UpdateSelectedID
<1>2. /\ pick'.at = click /\ pick'.value = IdAt(PixelReadPos)
      /\ pick'.madeIn = handles[ReadBackBuffer]
      /\ pick'.outdated = (size # viewport \/ lost \/ failed)
  BY <1>1
<1>3. SUFFICES ASSUME size = viewport, ~ lost, ~ failed
               PROVE  \/ /\ IdAt(PixelReadPos) # Garbage
                         /\ IdAt(PixelReadPos).frame \in frame - BufferedImages - 1 .. frame - 1
                         /\ IdAt(PixelReadPos).frame >= handles[ReadBackBuffer]
                         /\ IdAt(PixelReadPos).index =
                              (click[2] - 1) * IdAt(PixelReadPos).size[1] + click[1] - 1
                      \/ /\ IdAt(PixelReadPos) = Garbage
                         /\ \/ frame - BufferedImages - 1 < 1
                            \/ frame - BufferedImages - 1 < handles[ReadBackBuffer]
  BY <1>1, <1>2, Zenon DEF PickIsRecent
<1>4. /\ viewport[1] \in Nat /\ viewport[2] \in Nat
      /\ click[1] - 1 \in 0 .. viewport[1] - 1 /\ click[2] - 1 \in 0 .. viewport[2] - 1
  BY <1>1, PickingAssumption DEF TypeOK, InViewport
<1>5. PixelReadPos \in Nat /\ PixelReadPos < viewport[1] * viewport[2]
  BY <1>4, InBuffer DEF PixelReadPos
<1>6. Mapped
  BY <1>1, <1>3 DEF Mapped, DataComplete, Current
<1>7. CASE readBack = Garbage
  <2>1. IdAt(PixelReadPos) = Garbage
    BY <1>7, Zenon DEF IdAt
  <2>2. ~ (done >= 1 /\ done >= handles[ReadBackBuffer])
    BY <1>3, <1>7 DEF Holds
  <2> QED BY <2>1, <2>2, PickingAssumption
<1>8. CASE readBack # Garbage
  <2>1. ~ (PixelReadPos >= size[1] * size[2])
    <3>1. viewport[1] * viewport[2] \in Nat
      BY <1>4
    <3> QED BY <1>3, <1>5, <3>1
  <2>2. IdAt(PixelReadPos) = [frame |-> readBack.frame, size |-> readBack.size, index |-> PixelReadPos]
    BY <1>6, <1>8, <2>1, Zenon DEF IdAt
  <2>3. IdAt(PixelReadPos) # Garbage
    BY <2>2 DEF Garbage
  <2>4. /\ IdAt(PixelReadPos).frame = readBack.frame
        /\ IdAt(PixelReadPos).size = readBack.size
        /\ IdAt(PixelReadPos).index = PixelReadPos
    BY <2>2
  <2>5. readBack.size = size /\ readBack.frame \in handles[ReadBackBuffer] .. done
    BY <1>3, <1>8 DEF Holds
  <2>6. PixelReadPos = (click[2] - 1) * IdAt(PixelReadPos).size[1] + click[1] - 1
    <3>1. IdAt(PixelReadPos).size[1] = viewport[1]
      BY <1>3, <2>4, <2>5
    <3>2. click[1] \in Int /\ click[2] - 1 \in Nat
      <4>1. click \in Position
        BY <1>1, Zenon DEF TypeOK, InViewport
      <4> QED BY <4>1, <1>4, PickingAssumption
    <3> QED BY <3>1, <3>2 DEF PixelReadPos
  <2>7. readBack.frame \in Nat \ {0} /\ readBack.frame <= done
    BY <1>8, <2>5 DEF TypeOK, Drawn
  <2>8. readBack.frame >= frame - BufferedImages - 1
    <3>1. done >= 1 /\ done >= handles[ReadBackBuffer]
      BY <2>5, <2>7
    <3>2. readBack.frame = done
      BY <1>3, <3>1 DEF Holds
    <3> QED BY <3>2
  <2> QED BY <2>3, <2>4, <2>5, <2>6, <2>7, <2>8
<1> QED BY <1>7, <1>8

\* The steps between a click and the end of its frame leave alone what it read.
LEMMA PickStep ==
  ASSUME IInv, [Next]_vars
  PROVE  PickIsRecent'
<1> USE DEF IInv
<1>1. CASE UpdateSelectedID
  BY <1>1, ClickReads
<1>2. CASE UNCHANGED <<pick, frame>>
  BY <1>2 DEF PickIsRecent
<1>3. CASE EndFrame
  BY <1>3, Submitted DEF PickIsRecent
<1>4. CASE ExecuteFrame
  BY <1>4, <1>2, Executed
<1>5. CASE StartRenderIDs \/ Deinit
  BY <1>5, <1>2 DEF StartRenderIDs, Deinit
<1>6. ASSUME NEW n \in 0 .. 6, Renew(n) PROVE PickIsRecent'
  BY <1>2, <1>6 DEF Renew
<1>7. CASE Quiet
  BY <1>1, <1>2, <1>7 DEF Quiet, PollEvents, UpdateSelectedID_Nothing, BeginFrame,
     StartRenderIDs_Crashes, GuiNextFrame, Ended, vars
<1> QED BY <1>3, <1>4, <1>5, <1>6, <1>7, Steps

----------------------------------------------------------------------------
\* Every step keeps the invariant.
LEMMA Inductive == IInv /\ [Next]_vars => IInv'
<1> SUFFICES ASSUME IInv, [Next]_vars PROVE IInv'
  OBVIOUS
<1>1. TypeOK /\ Ordered /\ Paced /\ Older /\ Together /\ DataComplete
  BY DEF IInv
<1>2. TypeOK'
  BY <1>1, TypeStep
<1>3. Ordered' /\ Older' /\ Paced'
  BY <1>1, OrderStep, PaceStep
<1>4. DataComplete' /\ Together'
  BY <1>1, DataStep
<1>5. Uses' /\ Begun' /\ Holds' /\ PickIsRecent'
  BY UsesStep, HoldsStep, PickStep
<1> QED BY <1>2, <1>3, <1>4, <1>5 DEF IInv

\* With the pace of the renderer, only frames begun less than BufferedImages
\* before the resize can still be in flight.
LEMMA ExposedArePrevious == IInv => OnlyPreviousExposed
<1> SUFFICES ASSUME IInv, ~ failed, NEW f \in inFlight, ~ ObjectsLive(f)
             PROVE  f.number \in handles[ReadBackBuffer] - BufferedImages + 1
                                 .. handles[ReadBackBuffer] - 1
  BY DEF OnlyPreviousExposed
<1>1. TypeOK /\ Paced
  BY DEF IInv
<1>2. f.number < handles[ReadBackBuffer]
  BY <1>1, LiveExactly, Numbers
<1>3. handles[ReadBackBuffer] - BufferedImages <= done /\ done < f.number
  BY <1>1, Numbers DEF Paced
<1> QED BY <1>1, <1>2, <1>3, Numbers

LEMMA Invariant == Spec => []IInv
BY InitInvariant, Inductive, PTL DEF Spec

\* Types, and at most BufferedImages frames in flight (Renderer.beginFrame).
THEOREM TypeCorrect == Spec => []TypeOK
BY Invariant, PTL DEF IInv

\* What a click reads without waiting for the GPU (updateSelectedID), for every
\* number of slots and every window: unless the click is outdated, that is, no
\* creation of the objects has failed and the buffer has had the size of the
\* window since it was made.
THEOREM PickIsRecentCorrect == Spec => []PickIsRecent
BY Invariant, PTL DEF IInv

\* Resizes leak nothing, even when a creation fails (createReadBackData).
THEOREM DataCompleteCorrect == Spec => []DataComplete
BY Invariant, PTL DEF IInv

\* Which frames a resize takes the objects from (startRenderIDs): with one slot
\* none, with two only the one before.
THEOREM OnlyPreviousExposedCorrect == Spec => []OnlyPreviousExposed
BY Invariant, ExposedArePrevious, PTL
=============================================================================
