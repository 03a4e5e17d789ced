--------------------------- MODULE StagingUpload ---------------------------
(***************************************************************************)
(* How the data of a model reaches the GPU.  Creating a model queues three *)
(* uploads, its texture, its vertices and its indices, and the write of    *)
(* its descriptor set; every frame flushes the queues: the bytes go into   *)
(* the staging buffer of the frame's slot, which grows when they do not    *)
(* fit, and copies and barriers go into the slot's command list.  The GPU  *)
(* executes the list later.                                                *)
(*                                                                         *)
(* A byte is <<d, i>>, the i-th of what destination d must receive; <<>>   *)
(* is a byte nobody wrote.  Staging buffers are numbered as they are made. *)
(* FrameLoop says what happens when a frame cannot be begun or submitted;  *)
(* here every frame can.                                                   *)
(***************************************************************************)
EXTENDS Integers, Sequences, FiniteSets, SequencesExt

CONSTANTS
  BufferedImages,  \* slots of the renderer
  Model,           \* the models a game may create
  Length,          \* bytes of a destination
  Failures,        \* calls that may fail: "model", "create", "map"
  MaxFailures      \* bound on the calls that fail

Slot == 0 .. BufferedImages - 1
Part == {"texture", "vertices", "indices"}
Destination == Model \X Part
Set == Model \X {"model", "instance"}

ASSUME UploadAssumption ==
  /\ BufferedImages \in Nat \ {0}
  /\ Length \in [Destination -> Nat \ {0}]
  /\ Failures \subseteq {"model", "create", "map"}
  /\ MaxFailures \in Nat

VARIABLES
  pc,                  \* the system the host runs next
  imageIndex,          \* slot of the frame
  attempted,           \* models whose creation was tried
  models, instances,   \* models complete, models with an instance to draw
  stageData,           \* destinations of the queued uploads
  descriptorWrites, descriptorBufferWrites, descriptorImageWrites,
  stagingBuffers, stagingBufferSizes,
  memory,              \* memory[b]: the bytes of staging buffer b
  live,                \* staging buffers created and not destroyed
  renderCmdLists,      \* what each slot's list makes the GPU do
  inFlight,            \* slots submitted, in the order of the timeline
  content, layout,     \* bytes of a destination, the stage that may read it
  sets,                \* what a descriptor set refers to
  unready,             \* models drawn before they could be read
  failed,              \* how many calls have failed
  broken,              \* history: slots whose buffer once could not be created
  delayed              \* history: models with data queued when a flush was given up

scene    == <<attempted, models, instances>>
queues   == <<descriptorWrites, descriptorBufferWrites, descriptorImageWrites>>
buffers  == <<stagingBuffers, stagingBufferSizes, memory, live>>
gpu      == <<content, layout, unready>>
faults   == <<failed, broken, delayed>>
vars     == <<pc, imageIndex, scene, stageData, queues, buffers,
              renderCmdLists, inFlight, gpu, sets, faults>>

Fail(call) ==
  /\ call \in Failures /\ failed < MaxFailures
  /\ failed' = failed + 1

FirstUse(d) == IF d[2] = "texture" THEN "fragment" ELSE "vertex_input"

Bytes(d) == [i \in 1 .. Length[d] |-> <<d, i>>]

(* The bytes of the first k uploads of a queue, k = 0, 1, ...              *)
BytesUpTo(uploads) ==
  LET upTo[k \in 0 .. Len(uploads)] ==
        IF k = 0 THEN 0 ELSE upTo[k - 1] + Length[uploads[k]]
  IN  upTo

Size(uploads) == BytesUpTo(uploads)[Len(uploads)]

Images(uploads) == {d \in Range(uploads) : d[2] = "texture"}

(* What uploadMemory writes, one upload behind the other.                  *)
Written(uploads) ==
  LET upTo[k \in 0 .. Len(uploads)] ==
        IF k = 0 THEN <<>> ELSE upTo[k - 1] \o Bytes(uploads[k])
  IN  upTo

Init ==
  /\ pc = "systems" /\ imageIndex = 0
  /\ attempted = {} /\ models = {} /\ instances = {}
  /\ stageData = <<>>
  /\ descriptorWrites = <<>> /\ descriptorBufferWrites = <<>>
  /\ descriptorImageWrites = <<>>
  /\ stagingBuffers = [s \in Slot |-> 0]
  /\ stagingBufferSizes = [s \in Slot |-> 0]
  /\ memory = <<>> /\ live = {}
  /\ renderCmdLists = [s \in Slot |-> <<>>] /\ inFlight = <<>>
  /\ content = [d \in Destination |-> <<>>]
  /\ layout = [d \in Destination |-> "undefined"]
  /\ sets = [s \in Set |-> <<>>]
  /\ unready = {} /\ failed = 0 /\ broken = {} /\ delayed = {}

(***************************************************************************)
(* addDescriptorUpdate: what the write points to is copied to a list of    *)
(* its own, and found there by its index when the queue is flushed.        *)
(***************************************************************************)
AddImageUpdate(set, image) ==
  /\ descriptorImageWrites' = Append(descriptorImageWrites, image)
  /\ descriptorWrites' =
       Append(descriptorWrites,
              [set |-> set, imgIndex |-> Len(descriptorImageWrites) + 1, bufIndex |-> 0])
  /\ UNCHANGED descriptorBufferWrites

AddBufferUpdate(set, buffer) ==
  /\ descriptorBufferWrites' = Append(descriptorBufferWrites, buffer)
  /\ descriptorWrites' =
       Append(descriptorWrites,
              [set |-> set, imgIndex |-> 0, bufIndex |-> Len(descriptorBufferWrites) + 1])
  /\ UNCHANGED descriptorImageWrites

(***************************************************************************)
(* Game.init and the systems of a game, which run in the phases before     *)
(* PreStore: creating models and instances of them.                        *)
(***************************************************************************)
Uploads(m) == << <<m, "texture">>, <<m, "vertices">>, <<m, "indices">> >>

NewModel(m) ==
  /\ pc = "systems" /\ m \notin attempted
  /\ attempted' = attempted \cup {m}
  /\ models' = models \cup {m}
  /\ stageData' = stageData \o Uploads(m)
  /\ AddImageUpdate(<<m, "model">>, <<m, "texture">>)
  /\ UNCHANGED <<pc, imageIndex, instances, buffers, renderCmdLists, inFlight,
                 gpu, sets, faults>>

(* The texture, or all three, may be queued before a later call fails: the *)
(* buffers stay and are filled, the model is never drawn.                  *)
NewModelFails(m) ==
  /\ pc = "systems" /\ m \notin attempted /\ Fail("model")
  /\ attempted' = attempted \cup {m}
  /\ \E queued \in {0, 1, 3} :
       stageData' = stageData \o SubSeq(Uploads(m), 1, queued)
  /\ UNCHANGED <<pc, imageIndex, models, instances, queues, buffers,
                 renderCmdLists, inFlight, gpu, sets, broken, delayed>>

NewInstance(m) ==
  /\ pc = "systems" /\ m \in models \ instances
  /\ instances' = instances \cup {m}
  /\ AddBufferUpdate(<<m, "instance">>, <<m, "matrix">>)
  /\ UNCHANGED <<pc, imageIndex, attempted, models, stageData, buffers,
                 renderCmdLists, inFlight, gpu, sets, faults>>

(***************************************************************************)
(* beginFrame                                                              *)
(***************************************************************************)
BeginFrame ==
  /\ pc = "systems"
  /\ imageIndex \notin Range(inFlight)
  /\ renderCmdLists' = [renderCmdLists EXCEPT ![imageIndex] = <<>>]
  /\ pc' = "upload"
  /\ UNCHANGED <<imageIndex, scene, stageData, queues, buffers, inFlight, gpu,
                 sets, faults>>

(***************************************************************************)
(* uploadStagingData: nothing to do, growing the buffer, filling it.       *)
(***************************************************************************)
NothingStaged ==
  /\ pc = "upload" /\ Size(stageData) = 0
  /\ pc' = "descriptors"
  /\ UNCHANGED <<imageIndex, scene, stageData, queues, buffers,
                 renderCmdLists, inFlight, gpu, sets, faults>>

TooSmall == stagingBufferSizes[imageIndex] < Size(stageData)

WithoutOld ==
  IF stagingBufferSizes[imageIndex] # 0
  THEN live \ {stagingBuffers[imageIndex]} ELSE live

\* Fault: the new size is not kept.
GrowStagingBuffer_SizeNotKept ==
  LET new == Len(memory) + 1 IN
  /\ pc = "upload" /\ TooSmall
  /\ live' = WithoutOld \cup {new}
  /\ memory' = Append(memory, [i \in 1 .. Size(stageData) |-> <<>>])
  /\ stagingBuffers' = [stagingBuffers EXCEPT ![imageIndex] = new]
  /\ pc' = "fill"
  /\ UNCHANGED <<imageIndex, scene, stageData, queues, renderCmdLists,
                 stagingBufferSizes, inFlight, gpu, sets, faults>>

GrowStagingBuffer ==
  LET new == Len(memory) + 1 IN
  /\ pc = "upload" /\ TooSmall
  /\ live' = WithoutOld \cup {new}
  /\ memory' = Append(memory, [i \in 1 .. Size(stageData) |-> <<>>])
  /\ stagingBuffers' = [stagingBuffers EXCEPT ![imageIndex] = new]
  /\ stagingBufferSizes' = [stagingBufferSizes EXCEPT ![imageIndex] = Size(stageData)]
  /\ pc' = "fill"
  /\ UNCHANGED <<imageIndex, scene, stageData, queues, renderCmdLists,
                 inFlight, gpu, sets, faults>>

Queued == {d[1] : d \in Range(stageData)} \cup {w.set[1] : w \in Range(descriptorWrites)}

(* The old buffer is gone and its size is kept; the queue is kept too, and *)
(* the descriptors are not written in this frame.                          *)
CreateBufferFails ==
  /\ pc = "upload" /\ TooSmall /\ Fail("create")
  /\ live' = WithoutOld
  /\ broken' = broken \cup {imageIndex}
  /\ delayed' = delayed \cup Queued
  /\ pc' = "render"
  /\ UNCHANGED <<imageIndex, scene, stageData, queues, stagingBuffers,
                 stagingBufferSizes, memory, renderCmdLists, inFlight, gpu,
                 sets>>

LargeEnough ==
  /\ pc = "upload" /\ Size(stageData) # 0 /\ ~TooSmall
  /\ pc' = "fill"
  /\ UNCHANGED <<imageIndex, scene, stageData, queues, buffers,
                 renderCmdLists, inFlight, gpu, sets, faults>>

MapMemoryFails ==
  /\ pc = "fill" /\ Fail("map")
  /\ delayed' = delayed \cup Queued
  /\ pc' = "render"
  /\ UNCHANGED <<imageIndex, scene, stageData, queues, buffers,
                 renderCmdLists, inFlight, gpu, sets, broken>>

UploadMemory(b) ==
  LET bytes == Written(stageData)[Len(stageData)]
  IN [memory EXCEPT ![b] = bytes \o SubSeq(@, Len(bytes) + 1, Len(@))]

\* Fault: the offset advances past buffers only.
Copies_ImagesSkipped(uploads, buffer) ==
  [i \in DOMAIN uploads |->
     [op |-> "copy", to |-> uploads[i], from |-> buffer,
      offset |-> Size(SelectSeq(SubSeq(uploads, 1, i - 1), LAMBDA d : d[2] # "texture")),
      size |-> Length[uploads[i]]]]

Copies(uploads, buffer) ==
  [i \in DOMAIN uploads |->
     [op |-> "copy", to |-> uploads[i], from |-> buffer,
      offset |-> BytesUpTo(uploads)[i - 1], size |-> Length[uploads[i]]]]

PreBarrier(uploads) == [op |-> "pre", of |-> Images(uploads)]

PostBarrier(uploads, stage) ==
  [op |-> "post", stage |-> stage, of |-> {d \in Range(uploads) : FirstUse(d) = stage}]

\* Fault: every barrier joins the first stage found.
PostBarriers_OneStage(uploads) ==
  << [op |-> "post", stage |-> FirstUse(uploads[1]), of |-> Range(uploads)] >>

(* One barrier for every stage that is the first to use something, in the  *)
(* one order or the other; one of nothing has no effect.                   *)
PostBarriers(uploads) ==
  << PostBarrier(uploads, "fragment"), PostBarrier(uploads, "vertex_input") >>

Commands(uploads, buffer) ==
  <<PreBarrier(uploads)>> \o Copies(uploads, buffer) \o PostBarriers(uploads)

\* Fault: the queue is not emptied.
RecordUploads_QueueKept ==
  /\ pc = "fill"
  /\ memory' = UploadMemory(stagingBuffers[imageIndex])
  /\ renderCmdLists' = [renderCmdLists EXCEPT ![imageIndex] =
                          @ \o Commands(stageData, stagingBuffers[imageIndex])]
  /\ pc' = "descriptors"
  /\ UNCHANGED <<imageIndex, scene, stageData, queues, stagingBuffers,
                 stagingBufferSizes, live, inFlight, gpu, sets, faults>>

RecordUploads ==
  /\ pc = "fill"
  /\ memory' = UploadMemory(stagingBuffers[imageIndex])
  /\ renderCmdLists' = [renderCmdLists EXCEPT ![imageIndex] =
                          @ \o Commands(stageData, stagingBuffers[imageIndex])]
  /\ stageData' = <<>>
  /\ pc' = "descriptors"
  /\ UNCHANGED <<imageIndex, scene, queues, stagingBuffers,
                 stagingBufferSizes, live, inFlight, gpu, sets, faults>>

(***************************************************************************)
(* updateDescriptorSets                                                    *)
(***************************************************************************)
\* Fault: every write points to the first of the list.
Target_First(write) ==
  IF write.bufIndex # 0 THEN descriptorBufferWrites[1]
  ELSE descriptorImageWrites[1]

Target(write) ==
  IF write.bufIndex # 0 THEN descriptorBufferWrites[write.bufIndex]
  ELSE descriptorImageWrites[write.imgIndex]

UpdateDescriptorSets ==
  /\ pc = "descriptors"
  /\ sets' = [s \in Set |->
                IF \E w \in Range(descriptorWrites) : w.set = s
                THEN Target(CHOOSE w \in Range(descriptorWrites) : w.set = s)
                ELSE sets[s]]
  /\ descriptorWrites' = <<>> /\ descriptorBufferWrites' = <<>>
  /\ descriptorImageWrites' = <<>>
  /\ pc' = "render"
  /\ UNCHANGED <<imageIndex, scene, stageData, buffers, renderCmdLists,
                 inFlight, gpu, faults>>

(***************************************************************************)
(* render, endFrame and deinit                                             *)
(***************************************************************************)
Bound(m) == sets[<<m, "model">>] # <<>> /\ sets[<<m, "instance">>] # <<>>

Render ==
  /\ pc = "render"
  /\ renderCmdLists' = [renderCmdLists EXCEPT ![imageIndex] =
                          Append(@, [op |-> "draw", of |-> instances,
                                     bound |-> {m \in Model : Bound(m)}])]
  /\ pc' = "end"
  /\ UNCHANGED <<imageIndex, scene, stageData, queues, buffers, inFlight, gpu,
                 sets, faults>>

\* Fault: the slot does not wrap.
EndFrame_NoWrap ==
  /\ pc = "end"
  /\ inFlight' = Append(inFlight, imageIndex)
  /\ imageIndex' = imageIndex + 1
  /\ pc' \in {"systems", "deinit"}
  /\ UNCHANGED <<scene, stageData, queues, buffers, renderCmdLists, gpu, sets, faults>>

\* Fault: a frame that draws nothing is not submitted.
EndFrame_OnlyDrawing ==
  /\ pc = "end"
  /\ inFlight' = IF instances = {} THEN inFlight ELSE Append(inFlight, imageIndex)
  /\ imageIndex' = (imageIndex + 1) % BufferedImages
  /\ pc' \in {"systems", "deinit"}
  /\ UNCHANGED <<scene, stageData, queues, buffers, renderCmdLists, gpu, sets, faults>>

EndFrame ==
  /\ pc = "end"
  /\ inFlight' = Append(inFlight, imageIndex)
  /\ imageIndex' = (imageIndex + 1) % BufferedImages
  /\ pc' \in {"systems", "deinit"}
  /\ UNCHANGED <<scene, stageData, queues, buffers, renderCmdLists, gpu, sets, faults>>

(* A slot that never staged anything has no buffer, and a null handle is   *)
(* destroyed without effect.                                               *)
Deinit ==
  /\ pc = "deinit" /\ inFlight = <<>>
  /\ live' = live \ Range(stagingBuffers)
  /\ stageData' = <<>> /\ descriptorWrites' = <<>>
  /\ descriptorBufferWrites' = <<>> /\ descriptorImageWrites' = <<>>
  /\ pc' = "done"
  /\ UNCHANGED <<imageIndex, scene, stagingBuffers, stagingBufferSizes,
                 memory, renderCmdLists, inFlight, gpu, sets, faults>>

Terminated == pc = "done" /\ UNCHANGED vars

(***************************************************************************)
(* The GPU executes the oldest list, command by command.                   *)
(***************************************************************************)
Read(b, offset, size) ==
  [i \in 1 .. size |->
     IF b \in live /\ offset + i <= Len(memory[b]) THEN memory[b][offset + i] ELSE <<>>]

Readable(g, m) == \A p \in Part : g.layout[<<m, p>>] = FirstUse(<<m, p>>)

CanReceive(g, d) == d[2] = "texture" => g.layout[d] = "transfer"

Apply(g, c) ==
  CASE c.op = "pre" ->
         [g EXCEPT !.layout = [d \in Destination |->
                                 IF d \in c.of THEN "transfer" ELSE @[d]]]
    [] c.op = "copy" ->
         [g EXCEPT !.content[c.to] = IF CanReceive(g, c.to)
                                     THEN Read(c.from, c.offset, c.size)
                                     ELSE << <<>> >>]
    [] c.op = "post" ->
         [g EXCEPT !.layout = [d \in Destination |->
                                 IF d \in c.of THEN c.stage ELSE @[d]]]
    [] c.op = "draw" ->
         [g EXCEPT !.unready = @ \cup {m \in c.of : ~Readable(g, m) \/ m \notin c.bound}]

(* The states of the GPU before the first command of a list, after it, ... *)
Execution(g, list) ==
  LET after[k \in 0 .. Len(list)] ==
        IF k = 0 THEN g ELSE Apply(after[k - 1], list[k])
  IN  after

ExecuteFrame ==
  LET list == renderCmdLists[Head(inFlight)]
      g    == Execution([content |-> content, layout |-> layout, unready |-> unready],
                        list)[Len(list)]
  IN /\ inFlight # <<>>
     /\ content' = g.content /\ layout' = g.layout /\ unready' = g.unready
     /\ inFlight' = Tail(inFlight)
     /\ UNCHANGED <<pc, imageIndex, scene, stageData, queues, buffers,
                    renderCmdLists, sets, faults>>

Frame ==
  \/ BeginFrame
  \/ NothingStaged \/ GrowStagingBuffer \/ CreateBufferFails \/ LargeEnough
  \/ MapMemoryFails \/ RecordUploads \/ UpdateDescriptorSets
  \/ Render \/ EndFrame \/ Deinit

Game == \E m \in Model : NewModel(m) \/ NewModelFails(m) \/ NewInstance(m)

Next == Game \/ Frame \/ ExecuteFrame \/ Terminated

Spec == Init /\ [][Next]_vars

(* The run loop goes on and the GPU executes what it was given.            *)
FairSpec == Spec /\ WF_vars(Frame) /\ WF_vars(ExecuteFrame)

(***************************************************************************)
(* Properties.                                                             *)
(***************************************************************************)
Byte == {<<>>} \cup (Destination \X (Nat \ {0}))

TypeOK ==
  /\ pc \in {"systems", "upload", "fill", "descriptors", "render", "end",
             "deinit", "done"}
  /\ imageIndex \in Slot
  /\ attempted \subseteq Model /\ models \subseteq attempted
  /\ instances \subseteq models
  /\ stageData \in Seq(Destination)
  /\ stagingBuffers \in [Slot -> 0 .. Len(memory)]
  /\ stagingBufferSizes \in [Slot -> Nat]
  /\ memory \in Seq(Seq(Byte)) /\ live \subseteq 1 .. Len(memory)
  /\ inFlight \in Seq(Slot)
  /\ content \in [Destination -> Seq(Byte)]
  /\ layout \in [Destination -> {"undefined", "transfer", "fragment", "vertex_input"}]
  /\ unready \subseteq Model
  /\ failed \in 0 .. MaxFailures
  /\ broken \subseteq Slot /\ delayed \subseteq Model

Recording == pc \in {"descriptors", "render", "end"}

(* Lists the GPU has still to execute: in flight, or being recorded.       *)
Pending == Range(inFlight) \cup (IF Recording THEN {imageIndex} ELSE {})

(* The places of the copies to d in the list of a slot.                    *)
CopiesTo(s, d) ==
  {i \in DOMAIN renderCmdLists[s] :
     renderCmdLists[s][i].op = "copy" /\ renderCmdLists[s][i].to = d}

Times(d) ==
  Cardinality({i \in DOMAIN stageData : stageData[i] = d})
  + Cardinality(UNION {{s} \X CopiesTo(s, d) : s \in Pending})
  + (IF content[d] # <<>> THEN 1 ELSE 0)

(* addStagingData, uploadStagingData: whatever fails in between, an upload *)
(* of a model that exists is in one place at a time, the queue, a list the *)
(* GPU has still to execute, or its destination.  It is neither lost nor   *)
(* made twice.                                                             *)
UploadedOnce ==
  pc # "done" => \A d \in Destination : /\ Times(d) <= 1
                                        /\ d[1] \in models => Times(d) = 1

(* uploadStagingData: the GPU reads the staging buffer long after it was   *)
(* filled, from offsets computed apart from the filling; what arrives is   *)
(* every byte of the destination, in order, and of no other: as long as    *)
(* every buffer asked for could be created.                                *)
BytesArrive ==
  broken = {} => \A d \in Destination : content[d] \in {<<>>, Bytes(d)}

(* The buffer a slot remembers exists and has the size remembered, unless  *)
(* one could once not be created for that slot; and a buffer no slot       *)
(* remembers does not exist, whatever failed: none is leaked.              *)
SlotBufferLive ==
  /\ pc # "done" => \A s \in Slot \ broken : stagingBufferSizes[s] # 0 =>
       /\ stagingBuffers[s] \in live
       /\ Len(memory[stagingBuffers[s]]) = stagingBufferSizes[s]
  /\ live \subseteq (IF pc = "done" THEN {} ELSE Range(stagingBuffers))

(* updateDescriptorSets: however many writes of the two kinds were queued, *)
(* and whichever flushes failed, a set refers to what was meant for it.    *)
SetsReferToTheirOwn ==
  \A m \in Model : /\ sets[<<m, "model">>] \in {<<>>, <<m, "texture">>}
                   /\ sets[<<m, "instance">>] \in {<<>>, <<m, "matrix">>}

(* A model is drawn after its data arrived, was made visible to the stage  *)
(* that reads it first, and its descriptor sets were written: a flush that *)
(* is given up hurts only what was queued at that time.                    *)
DrawnIsReady == unready \subseteq delayed

(* A model that was created has all its data on the GPU in the end, unless *)
(* the program is closed before: a flush that is given up is made good by  *)
(* a later one, if only finitely many calls fail.                          *)
UploadsArrive ==
  \A m \in Model : (m \in models) ~> (pc = "done" \/ \A p \in Part : content[<<m, p>>] # <<>>)
=============================================================================
