# Gravity-Engine-Zig: a verification project

TLA+ models of the engine under `src/src`, the TLC runs that check small
instances of them, and proofs checked by TLAPS that hold for every instance.
Paths below are relative to `src/src/`.

## 1. The system

The engine is one host thread that owns a flecs world, and a Vulkan device and a
presentation engine that work concurrently with it. `GravityEngine.init` loads
the modules Core, Graphics, Editor (debug builds) and Game in that order; `run`
calls `flecs.progress` until the window is closed; `deinit` unloads the modules
in reverse order. One call of `progress` runs every system once, in pipeline
order. A system that returns an error is logged by the flecs binding and the
next system runs: **no error of a frame ends the frame**.

| component | source | state | operations | what is hard | what makes it correct |
|---|---|---|---|---|---|
| Frame loop | `Engine/Modules/Graphics/Components/Renderer.zig`, `Viewport.zig` | frame slot, `waitValues`, `semValue`, command lists and staging buffers per slot; swapchain ring, `nextImage`, `imageIndex` | `beginFrame`, `updateData`, `render`, `endFrame`, `nextFrame`, `presentImage`, `deinit` | the GPU runs behind the host, resizes recreate swapchains in use, any call may fail and the frame goes on | nothing in flight is overwritten or destroyed; the host waits only for what comes; a closed window ends the program |
| Upload queue | `Renderer.zig` (`addStagingData`, `uploadStagingData`, `addDescriptorUpdate`, `updateDescriptorSets`) | queues of copies, staging buffer of the slot | queue, flush at the slot's frame | offsets of copies, growth of the buffer, barriers found in a list that is searched per entry | every queued byte range reaches its destination once, in order |
| Stable array | `Utility/StableArray.zig` | `data`, ordered `holes` | `add`, `remove`, `get` | merging of holes over long sequences of calls | an element keeps its index until it is removed; an index in use is never given out |
| Mesh storage | `Engine/Modules/Core/Components/Internal/storage.zig` | hash map from path to model data | `getOrAddMesh` (the only one used), `addMesh`, `removeMesh`, `removeAndDeleteMesh` | replacing or deleting what a model still points into | a path names the data loaded from it, as long as a model uses it |
| Module loader | `Engine/GravityEngine.zig`, `Engine/Modules/modules.zig` | loaded modules in order | `loadModules`, `unloadModules` | failure half way, order of the two unloading phases | a module is up whenever a module that depends on it is |
| Input | `Engine/Modules/Graphics/graphics.zig`, `Components/inputState.zig`, `Game/Components/CameraController.zig`, `Editor/editor.zig` | `InputState` of the window | GLFW callbacks, `onEvent` systems, `clearEvents`, `updateFOW` | callbacks of several events in one poll | a key is held exactly from its press to its release; edges last one frame |
| Shader storage | `Graphics/Components/Internal/shaderStorage.zig` | shaders in memory, code caches and pipeline cache on disk, a modification time file | `getOrAdd`, `getPipelineCache`, `addPipelineCache` | a source file edited between and during runs, a crash, a failing call or a short write while a cache is written | a shader in use was compiled from the source on disk |
| Swapchain and device choice | `Viewport._createSwapchain`, `_initSwapchainData`, `_pickFormat`, `Internal/interface.zig` | ring of swapchains with their images, views and framebuffers | clamps, rankings, creation | zero meaning "unlimited", boundaries, a creation that fails half way | requests lie within the surface's capabilities; the best suitable device is chosen |
| Resources | `Material.zig`, `Model.zig`, `ModelInstance.zig`, `Texture.zig`, `Camera.zig`, `Utility/module.zig` | Vulkan objects in flecs components | `init`, `deinit`, observers | order of destruction at shutdown | everything created is destroyed once |
| Editor | `Editor/editor.zig` | selection, one image of object ids and one read-back buffer for all slots | gui, `renderIDs`, read-back, resize | read-back of a frame that is in flight, resize | a click reads the pixel it hit, as one of the last frames drew it; no frame in flight loses what it uses |
| Importers | `Core/io.zig` | none | gltf and image loading | optional attributes | not modelled: parsing of files |
| Math, transforms, logging, settings | `Utility/*.zig`, `Core/Components/Transform.zig` | none | pure arithmetic and I/O | - | not modelled |
| Vendored | `libs/` | - | flecs, GLFW, Vulkan, glslang, zgui, ... | - | not modelled; external behaviour is taken from how the engine uses it |

How the parts interact: GLFW callbacks write `InputState`, which the systems of
the frame read in the order they were registered; `updateFOW` hands a new size to
the viewport, whose next `nextFrame` recreates the swapchain; models queue uploads
and descriptor writes that `updateData` puts into the command list `beginFrame`
opened; `endFrame` submits it and presents; the editor records into the same list
and reads back what earlier frames wrote. Materials take their shader code from the
shader storage, once, when they are created.

## 2. The project

Modules in the order of what matters most.

| module | models | with | checked by | proofs |
|---|---|---|---|---|
| `FrameLoop` | Renderer frame pacing, Viewport ring, GPU, presentation | implements `DoubleBuffer` | `MCFrameLoop`, 3 runs | `FrameLoop_proofs` |
| `StableArray` | `Utility/StableArray.zig` | implements `StableMap` | 1 run | `StableArray_proofs` |
| `ShaderCache` | `shaderStorage.zig` over runs of the engine | - | `MCShaderCache`, 1 run | `ShaderCache_proofs` |
| `Input` | callbacks, `InputState`, its readers | - | `MCInput`, 2 runs | `Input_proofs` |
| `ModuleLoader` | `GravityEngine.zig` | `FrameLoop`'s frames in flight, as one flag | `MCModuleLoader`, 1 run | `ModuleLoader_proofs` |
| `StagingUpload` | staging queue, staging buffers, descriptor writes | takes the slots from `FrameLoop`'s promise | `MCStagingUpload`, 1 run | `StagingUpload_proofs` |
| `Picking` | the editor's read-back of entity ids, its objects over resizes and failures | `Input`'s sizes, `FrameLoop`'s slots | `MCPicking`, 2 runs | `Picking_proofs` |
| `SwapchainRing` | what a viewport asks of its surface, and what a creation that fails half way leaves in the ring | the part `FrameLoop` takes as one step | `MCSwapchainRing`, 1 run | `SwapchainRing_proofs` |

## 3. Modules and the code they stand for

### FrameLoop

State: `pc` is the system the host runs next (the order of the calls of
`ADD_SYSTEM` in `graphics.zig`); `imageIndex`, `semaphoreValue`, `waitValues` are
the fields of `Renderer`; `resized`, `imageCount`, `currentSwapchain`,
`swapchainData` those of `Viewport`; `recorded` and `stagingBuffer` hold, per slot,
the number of the frame that last filled its command list and staging buffer;
`uniform` is the frame whose matrices were last written; `timeline` is the counter of
the timeline semaphore, `inFlight` the submissions not yet executed, `presented` and
`taken` the images the presentation engine and the host have. `unwaited` is a
history variable, which no guard reads: the slots whose last wait failed.

One frame: `UploadEvents`, `UpdateFOV`, `UpdateUniforms`, `WaitSlot`
or `WaitFails` (`beginFrame` 415), `RecreateSwapchain` or `RecreateFails`,
`AcquireImage` or `AcquireFails`, `BeginRecording` or `BeginFails`, `TransferData`, `Render`,
`EndCommandBufferFails` or `Submit` or `SubmitFails`, `PresentImage` or
`PresentFails`, `ClearEvents`; after a close `DeinitRenderer` or `DeinitFails`,
and `DeinitViewport`. A failing call leads to the next *system*, with what the failed one did not do left
undone, because the binding swallows the error. The wait on the timeline is one of
these calls: when it fails, `beginFrame` ends before a list is begun, and the rest of
the frame fills a slot the GPU may still have; in `Renderer.deinit` a failing wait
ends the program before anything is destroyed. A submission waits for its
predecessor and its image at color output only, so it may run its earlier stages
from the moment it is submitted, whether it can ever finish or not: `inFlight` means
"may be read", and the properties that protect what a frame reads speak of every
frame in it; `ExecuteFrame`, the frame being finished, is what needs the image and the
predecessor. `ExecuteFrame` is the GPU and `ReleaseImage` the presentation engine; both are external.

`DoubleBuffer` is what the slots promise: filled while free, given to a reader, not
touched until the reader gives them back, in order. The writer may seize a slot
without waiting for it (`Seize`); it may then fill and hand over what somebody
still reads, until a later wait finds it free (`Settle`). The refinement maps the
owners of a slot to the submissions in flight from it and `seized` to `unwaited`.

What the model shows of the code beyond the properties: a failed acquisition or
recreation leads to a submission that waits for a semaphore nobody signals; a
failed submission leaves a frame number nobody signals; either makes the host wait
for ever some frames later. `EndCommandBufferFails` followed by a second resize
destroys a swapchain still in use; a frame whose list was never begun submits the
commands of an older frame again, which by then may name framebuffers that a resize
has destroyed and copy from a staging buffer that holds newer bytes; a failed wait
lets two unfinished frames share a slot. If the very first swapchain cannot be
created the program panics (`Render`). These are consequences of swallowed errors that no document of the
repository denies, so they are recorded here and as hazards rather than as
violated claims.

### StableArray

`data` and `holes` are the fields of the structure; `held` and `answer` are the
user's: the elements by the index `add` returned, and what `get` answered. The
disjuncts of `RemoveElement` are the branches of the loop of `remove`. Users remove
and get only indices they hold, as `StableArray.zig` asks; an allocation that
fails changes nothing. An index is a `usize`: `hole.index - 1` wraps at 0 in the
model as in the code (`MinusOne`, `IndexValues`), and the array is shorter than there
are indices. `StableMap` is the promise: a map from indices to elements
where `add` picks any index not in use.

### ShaderCache

Disk (`source`, `codeCache`, `pipelineCache`) survives runs, `storage` does not. A
version number is a source's content and its modification time at once, since an
edit gives a file a time it never had. `getOrAdd` is split at every call on a file,
so that a crash or an edit can fall between any two: the time is read, the cache
opened, its header compared, the code read; or the source compiled, the cache
created (which empties it), the header written, the code written. The pipeline cache
follows with `getPipelineCache` and `addPipelineCache`. `CallFails` stands for every
`try` on a file: it ends the start-up and leaves the files as they are. The two plain
writes (`shaderStorage.zig:124`, `:166`) may also store a part and report nothing:
`WriteCodeShort`, `WriteBlobShort`. The history variable `cut`, which no guard reads,
says whether a cache was ever left half written: by a crash or a failing call after
`createFile` emptied it, or by a short write. It is the exception `FreshCode`,
`StartsUnlessCut` and `LoadedMeansCached` make, and TLC reaches it: after a failing
write the engine does not start again until the file is removed, and a short one
brings code that is not whole under a valid time. Not modelled: restoring an older
file with its older time (which would make a stale cache pass).

Seen in the model: a crash or a failing call between the creation of a cache and its
header makes every later start fail with `EndOfStream` until the file is removed
(`StartsUnlessCut` says that nothing but a cache left half written does); one between
header and code leaves an empty code that is taken for valid.

### Input

Callbacks run in `Poll`, any number of them in any order; the resize callback of a
minimised window calls `glfwWaitEvents`, so callbacks nest (`callbacks` is the stack
of the extents they read). The window changes its size at any time (`Resize`) and
GLFW reports it at once or later (`notices`), always in a poll or a wait, with the
size the window has by then. The readers follow in registration order: `UpdateFOV`,
`EditorOnEvent`, `UpdateControllers`, `NextFrame` or `NextFrameFails`,
`StartRenderIDs`, `ClearEvents`. The build is one with the editor (Debug,
ReleaseSafe).

A size takes three steps from the window to the swapchain. `InputState` starts with
the size asked of the window, which the framebuffer need not have (`window` is any
size at first), and follows the callbacks. `UpdateFOV` gives it to `resize` (`extent`
and `recreate`, the fields `_width`, `_height` and `_resized`). `NextFrame` makes the
swapchain, and `_createSwapchain` first replaces that size by the surface's own,
which is the window's at that moment (`SurfaceExtent`, `Viewport.zig:440`), unless the
surface leaves it to the swapchain (`decides` is false). A creation may fail and is
tried again in the next frame; none succeeds for a minimised window. `Size` stands for
sizes within the limits of the surface; `SwapchainRing` has the clamping. `dropped`,
`lost`, `origin` and `early` are history variables for the exceptions the properties
state: an edge overwritten in its poll, a change of size overwritten before it was
read, a size that comes from a callback that waited or from no callback yet, and a
swapchain made when the window had left the size in `InputState` already. The last one
is reached by a window that changes between the poll and `nextFrame` and is back
before the report: the swapchain keeps a size that nothing else ever had. Left out: the close callback
(it is in `FrameLoop`), `isRepeat` and the cursor mode, which no property reads.

### ModuleLoader

`i` walks the load order up in `loadModules` and down twice in `unloadModules`;
`modules` is the list `isModuleLoaded` searches, `up` what was initialised and not
taken down. `gpuBusy` abstracts `FrameLoop`'s `inFlight`: only the pre-deinit of the
graphics module waits for it to be false.

### StagingUpload

`stageData` and the three descriptor lists are the queues of `Renderer`;
`stagingBuffers` and `stagingBufferSizes` its arrays; a staging buffer's bytes are
in `memory`, and `live` are the buffers created and not destroyed.
`renderCmdLists` holds the commands as the GPU executes them later
(`ExecuteFrame`), reading the staging buffer at that time. `NewModel` is the whole of
`Model.new` (three uploads, one descriptor write) and `NewModelFails` its early
returns. The five actions from `NothingStaged` to `RecordUploads` are
`uploadStagingData`. Games create models in `init` or in systems of phases before
PreStore, which is where `Transfer Data` runs; a system of a later phase would draw a
model a frame before its data arrives. Frames that cannot be begun or submitted are
the business of `FrameLoop`: when `beginFrame` fails, the uploads recorded in that
frame are lost with it.

### Picking

The editor draws the ids of the entities into an image in every frame and copies
it to one read-back buffer, which `updateSelectedID` maps and reads without
waiting. `handles` are the six objects `createReadBackData` makes, each named by
the frame that made it; `live` are those that exist; `size` is the size of the
buffer; `readBack` is the copy that arrived last: the frame it is of and the size
that frame drew with, so that a place of the buffer tells which pixel of which
frame it holds. `PollEvents` takes from `Input` that the size may have changed
without a difference being left in `InputState` (`resized`). A frame is
`PollEvents`, `UpdateSelectedID` or `UpdateSelectedID_Nothing`, `BeginFrame`,
`StartRenderIDs` or `StartRenderIDs_Resized` or `StartRenderIDs_Fails` (after any
number of the six objects) or `StartRenderIDs_Crashes`, `GuiNextFrame`, `EndFrame`;
`ExecuteFrame` is the GPU, and `Deinit` is `Editor.deinit`. Every frame can be begun
and submitted here; `FrameLoop` is about those that cannot.

Memory nobody wrote, a buffer destroyed, a place past its end and the id they give
are `Garbage`. What a frame copies whose objects were destroyed under it is left open
(the buffer keeps what it had or is garbage), as is what the driver does with an
object destroyed twice (the program goes on or crashes), which only a failed
creation leads to. That such a frame may lose the device is left out. The GPU's
writes are seen by the host as soon as the frame is finished: the read-back memory
is not invalidated before it is read, which matters on memory that is not coherent.
A click picks the pixel up and left of the mouse (`mouse - 1`): that is the code's
arithmetic, and `PickIsRecent` states it.

### SwapchainRing

`FrameLoop` takes the creation of a swapchain as one step; here it is
`Viewport.nextFrame` with every call of `_createSwapchain` and `_initSwapchainData`
able to fail. `swapchainData` is the ring; a handle is the number of the creation
that made it, 0 is none, and the 0s in a list of handles are those that were
allocated and never made. `resized`, `width`, `height`, `imageCount`, `layerCount`
are the fields the code writes back the clamped values to, so that one surface's
answer is the next one's wish. Of the ways to composite alpha only the opaque one is
ever asked for, and none if the surface does not have it. The surface reports other capabilities at every
creation. `request` is what it was last asked for. The size is taken from it only if
it has none itself (`Free`), and the present mode is the first of a fixed order.
The driver makes one image more than asked for (`ExtraImages`), as it may.

Seen in the model: a creation that fails leaves handles that were never made, which
the next resize or `deinit` destroys (`wild`), and a current swapchain that is
retired already, which the next attempt retires again (`reused`); a surface that
wants more images than the ring has leads the index past the end of the ring
(`NextFramePanics`). The properties say that nothing else leads there.

## 4. Runs

| run | asks | bounds and why they suffice |
|---|---|---|
| `frame_driver_errors` | Is anything a frame in flight uses overwritten or destroyed; do the slots implement double buffering? Any call but the end of a list may fail, the wait for the slot included. | 2 slots and a ring of 3, as in the code; 3 swapchain handles, since at most 2 are live at once; three kinds of surface; 4 frames: every slot is used twice, and once more after a failure |
| `frame_all_errors` | Do the host's lead, the age of matrices and the shutdown order survive any failure of any call? | 4 frames, one surface, a ring of 2: each slot is reused after a failure, with both slots of the ring neighbours of each other |
| `frame_liveness` | Does the loop always get on, does a close end it, do slots come back? Presentation may fail. | 4 frames, no symmetry |
| `stable_array` | Are indices stable, are holes exactly the free indices, is it a stable map? | 7 places: three separate holes with live elements between and around them, hence every branch of `remove`, merging on both sides included |
| `shader_caches` | Is the code in use the source's, and an accepted pipeline cache built from the sources it names, across edits, runs, crashes, failing calls and short writes? | 2 materials sharing one of 3 shaders, 2 versions of a source, any number of crashes and failures |
| `input` | Do held keys, moving keys and the editor's hold on the mouse survive any sequence of edges; do swapchain, drawing area, read-back buffer and `InputState` agree on the size, and is it the window's? | a movement key and F1 (keys do not meet), 2 mouse positions, 2 sizes and minimising; at most 2 notices and callbacks together: one callback inside another, a change reported late, a change and its reversal |
| `input_reentrancy` | Is GLFW's rule on callbacks kept? Violated. | as above |
| `module_orders` | Are dependencies up when they must be, is the GPU idle before anything is destroyed? | all orders and selections of the four modules, any error |
| `staging` | Is a model drawn only when its data is there; is each upload made once, with its own bytes, from a buffer that lives; does all that is queued arrive? | 2 slots; 2 models of different sizes, so that a later batch is larger or smaller than the slot's buffer; 2 failing calls of any kind: the second may hit what the first left behind |
| `picking` | Does a click read the pixel clicked, as one of the last frames drew it; what does a resize take from a frame in flight; is an object lost? | windows of 2x1, 1x2 and 2x2 pixels, 3 positions in and out of them, 2 slots, 5 frames: a buffer is replaced, used and replaced again; the same properties hold with 1 and with 3 slots |
| `picking_in_use` | Are objects never destroyed under a frame in flight? Violated. | as above, without failures |
| `swapchain_ring` | What is a surface asked for, which swapchain is the next one made from, what does a failure leave behind, when does the index leave the ring? | a ring of 3, 4 creations: the ring wraps after a failure; 5 kinds of surface: fitting, smaller and not opaque, without a greatest count, asking for more images than the ring has, unable to present; every call may fail |

Each property by its run: `frame_driver_errors` has `TypeOK`, `GpuReadsItsOwnFrame`,
`SwapchainOutlivesFrames`, `ImplementsDoubleBuffer`; `frame_all_errors` has
`BoundedLead`, `UniformSkew`, `CleanShutdown`; `frame_liveness` has `FrameProgress`,
`QuitEndsProgram`, `SlotsComeBack`; `stable_array` has `TypeOK`,
`HolesAreTheFreeIndices`, `ImplementsStableMap`; `shader_caches` has `TypeOK`,
`FreshCode`, `StartsUnlessCut`, `LoadedMeansCached`, `PipelineCacheHonest`; `input` has
`TypeOK`, `CameraObeys`, `SizeFollowsWindow`; `module_orders` has `TypeOK`,
`DependenciesUp`, `IdleWhenDestroyed`, `OrderJudgedRightly`; `staging` has `TypeOK`,
`DrawnIsReady`, `UploadedOnce`, `BytesArrive`, `SlotBufferLive`,
`SetsReferToTheirOwn`, `UploadsArrive`; `picking` has `TypeOK`, `PickIsRecent`,
`DataComplete`, `OnlyPreviousExposed`; `swapchain_ring` has `TypeOK`, `NothingLost`,
`RequestsAllowed`, `CreatedFromCurrent`.

Some properties hold only under a restriction. A failed creation leaves the slot
with the handle and size of a destroyed buffer (`uploadStagingData` destroys before
it creates): `SlotBufferLive` excepts the slots this happened to, and `BytesArrive`
speaks of runs where it did not. `DrawnIsReady` excepts the models that had data
queued when a flush was given up, for the frame draws all the same.
`MovesWhileHeld` (of `CameraObeys`), `ReadBackFits`, `SwapchainFits` and
`SizeIsWindows` (of `SizeFollowsWindow`) state their exceptions with the history
variables of section 3, and TLC reaches every one of them. `GpuReadsItsOwnFrame`
excepts the slots whose last wait failed and lets a frame whose list was never begun
find the list of a finished one; `BoundedLead`, `UniformSkew` and `ImplementsDoubleBuffer`
have the same exception for a failed wait. `UploadedOnce` counts bytes as arrived that
were copied from a buffer already destroyed; `SlotBufferLive` is what speaks of the
buffer. `PickIsRecent` excepts a click in a frame whose
size is not the buffer's, one after a frame that drew with another size since the
buffer was made, and runs in which a creation failed. `RequestsAllowed` excepts the
least number of images of a surface that has no greatest one, which
`_createSwapchain` skips with it, and the alpha of a surface that does not composite
opaquely, which is asked for none.

`CHECK_DEADLOCK FALSE` stands in the two runs where failing calls may leave the
host waiting for ever, as the code then does.

Findings: `input_reentrancy` shows that the size callback of a minimised window
calls `glfwWaitEvents` (`Viewport.zig:183`), which GLFW's header forbids within a
callback. `picking_in_use` shows that a resize in the editor destroys the objects
of the frame before while it may still execute (`editor.zig:383`), which is what
`src/vk_layer_settings.txt:38`, the settings of the validation layer of debug builds,
has checked; `OnlyPreviousExposed` bounds it: with one slot no frame is exposed, with
two only the one before.

Fairness. `FrameLoop`: weak fairness of the host (`run` calls `progress` until it
returns false), of the GPU (the timeline wait of a submission is satisfied by the
one before) and of the presentation engine (an image no longer shown comes back).
`StagingUpload`: weak fairness of the frame loop and of the GPU, none of the game;
calls fail only so often (`MaxFailures`), so that `UploadsArrive` says a flush that
was given up is made good by a later one. No liveness is claimed where a failing call
may be repeated for ever.

## 5. Proofs

All theorems hold for every value of the constants that satisfies the named
assumptions; assumptions are evaluated by TLC in the runs as well.

- `FrameLoop_proofs`, from `ConstantsAssumption` and `SurfaceAssumption` (the
  surface allows at least two images and never more than the ring is long). The
  inductive invariant is layered. `SlotInv`: the submissions in flight from a slot
  carry the number in `waitValues` of it unless its last wait failed, and the numbers
  of the other slots are those of the frames just before; from this the wait in
  `beginFrame` frees the slot. `CleanInv`, `UniformInv`, `ContentInv` and `SwapchainInv` rest on it; the last one
  says which position of the ring a frame in flight can have drawn into, which is
  neither neighbour that a resize destroys. `TypeCorrect`, `LeadCorrect`,
  `ShutdownCorrect`, `UniformSkewCorrect`, `ContentCorrect` and `RefinesDoubleBuffer` need no
  restriction of the failures, the failing wait included; `SwapchainCorrect` assumes
  that ending a list cannot fail and that there are at most two slots.
- `StableArray_proofs`: the holes together with the live indices partition the
  array, and `At(id) = held[id]`. One lemma for every way a hole changes; then
  safety and `RefinesStableMap`.
- `ShaderCache_proofs`: `RunInv` (where a run stands), `AgeInv` (no version on disk
  or in memory is newer than its source), `WriteInv` (a cache being written is the
  one of the shader in hand, any other one whole unless `cut`) give `FreshCode`; `PipelineInv` and `CheckInv` give
  `StartsUnlessCut`; `HonestInv`, for edits between runs, `PipelineCacheHonest`.
- `ModuleLoader_proofs`: while loading, what is up is the part of the order before
  `i`, closed under dependencies; while unloading, the part up to `i`. The GPU may be
  busy only as long as the graphics module is still to be prepared.

- `Picking_proofs`, from `PickingAssumption`: frames finish in order and a frame is
  begun only when the one `BufferedImages` before it is finished (`Ordered`, `Paced`);
  while no creation has failed, all six handles carry the number of the frame that
  made them (`Together`) and a frame in flight uses them exactly if it is not older
  (`Uses`); hence the buffer holds the copy of the last finished frame among those
  (`Holds`), which is what `PickIsRecent` rests on. `Paced` alone gives
  `OnlyPreviousExposed`.
- `Input_proofs`, from `KeysAssumption`, `SizeAssumption`, `PositionAssumption` and
  `NestedAssumption`. Every property is about the end of a chain of systems, so the
  invariant says what is true half way down it: what a key has told the camera and
  is still to tell it (`KeysTold`), whether the editor has taken the mouse
  (`MouseTaken`), who has read a change of the size and what the viewport was given
  (`SizeRead`); callbacks run in the poll only (`InPoll`).
- `SwapchainRing_proofs`, from `RingAssumption` and `SurfaceAssumption`: the two slots
  a resize empties are never the current one (`Neighbours`), and what lives is what
  the slots name, no two the same (`Keeps`), for each of the calls that may fail;
  `UndefinedInv` and `RetiredInv` tie the remains of a failed creation to `failed`,
  `CountInv` the images asked for to what a surface has demanded.
- `StagingUpload_proofs`, from `UploadAssumption` (slots, and lengths of at least a
  byte): the run's six safety properties for any models, lengths, slots and failures.
  The copies are executed long after they were recorded, so that no property is
  inductive: the invariant says what every command list that is still to be executed
  will do. `ListsInv` gives the lists their shape (the barrier before the copies, one
  copy per destination, the barriers behind, then draws); `PlacesInv` says that an
  upload is in the queue, in one list or at its destination; `BuffersInv` that slots
  share no buffer, that one remembered exists and has the size remembered; `BytesInv`
  that every pending copy finds its bytes in its slot's buffer, which nobody fills
  again before the list was executed (`SlotsInv`); `LayoutsInv`, `ReadyInv` and
  `DrawsInv` that a draw will find its data made visible and its sets written once
  the lists before it are executed. `QueuesInv` says that the index of a queued write
  stays right while the lists of infos grow, are kept over a flush that is given up
  and are emptied together.

  The offsets, the bytes in the buffer and the execution of a list are recursive
  functions. The library's induction theorems take an operator as parameter, which
  the provers cannot instantiate, so induction is stated over sets (`Induction`: the
  least counterexample, from `<` being well-founded), and that a recursion has a
  solution (`Recursion`) with a function for its step. With them `SumFacts`,
  `WrittenFacts` and `ExecutionFacts` say what the recursive definitions compute for a
  queue or list of any length; `CopyPhase`, `PostPhase` and `DrawPhase` follow the GPU
  through a list, and `Executed` sums them up. Every conjunct of `IInv` was checked by
  TLC on the instance of the run `staging` before it was proved.

Model-checked only: the liveness properties (`FrameProgress`, `QuitEndsProgram`,
`SlotsComeBack`, `UploadsArrive`), since fairness and ENABLED are beyond the prover.
Every safety invariant, action property and refinement the runs check is a theorem,
but for the two properties of the runs that show a disagreement.

## 6. Not modelled

- Importers (`Core/io.zig`): parsing of files, no state.
- Transforms and math: floating point arithmetic.
- Logging, settings, memory aliases, the build description, the vendored libraries.
- The choice of the device and its render passes (`Internal/interface.zig`): rankings
  of what the driver reports, evaluated once at the start; the format of a
  swapchain and the queue it is presented on are chosen once too.
- Mesh storage (`Internal/storage.zig`): a hash map of which the engine uses only
  `getOrAddMesh`, so that no sequence of calls leads to a state a single call does not.
- Creation and destruction of materials, textures, models and cameras beyond what
  they stage and write: the order flecs takes components down in is the library's.
- The widgets of the editor's gui, and the pipeline it creates once.
- Uninitialised handles: `FrameLoop` and `StagingUpload` take them for null
  (`SwapchainRing` tells when one is destroyed).

Weak spots seen while reading that no state of these models can show, for whoever
changes the code next: `Viewport.zig:161` fetches the present queue with the render
queue's family; `Viewport.zig:175` hands GLFW the address of a parameter as user
pointer; the observers of `Viewport` and `Model` handle `OnRemove` but are
registered for `OnSet`; `Material.zig:176` sizes the pool of model sets for uniform
buffers although the layout holds an image; a mesh without positions makes
`Core/io.zig:136` unwrap a null; `storage.zig:44` replaces an entry that is present;
a post barrier with a buffer and an image part loses the image part when its stage
has a group already (`Renderer.zig:316`; no caller gives both); the slice
`updateSelectedID` makes of the mapped memory counts 64-bit ids in units of four bytes and is twice too long, behind a
check of the index that is right.
