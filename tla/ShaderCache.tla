---------------------------- MODULE ShaderCache ----------------------------
(***************************************************************************)
(* Graphics/Components/Internal/shaderStorage.zig, as Material.init uses   *)
(* it: at every start of the engine the shaders of each material are taken *)
(* from memory, from a cache file next to the source, or compiled and      *)
(* cached; then the material's pipeline cache file is accepted or written  *)
(* anew.  Cache files are matched by the modification time of the sources. *)
(*                                                                         *)
(* A source is its version: a number that stands for its content and for   *)
(* its modification time, because an edit gives a file a content and a     *)
(* time it never had.  The engine may crash between any two calls on       *)
(* files, any call may fail, which ends the start-up, and a write that     *)
(* reports no failure may store less than it was given; a developer may    *)
(* edit a source at any time.                                              *)
(***************************************************************************)
EXTENDS Integers, Sequences

CONSTANTS
    Shader,               \* paths of shader sources
    Materials,            \* the materials loaded at start, in order: the shaders of each
    MaxVersion            \* bound on the edits of a source

ASSUME MaterialsAssumption ==
    /\ Materials \in Seq(Seq(Shader))
    /\ Len(Materials) > 0
    /\ \A m \in DOMAIN Materials : Len(Materials[m]) > 0

ASSUME BoundsAssumption == MaxVersion \in Nat

VARIABLES
    source,           \* disk: the version of each source
    codeCache,        \* disk: the cache file of each source
    pipelineCache,    \* disk: the pipeline cache file of each material
    storage,          \* memory: the code of the shaders loaded in this run
    pc,               \* what the engine does next
    material,         \* the material it loads
    shader,           \* the shader of that material it is at
    modified,         \* the modification time getOrAdd read before anything else
    compiled,         \* the code getOrAdd compiled
    started,          \* the sources when this run started
    failure,          \* why the last run did not come up
    cut,              \* was a cache file ever left half written?
    edited            \* was a source ever edited while the engine was loading?

disk == <<source, codeCache, pipelineCache>>
local == <<material, shader, modified, compiled>>
history == <<started, failure, cut, edited>>
vars == <<disk, storage, pc, local, history>>

(***************************************************************************)
(* Files.  0 stands for what is not written, or not all of it: versions    *)
(* start at 1.                                                             *)
(***************************************************************************)
Version == 1 .. MaxVersion
Unwritten == 0

NoCode == [file |-> FALSE, header |-> Unwritten, code |-> Unwritten]
NewCode == [NoCode EXCEPT !.file = TRUE]

NoBlob == << >>
NoPipeline == [file |-> FALSE, headers |-> << >>, ended |-> FALSE, blob |-> NoBlob]
NewPipeline == [NoPipeline EXCEPT !.file = TRUE]

NoCodeLoaded == [s \in {} |-> Unwritten]

ShadersOf(m) == Materials[m]
Current == ShadersOf(material)[shader]
CodeFile == codeCache[Current]
PipelineFile == pipelineCache[material]

Init ==
    /\ source = [s \in Shader |-> 1]
    /\ codeCache = [s \in Shader |-> NoCode]
    /\ pipelineCache = [m \in DOMAIN Materials |-> NoPipeline]
    /\ storage = NoCodeLoaded
    /\ pc = "off"
    /\ material = 1
    /\ shader = 1
    /\ modified = Unwritten
    /\ compiled = Unwritten
    /\ started = source
    /\ failure = "none"
    /\ cut = FALSE
    /\ edited = FALSE

(***************************************************************************)
(* A run begins and ends.                                                  *)
(***************************************************************************)
Start ==
    /\ pc = "off"
    /\ pc' = "getOrAdd"
    /\ material' = 1
    /\ shader' = 1
    /\ started' = source
    /\ failure' = "none"
    /\ UNCHANGED <<disk, storage, modified, compiled, cut, edited>>

\* The process ends: only its files are left.
EndRun(why) ==
    /\ pc' = "off"
    /\ storage' = NoCodeLoaded
    /\ material' = 1
    /\ shader' = 1
    /\ modified' = Unwritten
    /\ compiled' = Unwritten
    /\ failure' = why
    /\ UNCHANGED <<disk, started, edited>>

Stop == pc = "up" /\ EndRun("none") /\ UNCHANGED cut

Loading == pc \notin {"off", "up"}

\* A cache file is created and not whole.  A pipeline cache without its blob
\* is one like any other: the driver gets nothing to start from.
Writing == pc \in {"writeHeader", "writeCode", "writeShader", "writeEnd"}

Crash ==
    /\ Loading
    /\ cut' = (cut \/ Writing)
    /\ EndRun("crash")

\* Any call of getOrAdd, getPipelineCache and addPipelineCache on a file may
\* fail: a source, its time, a cache that is read, created or written.  The
\* error ends the start-up, and the file stays as far as it was written.
\* So does a source that does not compile.
CallFails ==
    /\ Loading
    /\ cut' = (cut \/ Writing)
    /\ EndRun("error")

(***************************************************************************)
(* getOrAdd.                                                               *)
(***************************************************************************)
\* Fault: goes one shader too far.
NextShader_TooFar ==
    IF shader <= Len(ShadersOf(material))
    THEN shader' = shader + 1 /\ pc' = "getOrAdd"
    ELSE shader' = 1 /\ pc' = "openPipeline"

\* The next shader of the material, or its pipeline cache.
NextShader ==
    IF shader < Len(ShadersOf(material))
    THEN shader' = shader + 1 /\ pc' = "getOrAdd"
    ELSE shader' = 1 /\ pc' = "openPipeline"

Stored(code) ==
    /\ storage' = [s \in DOMAIN storage \union {Current} |-> IF s = Current THEN code ELSE storage[s]]
    /\ NextShader
    /\ UNCHANGED <<material, modified, compiled>>

Hit ==
    /\ pc = "getOrAdd"
    /\ Current \in DOMAIN storage
    /\ NextShader
    /\ UNCHANGED <<disk, storage, material, modified, compiled, history>>

Stat ==
    /\ pc = "getOrAdd"
    /\ Current \notin DOMAIN storage
    /\ modified' = source[Current]
    /\ pc' = "codeFromCache"
    /\ UNCHANGED <<disk, storage, material, shader, compiled, history>>

\* Fault: any cache of the source will do.
UseCode_AnyTime ==
    /\ pc = "codeFromCache"
    /\ CodeFile.file /\ CodeFile.header # Unwritten
    /\ Stored(CodeFile.code)
    /\ UNCHANGED <<disk, history>>

\* codeFromCache: no file, or one of another time, is no cache; a file that
\* ends before the time is an error, which ends the start-up; one that ends
\* before the code is a cache with no code in it.
UseCode ==
    /\ pc = "codeFromCache"
    /\ CodeFile.file /\ CodeFile.header = modified
    /\ Stored(CodeFile.code)
    /\ UNCHANGED <<disk, history>>

MissCode ==
    /\ pc = "codeFromCache"
    /\ CodeFile.file => CodeFile.header \notin {Unwritten, modified}
    /\ pc' = "codeFromFile"
    /\ UNCHANGED <<disk, storage, local, history>>

CutCode ==
    /\ pc = "codeFromCache"
    /\ CodeFile.file /\ CodeFile.header = Unwritten
    /\ EndRun("cut code cache")
    /\ UNCHANGED cut

\* A cache that cannot be opened is no cache.
OpenCodeFails ==
    /\ pc = "codeFromCache"
    /\ CodeFile.file
    /\ pc' = "codeFromFile"
    /\ UNCHANGED <<disk, storage, local, history>>

\* codeFromFile reads the source a second time.
Compile ==
    /\ pc = "codeFromFile"
    /\ compiled' = source[Current]
    /\ pc' = "createCode"
    /\ UNCHANGED <<disk, storage, material, shader, modified, history>>

\* codeToCache.
CreateCode ==
    /\ pc = "createCode"
    /\ codeCache' = [codeCache EXCEPT ![Current] = NewCode]
    /\ pc' = "writeHeader"
    /\ UNCHANGED <<source, pipelineCache, storage, local, history>>

WriteHeader ==
    /\ pc = "writeHeader"
    /\ codeCache' = [codeCache EXCEPT ![Current].header = modified]
    /\ pc' = "writeCode"
    /\ UNCHANGED <<source, pipelineCache, storage, local, history>>

\* Fault: keeps the code in memory only.
WriteCode_MemoryOnly ==
    /\ pc = "writeCode"
    /\ Stored(compiled)
    /\ UNCHANGED <<disk, history>>

WriteCode ==
    /\ pc = "writeCode"
    /\ codeCache' = [codeCache EXCEPT ![Current].code = compiled]
    /\ Stored(compiled)
    /\ UNCHANGED <<source, pipelineCache, history>>

\* codeToCache ignores how much of the code the write took.
WriteCodeShort ==
    /\ pc = "writeCode"
    /\ cut' = TRUE
    /\ Stored(compiled)
    /\ UNCHANGED <<disk, started, failure, edited>>

(***************************************************************************)
(* getPipelineCache, and addPipelineCache when there is none to use.       *)
(***************************************************************************)
NextMaterial ==
    /\ shader' = 1
    /\ IF material < Len(Materials)
       THEN material' = material + 1 /\ pc' = "getOrAdd"
       ELSE pc' = "up" /\ UNCHANGED material

\* A cache that cannot be opened is no cache.
OpenPipeline ==
    /\ pc = "openPipeline"
    /\ \/ PipelineFile.file /\ pc' = "checkShader"
       \/ pc' = "createPipeline"
    /\ UNCHANGED <<disk, storage, local, history>>

\* checkShaderModified, for the shaders in order.
ShaderUnmodified ==
    /\ pc = "checkShader"
    /\ shader <= Len(PipelineFile.headers)
    /\ PipelineFile.headers[shader] = source[Current]
    /\ IF shader < Len(ShadersOf(material))
       THEN shader' = shader + 1 /\ pc' = "checkShader"
       ELSE shader' = 1 /\ pc' = "readBlob"
    /\ UNCHANGED <<disk, storage, material, modified, compiled, history>>

ShaderModified ==
    /\ pc = "checkShader"
    /\ shader <= Len(PipelineFile.headers)
    /\ PipelineFile.headers[shader] # source[Current]
    /\ shader' = 1
    /\ pc' = "createPipeline"
    /\ UNCHANGED <<disk, storage, material, modified, compiled, history>>

CutPipeline ==
    /\ \/ pc = "checkShader" /\ shader > Len(PipelineFile.headers)
       \/ pc = "readBlob" /\ ~PipelineFile.ended
    /\ EndRun("cut pipeline cache")
    /\ UNCHANGED cut

UsePipeline ==
    /\ pc = "readBlob"
    /\ PipelineFile.ended
    /\ NextMaterial
    /\ UNCHANGED <<disk, storage, modified, compiled, history>>

CreatePipeline ==
    /\ pc = "createPipeline"
    /\ pipelineCache' = [pipelineCache EXCEPT ![material] = NewPipeline]
    /\ pc' = "writeShader"
    /\ UNCHANGED <<source, codeCache, storage, local, history>>

\* writeShaderModified reads the time of each source anew.
WriteShader ==
    /\ pc = "writeShader"
    /\ pipelineCache' = [pipelineCache EXCEPT ![material].headers = Append(@, source[Current])]
    /\ IF shader < Len(ShadersOf(material))
       THEN shader' = shader + 1 /\ pc' = "writeShader"
       ELSE shader' = 1 /\ pc' = "writeEnd"
    /\ UNCHANGED <<source, codeCache, storage, material, modified, compiled, history>>

\* Fault: the end of the times is not written.
WriteEnd_Missing ==
    /\ pc = "writeEnd"
    /\ pc' = "writeBlob"
    /\ UNCHANGED <<disk, storage, local, history>>

WriteEnd ==
    /\ pc = "writeEnd"
    /\ pipelineCache' = [pipelineCache EXCEPT ![material].ended = TRUE]
    /\ pc' = "writeBlob"
    /\ UNCHANGED <<source, codeCache, storage, local, history>>

\* What the driver made of the code of the pipeline's shaders.
BlobOf(m) == [i \in DOMAIN ShadersOf(m) |-> storage[ShadersOf(m)[i]]]

WriteBlob ==
    /\ pc = "writeBlob"
    /\ pipelineCache' = [pipelineCache EXCEPT ![material].blob = BlobOf(material)]
    /\ NextMaterial
    /\ UNCHANGED <<source, codeCache, storage, modified, compiled, history>>

\* addPipelineCache ignores how much of the blob the write took.
WriteBlobShort ==
    /\ pc = "writeBlob"
    /\ NextMaterial
    /\ UNCHANGED <<disk, storage, modified, compiled, history>>

(***************************************************************************)
(* The developer.                                                          *)
(***************************************************************************)
Edit(s) ==
    /\ source[s] < MaxVersion
    /\ source' = [source EXCEPT ![s] = @ + 1]
    /\ edited' = (edited \/ Loading)
    /\ UNCHANGED <<codeCache, pipelineCache, storage, pc, local, started, failure, cut>>

GetOrAdd ==
    \/ Hit \/ Stat \/ UseCode \/ MissCode \/ CutCode \/ OpenCodeFails \/ Compile
    \/ CreateCode \/ WriteHeader \/ WriteCode \/ WriteCodeShort

MaterialPipeline ==
    \/ OpenPipeline \/ ShaderUnmodified \/ ShaderModified \/ CutPipeline \/ UsePipeline
    \/ CreatePipeline \/ WriteShader \/ WriteEnd \/ WriteBlob \/ WriteBlobShort

Next ==
    \/ Start \/ Stop \/ Crash \/ CallFails
    \/ GetOrAdd
    \/ MaterialPipeline
    \/ \E s \in Shader : Edit(s)

Spec == Init /\ [][Next]_vars

(***************************************************************************)
(* Properties.                                                             *)
(***************************************************************************)
DiskTypes ==
    /\ source \in [Shader -> Nat \ {0}]
    /\ codeCache \in [Shader -> [file : BOOLEAN, header : Nat, code : Nat]]
    /\ pipelineCache \in [DOMAIN Materials ->
           [file : BOOLEAN, headers : Seq(Nat), ended : BOOLEAN, blob : Seq(Nat)]]

StorageType ==
    /\ DOMAIN storage \subseteq Shader
    /\ \A s \in DOMAIN storage : storage[s] \in Nat

PlaceTypes ==
    /\ pc \in {"off", "getOrAdd", "codeFromCache", "codeFromFile", "createCode", "writeHeader",
               "writeCode", "openPipeline", "checkShader", "readBlob", "createPipeline",
               "writeShader", "writeEnd", "writeBlob", "up"}
    /\ material \in DOMAIN Materials
    /\ shader \in DOMAIN ShadersOf(material)

RunTypes ==
    /\ modified \in Nat
    /\ compiled \in Nat
    /\ started \in [Shader -> Nat \ {0}]
    /\ failure \in {"none", "crash", "error", "cut code cache", "cut pipeline cache"}
    /\ cut \in BOOLEAN
    /\ edited \in BOOLEAN

TypeOK == DiskTypes /\ StorageType /\ PlaceTypes /\ RunTypes

\* getOrAdd reads the time of a source before its content, so a cache whose
\* time is that of the source holds the code of the source, whenever sources
\* were edited and runs were cut off, or not all of it.
CodeCacheHonest ==
    \A s \in Shader :
        codeCache[s].header = source[s] => codeCache[s].code \in {source[s], Unwritten}

\* No run uses code older than the sources it was started with, and none uses
\* the incomplete code of a file unless one was left half written: by a crash,
\* a failing call or a short write.
FreshCode ==
    \A s \in DOMAIN storage :
        \/ storage[s] \in started[s] .. source[s]
        \/ storage[s] = Unwritten /\ cut

\* The caches never keep the engine from starting, wherever runs crashed or
\* failed, unless a crash or a failing call came while a cache was being
\* written, or a write was short: then the code does not start again until
\* someone removes the file.
StartsUnlessCut ==
    failure \in {"cut code cache", "cut pipeline cache"} => cut

\* Every shader loaded in this run that was not edited since the start is
\* cached as it is in memory, so the next start compiles none of them; the
\* exception is code that a short write left incomplete under a valid time.
LoadedMeansCached ==
    \A s \in DOMAIN storage : source[s] = started[s] =>
        /\ codeCache[s].file /\ codeCache[s].header = source[s]
        /\ codeCache[s].code = storage[s] \/ (codeCache[s].code = Unwritten /\ cut)

\* A pipeline cache that would be accepted was made from the sources as they
\* are, however runs crashed and sources were edited in between, as long as
\* none was edited while the engine was loading: the times in it are read again
\* after the code was.
PipelineCacheHonest ==
    ~ edited => \A m \in DOMAIN Materials :
        LET cached == pipelineCache[m] IN
        cached.blob # NoBlob /\ (\A i \in DOMAIN ShadersOf(m) : cached.headers[i] = source[ShadersOf(m)[i]])
        => \A i \in DOMAIN ShadersOf(m) : cached.blob[i] \in {source[ShadersOf(m)[i]], Unwritten}
=============================================================================
