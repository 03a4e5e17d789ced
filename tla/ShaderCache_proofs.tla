------------------------- MODULE ShaderCache_proofs -------------------------
(***************************************************************************)
(* What holds of the shader caches for any shaders and materials and any   *)
(* number of edits, crashes, failing calls and short writes.               *)
(***************************************************************************)
EXTENDS ShaderCache, SequenceTheorems, TLAPS

(***************************************************************************)
(* The inductive invariant, in layers: each is preserved given those       *)
(* before it.                                                              *)
(***************************************************************************)
\* The engine is at a shader that is not in memory.
AtShader == pc \in {"codeFromCache", "codeFromFile", "createCode", "writeHeader", "writeCode"}
Caching == pc \in {"createCode", "writeHeader", "writeCode"}

\* The material's pipeline is at hand: its shaders are all in memory.
AtPipeline == pc \in {"openPipeline", "checkShader", "readBlob", "createPipeline",
                      "writeShader", "writeEnd", "writeBlob"}

\* The shaders of the material before the current one are in memory.
AtGetOrAdd == pc = "getOrAdd" \/ AtShader

LoadedInv ==
    \A i \in DOMAIN ShadersOf(material) :
        AtPipeline \/ (i < shader /\ AtGetOrAdd) => ShadersOf(material)[i] \in DOMAIN storage

TypeInv == TypeOK /\ LoadedInv

\* Where the engine is in its materials, and how old what it read can be.
RunInv ==
    /\ pc = "off" => DOMAIN storage = {}
    /\ \A s \in Shader : started[s] <= source[s]
    /\ AtShader => Current \notin DOMAIN storage
    /\ AtShader => started[Current] <= modified /\ modified <= source[Current]
    /\ Caching => modified <= compiled /\ compiled <= source[Current]
    /\ pc \in {"openPipeline", "readBlob", "createPipeline", "writeEnd", "writeBlob"} => shader = 1

\* A cache file holds nothing newer than its source, and code no older than
\* its header.
AgeInv ==
    \A s \in Shader :
        /\ codeCache[s].header <= source[s]
        /\ codeCache[s].code # Unwritten =>
               /\ codeCache[s].header # Unwritten
               /\ codeCache[s].header <= codeCache[s].code
               /\ codeCache[s].code <= source[s]
        /\ codeCache[s].header # Unwritten => codeCache[s].file

\* The code cache being written; any other one is whole unless one was left half written.
WriteInv ==
    /\ pc = "writeHeader" => CodeFile = NewCode
    /\ pc = "writeCode" => CodeFile = [NewCode EXCEPT !.header = modified]
    /\ \A s \in Shader :
        codeCache[s].file /\ codeCache[s].code = Unwritten
        => cut \/ (pc \in {"writeHeader", "writeCode"} /\ s = Current)

\* The same of pipeline caches.
PipelineInv ==
    /\ pc = "writeShader" => ~ PipelineFile.ended /\ Len(PipelineFile.headers) = shader - 1
    /\ pc \in {"writeEnd", "writeBlob"} => Len(PipelineFile.headers) = Len(ShadersOf(material))
    /\ \A m \in DOMAIN Materials :
        pipelineCache[m].file =>
            \/ cut
            \/ pipelineCache[m].ended /\ Len(pipelineCache[m].headers) = Len(ShadersOf(m))
            \/ pc \in {"writeShader", "writeEnd"} /\ m = material

CheckInv == pc \in {"checkShader", "readBlob"} => PipelineFile.file

CodeInv == TypeInv /\ RunInv /\ AgeInv /\ WriteInv /\ FreshCode /\ LoadedMeansCached

\* When no source is edited while the engine loads: what a run reads is what it was
\* started with, and a pipeline cache's blob was made from its headers.
Matches(cached, m) ==
    \A i \in DOMAIN ShadersOf(m) :
        /\ cached.headers[i] \in 1 .. source[ShadersOf(m)[i]]
        /\ cached.blob[i] \in {cached.headers[i], Unwritten}

HonestInv ==
    /\ pc \notin {"off", "up"} => started = source
    /\ pc \in {"writeShader", "writeEnd", "writeBlob"} =>
           /\ PipelineFile.blob = NoBlob
           /\ \A i \in 1 .. Len(PipelineFile.headers) :
                 PipelineFile.headers[i] = source[ShadersOf(material)[i]]
    /\ \A m \in DOMAIN Materials :
           pipelineCache[m].blob # NoBlob => Matches(pipelineCache[m], m)

IInv == CodeInv /\ PipelineInv /\ CheckInv /\ StartsUnlessCut

(***************************************************************************)
(* Materials.                                                              *)
(***************************************************************************)
LEMMA MaterialsFacts ==
  /\ Len(Materials) \in Nat \ {0}
  /\ DOMAIN Materials = 1 .. Len(Materials)
  /\ \A m \in DOMAIN Materials :
        /\ ShadersOf(m) \in Seq(Shader)
        /\ Len(ShadersOf(m)) \in Nat \ {0}
        /\ DOMAIN ShadersOf(m) = 1 .. Len(ShadersOf(m))
        /\ \A i \in DOMAIN ShadersOf(m) : ShadersOf(m)[i] \in Shader
<1>1. Materials \in Seq(Seq(Shader)) /\ Len(Materials) > 0
  BY MaterialsAssumption
<1>2. \A m \in DOMAIN Materials : ShadersOf(m) \in Seq(Shader) /\ Len(ShadersOf(m)) > 0
  BY <1>1, MaterialsAssumption DEF ShadersOf
<1> QED BY <1>1, <1>2

LEMMA CurrentType == PlaceTypes => Current \in Shader
  BY MaterialsFacts DEF PlaceTypes, Current

LEMMA PlaceFacts ==
  PlaceTypes => /\ material \in 1 .. Len(Materials)
                /\ shader \in 1 .. Len(ShadersOf(material))
                /\ Len(ShadersOf(material)) \in Nat \ {0}
                /\ DOMAIN ShadersOf(material) = 1 .. Len(ShadersOf(material))
  BY MaterialsFacts DEF PlaceTypes

\* NextShader and NextMaterial stay in the materials.
LEMMA NextShaderType ==
  ASSUME PlaceTypes, NextShader, material' = material
  PROVE  PlaceTypes'
<1>1. shader \in 1 .. Len(ShadersOf(material)) /\ Len(ShadersOf(material)) \in Nat
  BY MaterialsFacts DEF PlaceTypes
<1>2. shader' \in 1 .. Len(ShadersOf(material)) /\ pc' \in {"getOrAdd", "openPipeline"}
  BY <1>1 DEF NextShader
<1> QED BY <1>2, MaterialsFacts DEF PlaceTypes

LEMMA NextMaterialType ==
  ASSUME PlaceTypes, NextMaterial
  PROVE  PlaceTypes'
<1>1. material \in 1 .. Len(Materials) /\ Len(Materials) \in Nat
  BY MaterialsFacts DEF PlaceTypes
<1>2. /\ material' \in 1 .. Len(Materials) /\ pc' \in {"getOrAdd", "up"}
      /\ shader' = 1
  BY <1>1 DEF NextMaterial
<1>3. 1 \in DOMAIN ShadersOf(material')
  BY <1>2, MaterialsFacts
<1> QED BY <1>2, <1>3, MaterialsFacts DEF PlaceTypes

(***************************************************************************)
(* Types.                                                                  *)
(***************************************************************************)
USE DEF disk, local, history, Unwritten

LEMMA StoredType ==
  ASSUME PlaceTypes, StorageType, NEW code \in Nat, Stored(code)
  PROVE  StorageType' /\ PlaceTypes'
  BY CurrentType, NextShaderType DEF StorageType, Stored

LEMMA FirstShader == 1 \in DOMAIN Materials /\ 1 \in DOMAIN ShadersOf(1)
<1>1. 1 \in DOMAIN Materials
  BY MaterialsFacts
<1> QED BY <1>1, MaterialsFacts

LEMMA EndRunType ==
  ASSUME TypeOK, cut' \in BOOLEAN,
         NEW why \in {"none", "crash", "error", "cut code cache", "cut pipeline cache"},
         EndRun(why)
  PROVE  TypeOK'
<1>1. StorageType'
  <2>1. DOMAIN storage' = {}
    BY DEF EndRun, NoCodeLoaded
  <2> QED BY <2>1 DEF StorageType
<1>2. PlaceTypes'
  <2>1. pc' = "off" /\ material' = 1 /\ shader' = 1
    BY DEF EndRun
  <2> QED BY <2>1, FirstShader DEF PlaceTypes, ShadersOf
<1>3. DiskTypes' /\ RunTypes'
  BY DEF EndRun, TypeOK, DiskTypes, RunTypes
<1> QED BY <1>1, <1>2, <1>3 DEF TypeOK

LEMMA TypeInit == Init => TypeInv
<1> SUFFICES ASSUME Init PROVE TypeInv
    OBVIOUS
<1> USE DEF Init
<1>1. DiskTypes
  BY DEF DiskTypes, NoCode, NoPipeline, NoBlob
<1>2. StorageType
  BY DEF StorageType, NoCodeLoaded
<1>3. PlaceTypes
  BY MaterialsFacts DEF PlaceTypes
<1>4. RunTypes
  <2>1. edited = FALSE
    BY Zenon
  <2>2. edited \in BOOLEAN
    BY <2>1
  <2>3. started \in [Shader -> Nat \ {0}] /\ modified \in Nat /\ compiled \in Nat
    OBVIOUS
  <2>4. cut = FALSE
    BY Zenon
  <2>5. cut \in BOOLEAN
    BY <2>4
  <2> QED BY <2>2, <2>3, <2>5 DEF RunTypes
<1>5. LoadedInv
  BY DEF LoadedInv, AtGetOrAdd, AtShader, AtPipeline
<1> QED BY <1>1, <1>2, <1>3, <1>4, <1>5 DEF TypeInv, TypeOK

LEMMA TypeStep == TypeInv /\ [Next]_vars => TypeOK'
<1> SUFFICES ASSUME TypeInv, [Next]_vars PROVE TypeOK'
    OBVIOUS
<1> USE DEF TypeInv, TypeOK
<1>1. CASE Start
  <2>1. PlaceTypes'
    BY <1>1, MaterialsFacts DEF Start, PlaceTypes
  <2> QED BY <1>1, <2>1 DEF Start, DiskTypes, StorageType, RunTypes
<1>2. CASE Stop
  BY <1>2, EndRunType DEF Stop, RunTypes
<1>3. CASE Crash
  <2>1. cut' \in BOOLEAN
    BY <1>3 DEF Crash
  <2> QED BY <1>3, <2>1, EndRunType DEF Crash
<1>4. CASE Hit
  <2>1. PlaceTypes'
    BY <1>4, NextShaderType DEF Hit
  <2> QED BY <1>4, <2>1 DEF Hit, DiskTypes, StorageType, RunTypes
<1>5. CASE Stat
  BY <1>5, CurrentType DEF Stat, DiskTypes, StorageType, PlaceTypes, RunTypes
<1>6. CASE UseCode
  <2>1. CodeFile.code \in Nat
    BY CurrentType DEF CodeFile, DiskTypes
  <2>2. Stored(CodeFile.code) /\ UNCHANGED disk
    BY <1>6 DEF UseCode
  <2>3. StorageType' /\ PlaceTypes'
    BY <2>1, <2>2, StoredType
  <2> QED BY <1>6, <2>3 DEF UseCode, Stored, DiskTypes, RunTypes
<1>7. CASE MissCode
  BY <1>7 DEF MissCode, DiskTypes, StorageType, PlaceTypes, RunTypes
<1>8. CASE CutCode
  BY <1>8, EndRunType DEF CutCode, RunTypes
<1>9. CASE Compile
  BY <1>9, CurrentType DEF Compile, DiskTypes, StorageType, PlaceTypes, RunTypes
<1>10. CASE CallFails
  <2>1. cut' \in BOOLEAN
    BY <1>10 DEF CallFails
  <2> QED BY <1>10, <2>1, EndRunType DEF CallFails
<1>11. CASE CreateCode
  BY <1>11 DEF CreateCode, NewCode, NoCode, DiskTypes, StorageType, PlaceTypes, RunTypes
<1>12. CASE WriteHeader
  <2>1. DiskTypes'
    BY <1>12 DEF WriteHeader, DiskTypes, RunTypes
  <2> QED BY <1>12, <2>1 DEF WriteHeader, StorageType, PlaceTypes, RunTypes
<1>13. CASE WriteCode
  <2>1. DiskTypes'
    BY <1>13 DEF WriteCode, DiskTypes, RunTypes
  <2>2. StorageType' /\ PlaceTypes'
    BY <1>13, StoredType DEF WriteCode, RunTypes
  <2> QED BY <1>13, <2>1, <2>2 DEF WriteCode, Stored, RunTypes
<1>14. CASE OpenPipeline
  BY <1>14 DEF OpenPipeline, DiskTypes, StorageType, PlaceTypes, RunTypes
<1>15. CASE ShaderUnmodified
  <2>1. PlaceTypes'
    BY <1>15, MaterialsFacts DEF ShaderUnmodified, PlaceTypes
  <2> QED BY <1>15, <2>1 DEF ShaderUnmodified, DiskTypes, StorageType, RunTypes
<1>16. CASE ShaderModified
  <2>1. PlaceTypes'
    BY <1>16, MaterialsFacts DEF ShaderModified, PlaceTypes
  <2> QED BY <1>16, <2>1 DEF ShaderModified, DiskTypes, StorageType, RunTypes
<1>17. CASE CutPipeline
  BY <1>17, EndRunType DEF CutPipeline, RunTypes
<1>18. CASE UsePipeline
  <2>1. PlaceTypes'
    BY <1>18, NextMaterialType DEF UsePipeline
  <2> QED BY <1>18, <2>1 DEF UsePipeline, DiskTypes, StorageType, RunTypes
<1>19. CASE CreatePipeline
  <2>1. NewPipeline \in [file : BOOLEAN, headers : Seq(Nat), ended : BOOLEAN, blob : Seq(Nat)]
    <3>1. << >> \in Seq(Nat)
      OBVIOUS
    <3> QED BY <3>1 DEF NewPipeline, NoPipeline, NoBlob
  <2>2. DiskTypes'
    BY <1>19, <2>1 DEF CreatePipeline, DiskTypes
  <2> QED BY <1>19, <2>2 DEF CreatePipeline, StorageType, PlaceTypes, RunTypes
<1>20. CASE WriteShader
  <2>1. PlaceTypes'
    BY <1>20, MaterialsFacts DEF WriteShader, PlaceTypes
  <2>2. Append(PipelineFile.headers, source[Current]) \in Seq(Nat)
    BY CurrentType DEF DiskTypes, PipelineFile, PlaceTypes
  <2>3. DiskTypes'
    BY <1>20, <2>2 DEF WriteShader, DiskTypes, PipelineFile
  <2> QED BY <1>20, <2>1, <2>3 DEF WriteShader, StorageType, RunTypes
<1>21. CASE WriteEnd
  BY <1>21 DEF WriteEnd, DiskTypes, StorageType, PlaceTypes, RunTypes
<1>22. CASE WriteBlob
  <2>1. PlaceTypes'
    BY <1>22, NextMaterialType DEF WriteBlob
  <2>2. BlobOf(material) \in Seq(Nat)
    <3>1. \A i \in DOMAIN ShadersOf(material) : storage[ShadersOf(material)[i]] \in Nat
      BY <1>22 DEF WriteBlob, LoadedInv, AtPipeline, StorageType
    <3>2. material \in DOMAIN Materials
      BY DEF PlaceTypes
    <3> QED BY <3>1, <3>2, MaterialsFacts DEF BlobOf
  <2>3. DiskTypes'
    BY <1>22, <2>2 DEF WriteBlob, DiskTypes
  <2> QED BY <1>22, <2>1, <2>3 DEF WriteBlob, StorageType, RunTypes
<1>23. CASE \E s \in Shader : Edit(s)
  <2>1. PICK s \in Shader : Edit(s)
    BY <1>23
  <2>2. source' \in [Shader -> Nat \ {0}]
    BY <2>1 DEF Edit, Loading, DiskTypes
  <2> QED BY <2>1, <2>2 DEF Edit, Loading, DiskTypes, StorageType, PlaceTypes, RunTypes
<1>24. CASE UNCHANGED vars
  BY <1>24 DEF vars, DiskTypes, StorageType, PlaceTypes, RunTypes
<1>25. CASE OpenCodeFails
  BY <1>25 DEF OpenCodeFails, DiskTypes, StorageType, PlaceTypes, RunTypes
<1>26. CASE WriteCodeShort
  <2>1. DiskTypes'
    BY <1>26 DEF WriteCodeShort, DiskTypes, RunTypes
  <2>2. StorageType' /\ PlaceTypes'
    BY <1>26, StoredType DEF WriteCodeShort, RunTypes
  <2> QED BY <1>26, <2>1, <2>2 DEF WriteCodeShort, Stored, RunTypes
<1>27. CASE WriteBlobShort
  <2>1. PlaceTypes'
    BY <1>27, NextMaterialType DEF WriteBlobShort
  <2> QED BY <1>27, <2>1 DEF WriteBlobShort, DiskTypes, StorageType, RunTypes
<1> QED BY <1>1, <1>2, <1>3, <1>4, <1>5, <1>6, <1>7, <1>8, <1>9, <1>10, <1>11, <1>12, <1>13,
           <1>14, <1>15, <1>16, <1>17, <1>18, <1>19, <1>20, <1>21, <1>22, <1>23, <1>24,
           <1>25, <1>26, <1>27
        DEF Next, GetOrAdd, MaterialPipeline


LEMMA LoadedStep == TypeInv /\ [Next]_vars => LoadedInv'
<1> SUFFICES ASSUME TypeInv, [Next]_vars,
                    NEW i \in DOMAIN ShadersOf(material'),
                    AtPipeline' \/ (i < shader' /\ AtGetOrAdd')
             PROVE  ShadersOf(material')[i] \in DOMAIN storage'
    BY DEF LoadedInv, ShadersOf
<1> USE DEF TypeInv, TypeOK
<1>1. CASE Start
  BY <1>1, MaterialsFacts, PlaceFacts DEF Start, LoadedInv, AtGetOrAdd, AtShader, AtPipeline
<1>2. CASE Stop
  BY <1>2, MaterialsFacts, PlaceFacts DEF Stop, EndRun, LoadedInv, AtGetOrAdd, AtShader, AtPipeline
<1>3. CASE Crash
  BY <1>3, MaterialsFacts, PlaceFacts DEF Crash, Loading, Writing, EndRun, LoadedInv, AtGetOrAdd, AtShader, AtPipeline
<1>4. CASE Hit
  BY <1>4, MaterialsFacts, PlaceFacts DEF Hit, NextShader, Current, LoadedInv, AtGetOrAdd,
                                          AtShader, AtPipeline
<1>5. CASE Stat
  BY <1>5, MaterialsFacts, PlaceFacts DEF Stat, LoadedInv, AtGetOrAdd, AtShader, AtPipeline
<1>6. CASE UseCode
  BY <1>6, MaterialsFacts, PlaceFacts
  DEF UseCode, Stored, NextShader, Current, LoadedInv, AtGetOrAdd, AtShader, AtPipeline
<1>7. CASE MissCode
  BY <1>7, MaterialsFacts, PlaceFacts DEF MissCode, LoadedInv, AtGetOrAdd, AtShader, AtPipeline
<1>8. CASE CutCode
  BY <1>8, MaterialsFacts, PlaceFacts DEF CutCode, EndRun, LoadedInv, AtGetOrAdd, AtShader,
                                          AtPipeline
<1>9. CASE Compile
  BY <1>9, MaterialsFacts, PlaceFacts DEF Compile, LoadedInv, AtGetOrAdd, AtShader, AtPipeline
<1>10. CASE CallFails
  BY <1>10, MaterialsFacts, PlaceFacts DEF CallFails, Loading, Writing, EndRun, LoadedInv, AtGetOrAdd, AtShader,
                                           AtPipeline
<1>11. CASE CreateCode
  BY <1>11, MaterialsFacts, PlaceFacts DEF CreateCode, LoadedInv, AtGetOrAdd, AtShader, AtPipeline
<1>12. CASE WriteHeader
  BY <1>12, MaterialsFacts, PlaceFacts DEF WriteHeader, LoadedInv, AtGetOrAdd, AtShader, AtPipeline
<1>13. CASE WriteCode
  BY <1>13, MaterialsFacts, PlaceFacts
  DEF WriteCode, Stored, NextShader, Current, LoadedInv, AtGetOrAdd, AtShader, AtPipeline
<1>14. CASE OpenPipeline
  BY <1>14, MaterialsFacts, PlaceFacts DEF OpenPipeline, LoadedInv, AtGetOrAdd, AtShader, AtPipeline
<1>15. CASE ShaderUnmodified
  BY <1>15, MaterialsFacts, PlaceFacts DEF ShaderUnmodified, LoadedInv, AtGetOrAdd, AtShader,
                                           AtPipeline
<1>16. CASE ShaderModified
  BY <1>16, MaterialsFacts, PlaceFacts DEF ShaderModified, LoadedInv, AtGetOrAdd, AtShader,
                                           AtPipeline
<1>17. CASE CutPipeline
  BY <1>17, MaterialsFacts, PlaceFacts DEF CutPipeline, EndRun, LoadedInv, AtGetOrAdd, AtShader,
                                           AtPipeline
<1>18. CASE UsePipeline
  BY <1>18, MaterialsFacts, PlaceFacts DEF UsePipeline, NextMaterial, LoadedInv, AtGetOrAdd,
                                           AtShader, AtPipeline
<1>19. CASE CreatePipeline
  BY <1>19, MaterialsFacts, PlaceFacts DEF CreatePipeline, LoadedInv, AtGetOrAdd, AtShader,
                                           AtPipeline
<1>20. CASE WriteShader
  BY <1>20, MaterialsFacts, PlaceFacts DEF WriteShader, LoadedInv, AtGetOrAdd, AtShader, AtPipeline
<1>21. CASE WriteEnd
  BY <1>21, MaterialsFacts, PlaceFacts DEF WriteEnd, LoadedInv, AtGetOrAdd, AtShader, AtPipeline
<1>22. CASE WriteBlob
  BY <1>22, MaterialsFacts, PlaceFacts DEF WriteBlob, NextMaterial, LoadedInv, AtGetOrAdd,
                                           AtShader, AtPipeline
<1>23. CASE \E s \in Shader : Edit(s)
  BY <1>23 DEF Edit, Loading, LoadedInv, AtGetOrAdd, AtShader, AtPipeline
<1>24. CASE UNCHANGED vars
  BY <1>24 DEF vars, LoadedInv, AtGetOrAdd, AtShader, AtPipeline
<1>25. CASE OpenCodeFails
  BY <1>25, MaterialsFacts, PlaceFacts DEF OpenCodeFails, LoadedInv, AtGetOrAdd, AtShader, AtPipeline
<1>26. CASE WriteCodeShort
  BY <1>26, MaterialsFacts, PlaceFacts
  DEF WriteCodeShort, Stored, NextShader, Current, LoadedInv, AtGetOrAdd, AtShader, AtPipeline
<1>27. CASE WriteBlobShort
  BY <1>27, MaterialsFacts, PlaceFacts DEF WriteBlobShort, NextMaterial, LoadedInv, AtGetOrAdd,
                                           AtShader, AtPipeline
<1> QED BY <1>1, <1>2, <1>3, <1>4, <1>5, <1>6, <1>7, <1>8, <1>9, <1>10, <1>11, <1>12, <1>13,
           <1>14, <1>15, <1>16, <1>17, <1>18, <1>19, <1>20, <1>21, <1>22, <1>23, <1>24,
           <1>25, <1>26, <1>27
        DEF Next, GetOrAdd, MaterialPipeline

LEMMA TypeInvStep == TypeInv /\ [Next]_vars => TypeInv'
  BY TypeStep, LoadedStep DEF TypeInv

\* No operation leaves the types.
THEOREM TypeCorrect == Spec => []TypeOK
<1>1. TypeInv => TypeOK
  BY DEF TypeInv
<1> QED BY TypeInit, TypeInvStep, <1>1, PTL DEF Spec
(***************************************************************************)
(* Code caches.                                                            *)
(***************************************************************************)
LEMMA TypeFacts ==
  TypeInv =>
    /\ Current \in Shader
    /\ source \in [Shader -> Nat \ {0}]
    /\ started \in [Shader -> Nat \ {0}]
    /\ codeCache \in [Shader -> [file : BOOLEAN, header : Nat, code : Nat]]
    /\ modified \in Nat /\ compiled \in Nat /\ cut \in BOOLEAN
    /\ DOMAIN storage \subseteq Shader
    /\ \A s \in DOMAIN storage : storage[s] \in Nat
  BY CurrentType DEF TypeInv, TypeOK, DiskTypes, RunTypes, StorageType

LEMMA WrittenCode ==
  ASSUME TypeInv, WriteInv, WriteCode
  PROVE  codeCache' = [codeCache EXCEPT ![Current] = [file |-> TRUE, header |-> modified, code |-> compiled]]
<1>1. Current \in Shader /\ codeCache[Current] = [file |-> TRUE, header |-> modified, code |-> 0]
  BY TypeFacts DEF WriteCode, WriteInv, CodeFile, NewCode, NoCode
<1>2. /\ codeCache \in [Shader -> [file : BOOLEAN, header : Nat, code : Nat]]
      /\ codeCache' = [codeCache EXCEPT ![Current].code = compiled]
  BY TypeFacts DEF WriteCode
<1>3. codeCache'[Current] = [file |-> TRUE, header |-> modified, code |-> compiled]
  <2>1. codeCache'[Current] \in [file : BOOLEAN, header : Nat, code : Nat]
    BY <1>1, <1>2, TypeFacts
  <2>2. /\ codeCache'[Current].file = TRUE /\ codeCache'[Current].header = modified
        /\ codeCache'[Current].code = compiled
    BY <1>1, <1>2
  <2> QED BY <2>1, <2>2
<1>4. \A s \in Shader \ {Current} : codeCache'[s] = codeCache[s]
  BY <1>1, <1>2
<1> QED BY <1>1, <1>2, <1>3, <1>4

LEMMA RunStep ==
  ASSUME TypeInv, TypeInv', RunInv, [Next]_vars
  PROVE  RunInv'
<1> USE TypeFacts
<1>1. CASE Start
  BY <1>1 DEF Start, RunInv, AtShader, Caching, Current, NoCodeLoaded
<1>2. CASE Stop
  BY <1>2 DEF Stop, EndRun, RunInv, AtShader, Caching, Current, NoCodeLoaded
<1>3. CASE Crash
  BY <1>3 DEF Crash, Loading, Writing, EndRun, RunInv, AtShader, Caching, Current, NoCodeLoaded
<1>4. CASE Hit
  BY <1>4 DEF Hit, NextShader, RunInv, AtShader, Caching, Current, NoCodeLoaded
<1>5. CASE Stat
  BY <1>5 DEF Stat, RunInv, AtShader, Caching, Current, NoCodeLoaded
<1>6. CASE UseCode
  BY <1>6 DEF UseCode, Stored, NextShader, RunInv, AtShader, Caching, Current, NoCodeLoaded
<1>7. CASE MissCode
  BY <1>7 DEF MissCode, RunInv, AtShader, Caching, Current, NoCodeLoaded
<1>8. CASE CutCode
  BY <1>8 DEF CutCode, EndRun, RunInv, AtShader, Caching, Current, NoCodeLoaded
<1>9. CASE Compile
  BY <1>9 DEF Compile, RunInv, AtShader, Caching, Current, NoCodeLoaded
<1>10. CASE CallFails
  BY <1>10 DEF CallFails, Loading, Writing, EndRun, RunInv, AtShader, Caching, Current, NoCodeLoaded
<1>11. CASE CreateCode
  BY <1>11 DEF CreateCode, NewCode, NoCode, RunInv, AtShader, Caching, Current, NoCodeLoaded
<1>12. CASE WriteHeader
  BY <1>12 DEF WriteHeader, RunInv, AtShader, Caching, Current, NoCodeLoaded
<1>13. CASE WriteCode
  BY <1>13 DEF WriteCode, Stored, NextShader, RunInv, AtShader, Caching, Current, NoCodeLoaded
<1>14. CASE OpenPipeline
  BY <1>14 DEF OpenPipeline, RunInv, AtShader, Caching, Current, NoCodeLoaded
<1>15. CASE ShaderUnmodified
  BY <1>15 DEF ShaderUnmodified, RunInv, AtShader, Caching, Current, NoCodeLoaded
<1>16. CASE ShaderModified
  BY <1>16 DEF ShaderModified, RunInv, AtShader, Caching, Current, NoCodeLoaded
<1>17. CASE CutPipeline
  BY <1>17 DEF CutPipeline, EndRun, RunInv, AtShader, Caching, Current, NoCodeLoaded
<1>18. CASE UsePipeline
  BY <1>18 DEF UsePipeline, NextMaterial, RunInv, AtShader, Caching, Current, NoCodeLoaded
<1>19. CASE CreatePipeline
  BY <1>19 DEF CreatePipeline, RunInv, AtShader, Caching, Current, NoCodeLoaded
<1>20. CASE WriteShader
  BY <1>20 DEF WriteShader, RunInv, AtShader, Caching, Current, NoCodeLoaded
<1>21. CASE WriteEnd
  BY <1>21 DEF WriteEnd, RunInv, AtShader, Caching, Current, NoCodeLoaded
<1>22. CASE WriteBlob
  BY <1>22 DEF WriteBlob, NextMaterial, RunInv, AtShader, Caching, Current, NoCodeLoaded
<1>23. CASE \E s \in Shader : Edit(s)
  BY <1>23 DEF Edit, Loading, RunInv, AtShader, Caching, Current, NoCodeLoaded
<1>24. CASE UNCHANGED vars
  BY <1>24 DEF vars, RunInv, AtShader, Caching, Current, NoCodeLoaded
<1>25. CASE OpenCodeFails
  BY <1>25 DEF OpenCodeFails, RunInv, AtShader, Caching, Current, NoCodeLoaded
<1>26. CASE WriteCodeShort
  BY <1>26 DEF WriteCodeShort, Stored, NextShader, RunInv, AtShader, Caching, Current, NoCodeLoaded
<1>27. CASE WriteBlobShort
  BY <1>27 DEF WriteBlobShort, NextMaterial, RunInv, AtShader, Caching, Current, NoCodeLoaded
<1> QED BY <1>1, <1>2, <1>3, <1>4, <1>5, <1>6, <1>7, <1>8, <1>9, <1>10, <1>11, <1>12, <1>13,
           <1>14, <1>15, <1>16, <1>17, <1>18, <1>19, <1>20, <1>21, <1>22, <1>23, <1>24,
           <1>25, <1>26, <1>27
        DEF Next, GetOrAdd, MaterialPipeline

LEMMA AgeStep ==
  ASSUME TypeInv, RunInv, AgeInv, WriteInv, [Next]_vars
  PROVE  AgeInv'
<1> USE TypeFacts
<1>1. CASE Start
  BY <1>1 DEF Start, AgeInv, RunInv, WriteInv, AtShader, Caching, CodeFile
<1>2. CASE Stop
  BY <1>2 DEF Stop, EndRun, AgeInv, RunInv, WriteInv, AtShader, Caching, CodeFile
<1>3. CASE Crash
  BY <1>3 DEF Crash, Loading, Writing, EndRun, AgeInv, RunInv, WriteInv, AtShader, Caching, CodeFile
<1>4. CASE Hit
  BY <1>4 DEF Hit, NextShader, AgeInv, RunInv, WriteInv, AtShader, Caching, CodeFile
<1>5. CASE Stat
  BY <1>5 DEF Stat, AgeInv, RunInv, WriteInv, AtShader, Caching, CodeFile
<1>6. CASE UseCode
  BY <1>6 DEF UseCode, Stored, NextShader, AgeInv, RunInv, WriteInv, AtShader, Caching, CodeFile
<1>7. CASE MissCode
  BY <1>7 DEF MissCode, AgeInv, RunInv, WriteInv, AtShader, Caching, CodeFile
<1>8. CASE CutCode
  BY <1>8 DEF CutCode, EndRun, AgeInv, RunInv, WriteInv, AtShader, Caching, CodeFile
<1>9. CASE Compile
  BY <1>9 DEF Compile, AgeInv, RunInv, WriteInv, AtShader, Caching, CodeFile
<1>10. CASE CallFails
  BY <1>10 DEF CallFails, Loading, Writing, EndRun, AgeInv, RunInv, WriteInv, AtShader, Caching, CodeFile
<1>11. CASE CreateCode
  BY <1>11 DEF CreateCode, NewCode, NoCode, AgeInv, RunInv, WriteInv, AtShader, Caching, CodeFile
<1>12. CASE WriteHeader
  <2>1. Current \in Shader /\ codeCache[Current] = [file |-> TRUE, header |-> 0, code |-> 0]
    BY <1>12 DEF WriteHeader, WriteInv, CodeFile, NewCode, NoCode
  <2>2. modified \in Nat \ {0} /\ modified <= source[Current]
    BY <1>12 DEF WriteHeader, RunInv, AtShader
  <2>3. codeCache' = [codeCache EXCEPT ![Current] = [file |-> TRUE, header |-> modified, code |-> 0]]
    <3>1. /\ codeCache \in [Shader -> [file : BOOLEAN, header : Nat, code : Nat]]
          /\ codeCache' = [codeCache EXCEPT ![Current].header = modified]
      BY <1>12 DEF WriteHeader
    <3>2. codeCache'[Current] = [file |-> TRUE, header |-> modified, code |-> 0]
      <4>1. codeCache'[Current] \in [file : BOOLEAN, header : Nat, code : Nat]
        BY <2>1, <3>1
      <4>2. /\ codeCache'[Current].file = TRUE /\ codeCache'[Current].header = modified
            /\ codeCache'[Current].code = 0
        BY <2>1, <3>1
      <4> QED BY <4>1, <4>2
    <3>3. \A s \in Shader \ {Current} : codeCache'[s] = codeCache[s]
      BY <2>1, <3>1
    <3> QED BY <2>1, <3>1, <3>2, <3>3
  <2> QED BY <1>12, <2>1, <2>2, <2>3 DEF WriteHeader, AgeInv
<1>13. CASE WriteCode
  <2>1. codeCache' = [codeCache EXCEPT ![Current] = [file |-> TRUE, header |-> modified, code |-> compiled]]
    BY <1>13, WrittenCode
  <2>2. /\ modified \in Nat \ {0} /\ modified <= source[Current]
        /\ modified <= compiled /\ compiled <= source[Current]
    BY <1>13 DEF WriteCode, RunInv, AtShader, Caching
  <2> QED BY <1>13, <2>1, <2>2 DEF WriteCode, AgeInv
<1>14. CASE OpenPipeline
  BY <1>14 DEF OpenPipeline, AgeInv, RunInv, WriteInv, AtShader, Caching, CodeFile
<1>15. CASE ShaderUnmodified
  BY <1>15 DEF ShaderUnmodified, AgeInv, RunInv, WriteInv, AtShader, Caching, CodeFile
<1>16. CASE ShaderModified
  BY <1>16 DEF ShaderModified, AgeInv, RunInv, WriteInv, AtShader, Caching, CodeFile
<1>17. CASE CutPipeline
  BY <1>17 DEF CutPipeline, EndRun, AgeInv, RunInv, WriteInv, AtShader, Caching, CodeFile
<1>18. CASE UsePipeline
  BY <1>18 DEF UsePipeline, NextMaterial, AgeInv, RunInv, WriteInv, AtShader, Caching, CodeFile
<1>19. CASE CreatePipeline
  BY <1>19 DEF CreatePipeline, AgeInv, RunInv, WriteInv, AtShader, Caching, CodeFile
<1>20. CASE WriteShader
  BY <1>20 DEF WriteShader, AgeInv, RunInv, WriteInv, AtShader, Caching, CodeFile
<1>21. CASE WriteEnd
  BY <1>21 DEF WriteEnd, AgeInv, RunInv, WriteInv, AtShader, Caching, CodeFile
<1>22. CASE WriteBlob
  BY <1>22 DEF WriteBlob, NextMaterial, AgeInv, RunInv, WriteInv, AtShader, Caching, CodeFile
<1>23. CASE \E s \in Shader : Edit(s)
  BY <1>23 DEF Edit, Loading, AgeInv, RunInv, WriteInv, AtShader, Caching, CodeFile
<1>24. CASE UNCHANGED vars
  BY <1>24 DEF vars, AgeInv, RunInv, WriteInv, AtShader, Caching, CodeFile
<1>25. CASE OpenCodeFails
  BY <1>25 DEF OpenCodeFails, AgeInv, RunInv, WriteInv, AtShader, Caching, CodeFile
<1>26. CASE WriteCodeShort
  BY <1>26 DEF WriteCodeShort, AgeInv
<1>27. CASE WriteBlobShort
  BY <1>27 DEF WriteBlobShort, NextMaterial, AgeInv, RunInv, WriteInv, AtShader, Caching, CodeFile
<1> QED BY <1>1, <1>2, <1>3, <1>4, <1>5, <1>6, <1>7, <1>8, <1>9, <1>10, <1>11, <1>12, <1>13,
           <1>14, <1>15, <1>16, <1>17, <1>18, <1>19, <1>20, <1>21, <1>22, <1>23, <1>24,
           <1>25, <1>26, <1>27
        DEF Next, GetOrAdd, MaterialPipeline

LEMMA WriteStep ==
  ASSUME TypeInv, RunInv, WriteInv, [Next]_vars
  PROVE  WriteInv'
<1> USE TypeFacts
<1>1. CASE Start
  BY <1>1 DEF Start, WriteInv, NewCode, NoCode, CodeFile, Current
<1>2. CASE Stop
  BY <1>2 DEF Stop, EndRun, WriteInv, NewCode, NoCode, CodeFile, Current
<1>3. CASE Crash
  BY <1>3 DEF Crash, Loading, Writing, EndRun, WriteInv, NewCode, NoCode, CodeFile, Current
<1>4. CASE Hit
  BY <1>4 DEF Hit, NextShader, WriteInv, NewCode, NoCode, CodeFile, Current
<1>5. CASE Stat
  BY <1>5 DEF Stat, WriteInv, NewCode, NoCode, CodeFile, Current
<1>6. CASE UseCode
  BY <1>6 DEF UseCode, Stored, NextShader, WriteInv, NewCode, NoCode, CodeFile, Current
<1>7. CASE MissCode
  BY <1>7 DEF MissCode, WriteInv, NewCode, NoCode, CodeFile, Current
<1>8. CASE CutCode
  BY <1>8 DEF CutCode, EndRun, WriteInv, NewCode, NoCode, CodeFile, Current
<1>9. CASE Compile
  BY <1>9 DEF Compile, WriteInv, NewCode, NoCode, CodeFile, Current
<1>10. CASE CallFails
  BY <1>10 DEF CallFails, Loading, Writing, EndRun, WriteInv, NewCode, NoCode, CodeFile, Current
<1>11. CASE CreateCode
  BY <1>11 DEF CreateCode, NewCode, NoCode, WriteInv, NewCode, NoCode, CodeFile, Current
<1>12. CASE WriteHeader
  BY <1>12 DEF WriteHeader, WriteInv, NewCode, NoCode, CodeFile, Current
<1>13. CASE WriteCode
  <2>1. codeCache' = [codeCache EXCEPT ![Current] = [file |-> TRUE, header |-> modified, code |-> compiled]]
    BY <1>13, WrittenCode
  <2>2. compiled # Unwritten
    BY <1>13 DEF WriteCode, RunInv, AtShader, Caching
  <2> QED BY <1>13, <2>1, <2>2 DEF WriteCode, Stored, NextShader, WriteInv
<1>14. CASE OpenPipeline
  BY <1>14 DEF OpenPipeline, WriteInv, NewCode, NoCode, CodeFile, Current
<1>15. CASE ShaderUnmodified
  BY <1>15 DEF ShaderUnmodified, WriteInv, NewCode, NoCode, CodeFile, Current
<1>16. CASE ShaderModified
  BY <1>16 DEF ShaderModified, WriteInv, NewCode, NoCode, CodeFile, Current
<1>17. CASE CutPipeline
  BY <1>17 DEF CutPipeline, EndRun, WriteInv, NewCode, NoCode, CodeFile, Current
<1>18. CASE UsePipeline
  BY <1>18 DEF UsePipeline, NextMaterial, WriteInv, NewCode, NoCode, CodeFile, Current
<1>19. CASE CreatePipeline
  BY <1>19 DEF CreatePipeline, WriteInv, NewCode, NoCode, CodeFile, Current
<1>20. CASE WriteShader
  BY <1>20 DEF WriteShader, WriteInv, NewCode, NoCode, CodeFile, Current
<1>21. CASE WriteEnd
  BY <1>21 DEF WriteEnd, WriteInv, NewCode, NoCode, CodeFile, Current
<1>22. CASE WriteBlob
  BY <1>22 DEF WriteBlob, NextMaterial, WriteInv, NewCode, NoCode, CodeFile, Current
<1>23. CASE \E s \in Shader : Edit(s)
  BY <1>23 DEF Edit, Loading, WriteInv, NewCode, NoCode, CodeFile, Current
<1>24. CASE UNCHANGED vars
  BY <1>24 DEF vars, WriteInv, NewCode, NoCode, CodeFile, Current
<1>25. CASE OpenCodeFails
  BY <1>25 DEF OpenCodeFails, WriteInv, NewCode, NoCode, CodeFile, Current
<1>26. CASE WriteCodeShort
  BY <1>26 DEF WriteCodeShort, Stored, NextShader, WriteInv
<1>27. CASE WriteBlobShort
  BY <1>27 DEF WriteBlobShort, NextMaterial, WriteInv, NewCode, NoCode, CodeFile, Current
<1> QED BY <1>1, <1>2, <1>3, <1>4, <1>5, <1>6, <1>7, <1>8, <1>9, <1>10, <1>11, <1>12, <1>13,
           <1>14, <1>15, <1>16, <1>17, <1>18, <1>19, <1>20, <1>21, <1>22, <1>23, <1>24,
           <1>25, <1>26, <1>27
        DEF Next, GetOrAdd, MaterialPipeline

LEMMA FreshStep ==
  ASSUME TypeInv, RunInv, AgeInv, WriteInv, FreshCode, [Next]_vars
  PROVE  FreshCode'
<1> USE TypeFacts
<1>1. CASE Start
  BY <1>1 DEF Start, FreshCode, AgeInv, RunInv, WriteInv, AtShader, Caching, CodeFile, NoCodeLoaded
<1>2. CASE Stop
  BY <1>2 DEF Stop, EndRun, FreshCode, AgeInv, RunInv, WriteInv, AtShader, Caching, CodeFile,
              NoCodeLoaded
<1>3. CASE Crash
  BY <1>3 DEF Crash, Loading, Writing, EndRun, FreshCode, AgeInv, RunInv, WriteInv, AtShader, Caching, CodeFile,
              NoCodeLoaded
<1>4. CASE Hit
  BY <1>4 DEF Hit, NextShader, FreshCode, AgeInv, RunInv, WriteInv, AtShader, Caching, CodeFile,
              NoCodeLoaded
<1>5. CASE Stat
  BY <1>5 DEF Stat, FreshCode, AgeInv, RunInv, WriteInv, AtShader, Caching, CodeFile, NoCodeLoaded
<1>6. CASE UseCode
  BY <1>6 DEF UseCode, Stored, NextShader, FreshCode, AgeInv, RunInv, WriteInv, AtShader,
              Caching, CodeFile, NoCodeLoaded
<1>7. CASE MissCode
  BY <1>7 DEF MissCode, FreshCode, AgeInv, RunInv, WriteInv, AtShader, Caching, CodeFile,
              NoCodeLoaded
<1>8. CASE CutCode
  BY <1>8 DEF CutCode, EndRun, FreshCode, AgeInv, RunInv, WriteInv, AtShader, Caching, CodeFile,
              NoCodeLoaded
<1>9. CASE Compile
  BY <1>9 DEF Compile, FreshCode, AgeInv, RunInv, WriteInv, AtShader, Caching, CodeFile,
              NoCodeLoaded
<1>10. CASE CallFails
  BY <1>10 DEF CallFails, Loading, Writing, EndRun, FreshCode, AgeInv, RunInv, WriteInv, AtShader, Caching,
               CodeFile, NoCodeLoaded
<1>11. CASE CreateCode
  BY <1>11 DEF CreateCode, NewCode, NoCode, FreshCode, AgeInv, RunInv, WriteInv, AtShader,
               Caching, CodeFile, NoCodeLoaded
<1>12. CASE WriteHeader
  BY <1>12 DEF WriteHeader, FreshCode, AgeInv, RunInv, WriteInv, AtShader, Caching, CodeFile,
               NoCodeLoaded
<1>13. CASE WriteCode
  BY <1>13 DEF WriteCode, Stored, NextShader, FreshCode, AgeInv, RunInv, WriteInv, AtShader,
               Caching, CodeFile, NoCodeLoaded
<1>14. CASE OpenPipeline
  BY <1>14 DEF OpenPipeline, FreshCode, AgeInv, RunInv, WriteInv, AtShader, Caching, CodeFile,
               NoCodeLoaded
<1>15. CASE ShaderUnmodified
  BY <1>15 DEF ShaderUnmodified, FreshCode, AgeInv, RunInv, WriteInv, AtShader, Caching,
               CodeFile, NoCodeLoaded
<1>16. CASE ShaderModified
  BY <1>16 DEF ShaderModified, FreshCode, AgeInv, RunInv, WriteInv, AtShader, Caching, CodeFile,
               NoCodeLoaded
<1>17. CASE CutPipeline
  BY <1>17 DEF CutPipeline, EndRun, FreshCode, AgeInv, RunInv, WriteInv, AtShader, Caching,
               CodeFile, NoCodeLoaded
<1>18. CASE UsePipeline
  BY <1>18 DEF UsePipeline, NextMaterial, FreshCode, AgeInv, RunInv, WriteInv, AtShader, Caching,
               CodeFile, NoCodeLoaded
<1>19. CASE CreatePipeline
  BY <1>19 DEF CreatePipeline, FreshCode, AgeInv, RunInv, WriteInv, AtShader, Caching, CodeFile,
               NoCodeLoaded
<1>20. CASE WriteShader
  BY <1>20 DEF WriteShader, FreshCode, AgeInv, RunInv, WriteInv, AtShader, Caching, CodeFile,
               NoCodeLoaded
<1>21. CASE WriteEnd
  BY <1>21 DEF WriteEnd, FreshCode, AgeInv, RunInv, WriteInv, AtShader, Caching, CodeFile,
               NoCodeLoaded
<1>22. CASE WriteBlob
  BY <1>22 DEF WriteBlob, NextMaterial, FreshCode, AgeInv, RunInv, WriteInv, AtShader, Caching,
               CodeFile, NoCodeLoaded
<1>23. CASE \E s \in Shader : Edit(s)
  BY <1>23 DEF Edit, Loading, FreshCode, AgeInv, RunInv, WriteInv, AtShader, Caching, CodeFile, NoCodeLoaded
<1>24. CASE UNCHANGED vars
  BY <1>24 DEF vars, FreshCode, AgeInv, RunInv, WriteInv, AtShader, Caching, CodeFile, NoCodeLoaded
<1>25. CASE OpenCodeFails
  BY <1>25 DEF OpenCodeFails, FreshCode, AgeInv, RunInv, WriteInv, AtShader, Caching, CodeFile,
              NoCodeLoaded
<1>26. CASE WriteCodeShort
  BY <1>26 DEF WriteCodeShort, Stored, NextShader, FreshCode, AgeInv, RunInv, WriteInv, AtShader,
               Caching, CodeFile, NoCodeLoaded
<1>27. CASE WriteBlobShort
  BY <1>27 DEF WriteBlobShort, NextMaterial, FreshCode, AgeInv, RunInv, WriteInv, AtShader, Caching,
               CodeFile, NoCodeLoaded
<1> QED BY <1>1, <1>2, <1>3, <1>4, <1>5, <1>6, <1>7, <1>8, <1>9, <1>10, <1>11, <1>12, <1>13,
           <1>14, <1>15, <1>16, <1>17, <1>18, <1>19, <1>20, <1>21, <1>22, <1>23, <1>24,
           <1>25, <1>26, <1>27
        DEF Next, GetOrAdd, MaterialPipeline

LEMMA Squeezed == \A low, high, x \in Nat : low <= x /\ x <= high /\ high = low => high = x
  OBVIOUS

LEMMA MemoryStep ==
  ASSUME TypeInv, RunInv, WriteInv, LoadedMeansCached, [Next]_vars
  PROVE  LoadedMeansCached'
<1> USE TypeFacts
<1>1. CASE Start
  BY <1>1 DEF Start, LoadedMeansCached, RunInv, WriteInv, AtShader, Caching, CodeFile,
              NoCodeLoaded, NewCode, NoCode
<1>2. CASE Stop
  BY <1>2 DEF Stop, EndRun, LoadedMeansCached, RunInv, WriteInv, AtShader, Caching, CodeFile,
              NoCodeLoaded, NewCode, NoCode
<1>3. CASE Crash
  BY <1>3 DEF Crash, Loading, Writing, EndRun, LoadedMeansCached, RunInv, WriteInv, AtShader, Caching, CodeFile,
              NoCodeLoaded, NewCode, NoCode
<1>4. CASE Hit
  BY <1>4 DEF Hit, NextShader, LoadedMeansCached, RunInv, WriteInv, AtShader, Caching, CodeFile,
              NoCodeLoaded, NewCode, NoCode
<1>5. CASE Stat
  BY <1>5 DEF Stat, LoadedMeansCached, RunInv, WriteInv, AtShader, Caching, CodeFile,
              NoCodeLoaded, NewCode, NoCode
<1>6. CASE UseCode
  <2>1. /\ CodeFile = codeCache[Current] /\ CodeFile.file /\ CodeFile.header = modified
        /\ codeCache' = codeCache
    BY <1>6 DEF UseCode, CodeFile
  <2>2. started[Current] <= modified /\ modified <= source[Current]
    BY <1>6 DEF UseCode, RunInv, AtShader
  <2>3. SUFFICES ASSUME NEW s \in DOMAIN storage', source'[s] = started'[s]
                 PROVE  /\ codeCache'[s].file /\ codeCache'[s].header = source'[s]
                        /\ codeCache'[s].code = storage'[s] \/ (codeCache'[s].code = Unwritten /\ cut')
    BY DEF LoadedMeansCached
  <2>4. /\ storage' = [x \in DOMAIN storage \union {Current} |->
                         IF x = Current THEN CodeFile.code ELSE storage[x]]
        /\ source' = source /\ started' = started /\ cut' = cut
    BY <1>6 DEF UseCode, Stored
  <2>5. CASE s = Current
    <3>0. source[s] = started[s]
      BY <2>3, <2>4
    <3>1. source[s] = modified
      <4>1. started[s] <= modified /\ modified <= source[s]
        BY <2>2, <2>5, Zenon
      <4>2. started[s] \in Nat /\ source[s] \in Nat /\ modified \in Nat
        BY <2>5
      <4> QED BY <3>0, <4>1, <4>2, Squeezed, Zenon
    <3> QED BY <2>1, <2>3, <2>4, <2>5, <3>1
  <2>6. CASE s # Current
    <3>1. codeCache'[s] = codeCache[s] /\ s \in DOMAIN storage /\ storage'[s] = storage[s]
      BY <2>1, <2>3, <2>4, <2>6
    <3> QED BY <2>3, <2>4, <3>1 DEF LoadedMeansCached
  <2> QED BY <2>5, <2>6
<1>7. CASE MissCode
  BY <1>7 DEF MissCode, LoadedMeansCached, RunInv, WriteInv, AtShader, Caching, CodeFile,
              NoCodeLoaded, NewCode, NoCode
<1>8. CASE CutCode
  BY <1>8 DEF CutCode, EndRun, LoadedMeansCached, RunInv, WriteInv, AtShader, Caching, CodeFile,
              NoCodeLoaded, NewCode, NoCode
<1>9. CASE Compile
  BY <1>9 DEF Compile, LoadedMeansCached, RunInv, WriteInv, AtShader, Caching, CodeFile,
              NoCodeLoaded, NewCode, NoCode
<1>10. CASE CallFails
  BY <1>10 DEF CallFails, Loading, Writing, EndRun, LoadedMeansCached, RunInv, WriteInv, AtShader, Caching,
               CodeFile, NoCodeLoaded, NewCode, NoCode
<1>11. CASE CreateCode
  BY <1>11 DEF CreateCode, NewCode, NoCode, LoadedMeansCached, RunInv, WriteInv, AtShader,
               Caching, CodeFile, NoCodeLoaded, NewCode, NoCode
<1>12. CASE WriteHeader
  BY <1>12 DEF WriteHeader, LoadedMeansCached, RunInv, WriteInv, AtShader, Caching, CodeFile,
               NoCodeLoaded, NewCode, NoCode
<1>13. CASE WriteCode
  <2>1. codeCache' = [codeCache EXCEPT ![Current] = [file |-> TRUE, header |-> modified, code |-> compiled]]
    BY <1>13, WrittenCode
  <2>2. started[Current] <= modified /\ modified <= source[Current]
    BY <1>13 DEF WriteCode, RunInv, AtShader
  <2>3. SUFFICES ASSUME NEW s \in DOMAIN storage', source'[s] = started'[s]
                 PROVE  /\ codeCache'[s].file /\ codeCache'[s].header = source'[s]
                        /\ codeCache'[s].code = storage'[s] \/ (codeCache'[s].code = Unwritten /\ cut')
    BY DEF LoadedMeansCached
  <2>4. /\ storage' = [x \in DOMAIN storage \union {Current} |->
                         IF x = Current THEN compiled ELSE storage[x]]
        /\ source' = source /\ started' = started /\ cut' = cut
    BY <1>13 DEF WriteCode, Stored
  <2>5. CASE s = Current
    <3>0. source[s] = started[s]
      BY <2>3, <2>4
    <3>1. source[s] = modified
      <4>1. started[s] <= modified /\ modified <= source[s]
        BY <2>2, <2>5, Zenon
      <4>2. started[s] \in Nat /\ source[s] \in Nat /\ modified \in Nat
        BY <2>5
      <4> QED BY <3>0, <4>1, <4>2, Squeezed, Zenon
    <3>2. codeCache'[s] = [file |-> TRUE, header |-> modified, code |-> compiled]
      BY <2>1, <2>5
    <3>3. codeCache'[s].file /\ codeCache'[s].header = modified /\ codeCache'[s].code = compiled
      BY <3>2
    <3> QED BY <2>3, <2>4, <2>5, <3>1, <3>3
  <2>6. CASE s # Current
    <3>1. codeCache'[s] = codeCache[s] /\ s \in DOMAIN storage /\ storage'[s] = storage[s]
      BY <2>1, <2>3, <2>4, <2>6
    <3> QED BY <2>3, <2>4, <3>1 DEF LoadedMeansCached
  <2> QED BY <2>5, <2>6
<1>14. CASE OpenPipeline
  BY <1>14 DEF OpenPipeline, LoadedMeansCached, RunInv, WriteInv, AtShader, Caching, CodeFile,
               NoCodeLoaded, NewCode, NoCode
<1>15. CASE ShaderUnmodified
  BY <1>15 DEF ShaderUnmodified, LoadedMeansCached, RunInv, WriteInv, AtShader, Caching,
               CodeFile, NoCodeLoaded, NewCode, NoCode
<1>16. CASE ShaderModified
  BY <1>16 DEF ShaderModified, LoadedMeansCached, RunInv, WriteInv, AtShader, Caching, CodeFile,
               NoCodeLoaded, NewCode, NoCode
<1>17. CASE CutPipeline
  BY <1>17 DEF CutPipeline, EndRun, LoadedMeansCached, RunInv, WriteInv, AtShader, Caching,
               CodeFile, NoCodeLoaded, NewCode, NoCode
<1>18. CASE UsePipeline
  BY <1>18 DEF UsePipeline, NextMaterial, LoadedMeansCached, RunInv, WriteInv, AtShader, Caching,
               CodeFile, NoCodeLoaded, NewCode, NoCode
<1>19. CASE CreatePipeline
  BY <1>19 DEF CreatePipeline, LoadedMeansCached, RunInv, WriteInv, AtShader, Caching, CodeFile,
               NoCodeLoaded, NewCode, NoCode
<1>20. CASE WriteShader
  BY <1>20 DEF WriteShader, LoadedMeansCached, RunInv, WriteInv, AtShader, Caching, CodeFile,
               NoCodeLoaded, NewCode, NoCode
<1>21. CASE WriteEnd
  BY <1>21 DEF WriteEnd, LoadedMeansCached, RunInv, WriteInv, AtShader, Caching, CodeFile,
               NoCodeLoaded, NewCode, NoCode
<1>22. CASE WriteBlob
  BY <1>22 DEF WriteBlob, NextMaterial, LoadedMeansCached, RunInv, WriteInv, AtShader, Caching,
               CodeFile, NoCodeLoaded, NewCode, NoCode
<1>23. CASE \E s \in Shader : Edit(s)
  BY <1>23 DEF Edit, Loading, LoadedMeansCached, RunInv, WriteInv, AtShader, Caching, CodeFile,
               NoCodeLoaded, NewCode, NoCode
<1>24. CASE UNCHANGED vars
  BY <1>24 DEF vars, LoadedMeansCached, RunInv, WriteInv, AtShader, Caching, CodeFile,
               NoCodeLoaded, NewCode, NoCode
<1>25. CASE OpenCodeFails
  BY <1>25 DEF OpenCodeFails, LoadedMeansCached, RunInv, WriteInv, AtShader, Caching, CodeFile,
              NoCodeLoaded, NewCode, NoCode
<1>26. CASE WriteCodeShort
  <2>1. /\ codeCache[Current] = [file |-> TRUE, header |-> modified, code |-> Unwritten]
        /\ codeCache' = codeCache
    BY <1>26 DEF WriteCodeShort, WriteInv, CodeFile, NewCode, NoCode
  <2>2. started[Current] <= modified /\ modified <= source[Current]
    BY <1>26 DEF WriteCodeShort, RunInv, AtShader
  <2>3. SUFFICES ASSUME NEW s \in DOMAIN storage', source'[s] = started'[s]
                 PROVE  /\ codeCache'[s].file /\ codeCache'[s].header = source'[s]
                        /\ codeCache'[s].code = storage'[s] \/ (codeCache'[s].code = Unwritten /\ cut')
    BY DEF LoadedMeansCached
  <2>4. /\ storage' = [x \in DOMAIN storage \union {Current} |->
                         IF x = Current THEN compiled ELSE storage[x]]
        /\ source' = source /\ started' = started /\ cut' = TRUE
    BY <1>26 DEF WriteCodeShort, Stored
  <2>5. CASE s = Current
    BY <2>1, <2>2, <2>3, <2>4, <2>5
  <2>6. CASE s # Current
    <3>1. codeCache'[s] = codeCache[s] /\ s \in DOMAIN storage /\ storage'[s] = storage[s]
      BY <2>1, <2>3, <2>4, <2>6
    <3> QED BY <2>3, <2>4, <3>1 DEF LoadedMeansCached
  <2> QED BY <2>5, <2>6
<1>27. CASE WriteBlobShort
  BY <1>27 DEF WriteBlobShort, NextMaterial, LoadedMeansCached, RunInv, WriteInv, AtShader, Caching,
               CodeFile, NoCodeLoaded, NewCode, NoCode
<1> QED BY <1>1, <1>2, <1>3, <1>4, <1>5, <1>6, <1>7, <1>8, <1>9, <1>10, <1>11, <1>12, <1>13,
           <1>14, <1>15, <1>16, <1>17, <1>18, <1>19, <1>20, <1>21, <1>22, <1>23, <1>24,
           <1>25, <1>26, <1>27
        DEF Next, GetOrAdd, MaterialPipeline

LEMMA CodeInit == Init => CodeInv
<1> SUFFICES ASSUME Init PROVE CodeInv
    OBVIOUS
<1>1. TypeInv
  BY TypeInit
<1>2. RunInv
  BY <1>1, TypeFacts DEF Init, RunInv, AtShader, Caching, NoCodeLoaded
<1>3. AgeInv /\ WriteInv
  BY <1>1, TypeFacts DEF Init, AgeInv, WriteInv, NoCode
<1>4. FreshCode /\ LoadedMeansCached
  BY DEF Init, FreshCode, LoadedMeansCached, NoCodeLoaded
<1> QED BY <1>1, <1>2, <1>3, <1>4 DEF CodeInv

LEMMA CodeStep == CodeInv /\ [Next]_vars => CodeInv'
  BY TypeInvStep, RunStep, AgeStep, WriteStep, FreshStep, MemoryStep DEF CodeInv

\* A code cache with the time of its source is honest: by AgeInv, its code is
\* between its header and its source.
THEOREM CodeCacheHonestCorrect == Spec => []CodeCacheHonest
<1>1. CodeInv => CodeCacheHonest
  BY TypeFacts DEF CodeInv, AgeInv, CodeCacheHonest
<1> QED BY CodeInit, CodeStep, <1>1, PTL DEF Spec

\* The code in use is as new as the start of the run, for any edits,
\* crashes, failing calls and restarts, unless a file was left half written.
THEOREM FreshCodeCorrect == Spec => []FreshCode
<1>1. CodeInv => FreshCode
  BY DEF CodeInv
<1> QED BY CodeInit, CodeStep, <1>1, PTL DEF Spec

\* What is in memory is on disk for the next start, unless a write was short.
THEOREM LoadedMeansCachedCorrect == Spec => []LoadedMeansCached
<1>1. CodeInv => LoadedMeansCached
  BY DEF CodeInv
<1> QED BY CodeInit, CodeStep, <1>1, PTL DEF Spec

(***************************************************************************)
(* Pipeline caches.                                                        *)
(***************************************************************************)
LEMMA PipelineFacts ==
  TypeInv =>
    /\ material \in DOMAIN Materials /\ material \in Nat
    /\ shader \in 1 .. Len(ShadersOf(material))
    /\ Len(ShadersOf(material)) \in Nat
    /\ pipelineCache \in [DOMAIN Materials ->
           [file : BOOLEAN, headers : Seq(Nat), ended : BOOLEAN, blob : Seq(Nat)]]
    /\ source[Current] \in Nat
    /\ cut \in BOOLEAN
<1> SUFFICES ASSUME TypeInv
             PROVE  /\ material \in DOMAIN Materials /\ material \in Nat
                    /\ shader \in 1 .. Len(ShadersOf(material))
                    /\ Len(ShadersOf(material)) \in Nat
                    /\ pipelineCache \in [DOMAIN Materials ->
                           [file : BOOLEAN, headers : Seq(Nat), ended : BOOLEAN, blob : Seq(Nat)]]
                    /\ source[Current] \in Nat
                    /\ cut \in BOOLEAN
    OBVIOUS
<1>1. PlaceTypes /\ DiskTypes /\ RunTypes
  BY DEF TypeInv, TypeOK
<1>2. material \in DOMAIN Materials /\ material \in Nat
  <2>1. material \in 1 .. Len(Materials) /\ Len(Materials) \in Nat
    BY <1>1, PlaceFacts, MaterialsFacts
  <2> QED BY <1>1, <2>1 DEF PlaceTypes
<1>3. shader \in 1 .. Len(ShadersOf(material)) /\ Len(ShadersOf(material)) \in Nat
  BY <1>1, PlaceFacts
<1>4. source[Current] \in Nat
  BY TypeFacts
<1>5. pipelineCache \in [DOMAIN Materials ->
          [file : BOOLEAN, headers : Seq(Nat), ended : BOOLEAN, blob : Seq(Nat)]]
  BY <1>1 DEF DiskTypes
<1>6. cut \in BOOLEAN
  BY <1>1 DEF RunTypes
<1> QED BY <1>2, <1>3, <1>4, <1>5, <1>6

LEMMA PipelineStep ==
  ASSUME TypeInv, RunInv, PipelineInv, [Next]_vars
  PROVE  PipelineInv'
<1> USE PipelineFacts
<1>1. CASE Start
  BY <1>1 DEF Start, PipelineInv, PipelineFile
<1>2. CASE Stop
  BY <1>2 DEF Stop, EndRun, PipelineInv, PipelineFile
<1>3. CASE Crash
  BY <1>3 DEF Crash, Loading, Writing, EndRun, PipelineInv, PipelineFile
<1>4. CASE Hit
  BY <1>4 DEF Hit, NextShader, PipelineInv, PipelineFile
<1>5. CASE Stat
  BY <1>5 DEF Stat, PipelineInv, PipelineFile
<1>6. CASE UseCode
  BY <1>6 DEF UseCode, Stored, NextShader, PipelineInv, PipelineFile
<1>7. CASE MissCode
  BY <1>7 DEF MissCode, PipelineInv, PipelineFile
<1>8. CASE CutCode
  BY <1>8 DEF CutCode, EndRun, PipelineInv, PipelineFile
<1>9. CASE Compile
  BY <1>9 DEF Compile, PipelineInv, PipelineFile
<1>10. CASE CallFails
  BY <1>10 DEF CallFails, Loading, Writing, EndRun, PipelineInv, PipelineFile
<1>11. CASE CreateCode
  BY <1>11 DEF CreateCode, NewCode, NoCode, PipelineInv, PipelineFile
<1>12. CASE WriteHeader
  BY <1>12 DEF WriteHeader, PipelineInv, PipelineFile
<1>13. CASE WriteCode
  BY <1>13 DEF WriteCode, Stored, NextShader, PipelineInv, PipelineFile
<1>14. CASE OpenPipeline
  BY <1>14 DEF OpenPipeline, PipelineInv, PipelineFile
<1>15. CASE ShaderUnmodified
  BY <1>15 DEF ShaderUnmodified, PipelineInv, PipelineFile
<1>16. CASE ShaderModified
  BY <1>16 DEF ShaderModified, PipelineInv, PipelineFile
<1>17. CASE CutPipeline
  BY <1>17 DEF CutPipeline, EndRun, PipelineInv, PipelineFile
<1>18. CASE UsePipeline
  BY <1>18 DEF UsePipeline, NextMaterial, PipelineInv, PipelineFile
<1>19. CASE CreatePipeline
  <2>1. /\ pipelineCache' = [pipelineCache EXCEPT ![material] = NewPipeline]
        /\ pc' = "writeShader" /\ shader' = 1 /\ UNCHANGED <<material, cut>>
    BY <1>19 DEF CreatePipeline, RunInv
  <2>2. NewPipeline.headers = << >> /\ ~ NewPipeline.ended
    BY DEF NewPipeline, NoPipeline
  <2>3. Len(<< >>) = 0
    OBVIOUS
  <2>4. \A m \in DOMAIN Materials \ {material} : pipelineCache'[m] = pipelineCache[m]
    BY <2>1
  <2>5. PipelineFile'.headers = << >> /\ ~ PipelineFile'.ended
    BY <2>1, <2>2 DEF PipelineFile
  <2> QED BY <1>19, <2>1, <2>3, <2>4, <2>5 DEF CreatePipeline, PipelineInv, PipelineFile
<1>20. CASE WriteShader
  <2>1. /\ pipelineCache'[material].headers = Append(PipelineFile.headers, source[Current])
        /\ pipelineCache'[material].ended = PipelineFile.ended
        /\ \A m \in DOMAIN Materials \ {material} : pipelineCache'[m] = pipelineCache[m]
        /\ UNCHANGED <<material, cut>>
    BY <1>20 DEF WriteShader, PipelineFile
  <2>2. PipelineFile.headers \in Seq(Nat)
    BY DEF PipelineFile
  <2>3. Len(PipelineFile'.headers) = Len(PipelineFile.headers) + 1
    BY <2>1, <2>2, AppendProperties DEF PipelineFile
  <2>4. Len(PipelineFile'.headers) = shader
    BY <1>20, <2>3 DEF WriteShader, PipelineInv, PipelineFile
  <2>5. CASE shader < Len(ShadersOf(material))
    BY <1>20, <2>1, <2>4, <2>5 DEF WriteShader, PipelineInv, PipelineFile
  <2>6. CASE shader = Len(ShadersOf(material))
    BY <1>20, <2>1, <2>4, <2>6 DEF WriteShader, PipelineInv, PipelineFile
  <2> QED BY <2>5, <2>6
<1>21. CASE WriteEnd
  <2>1. /\ pipelineCache'[material].headers = PipelineFile.headers
        /\ pipelineCache'[material].ended = TRUE
        /\ \A m \in DOMAIN Materials \ {material} : pipelineCache'[m] = pipelineCache[m]
        /\ UNCHANGED <<material, cut>>
    BY <1>21 DEF WriteEnd, PipelineFile
  <2> QED BY <1>21, <2>1 DEF WriteEnd, PipelineInv, PipelineFile
<1>22. CASE WriteBlob
  BY <1>22 DEF WriteBlob, NextMaterial, PipelineInv, PipelineFile
<1>23. CASE \E s \in Shader : Edit(s)
  BY <1>23 DEF Edit, Loading, PipelineInv, PipelineFile
<1>24. CASE UNCHANGED vars
  BY <1>24 DEF vars, PipelineInv, PipelineFile
<1>25. CASE OpenCodeFails
  BY <1>25 DEF OpenCodeFails, PipelineInv, PipelineFile
<1>26. CASE WriteCodeShort
  BY <1>26 DEF WriteCodeShort, Stored, NextShader, PipelineInv, PipelineFile
<1>27. CASE WriteBlobShort
  BY <1>27 DEF WriteBlobShort, NextMaterial, PipelineInv, PipelineFile
<1> QED BY <1>1, <1>2, <1>3, <1>4, <1>5, <1>6, <1>7, <1>8, <1>9, <1>10, <1>11, <1>12, <1>13,
           <1>14, <1>15, <1>16, <1>17, <1>18, <1>19, <1>20, <1>21, <1>22, <1>23, <1>24,
           <1>25, <1>26, <1>27
        DEF Next, GetOrAdd, MaterialPipeline

LEMMA CheckStep ==
  ASSUME TypeInv, CheckInv, [Next]_vars
  PROVE  CheckInv'
<1> USE PipelineFacts
<1>1. CASE Start
  BY <1>1 DEF Start, CheckInv, PipelineFile
<1>2. CASE Stop
  BY <1>2 DEF Stop, EndRun, CheckInv, PipelineFile
<1>3. CASE Crash
  BY <1>3 DEF Crash, Loading, Writing, EndRun, CheckInv, PipelineFile
<1>4. CASE Hit
  BY <1>4 DEF Hit, NextShader, CheckInv, PipelineFile
<1>5. CASE Stat
  BY <1>5 DEF Stat, CheckInv, PipelineFile
<1>6. CASE UseCode
  BY <1>6 DEF UseCode, Stored, NextShader, CheckInv, PipelineFile
<1>7. CASE MissCode
  BY <1>7 DEF MissCode, CheckInv, PipelineFile
<1>8. CASE CutCode
  BY <1>8 DEF CutCode, EndRun, CheckInv, PipelineFile
<1>9. CASE Compile
  BY <1>9 DEF Compile, CheckInv, PipelineFile
<1>10. CASE CallFails
  BY <1>10 DEF CallFails, Loading, Writing, EndRun, CheckInv, PipelineFile
<1>11. CASE CreateCode
  BY <1>11 DEF CreateCode, NewCode, NoCode, CheckInv, PipelineFile
<1>12. CASE WriteHeader
  BY <1>12 DEF WriteHeader, CheckInv, PipelineFile
<1>13. CASE WriteCode
  BY <1>13 DEF WriteCode, Stored, NextShader, CheckInv, PipelineFile
<1>14. CASE OpenPipeline
  BY <1>14 DEF OpenPipeline, CheckInv, PipelineFile
<1>15. CASE ShaderUnmodified
  BY <1>15 DEF ShaderUnmodified, CheckInv, PipelineFile
<1>16. CASE ShaderModified
  BY <1>16 DEF ShaderModified, CheckInv, PipelineFile
<1>17. CASE CutPipeline
  BY <1>17 DEF CutPipeline, EndRun, CheckInv, PipelineFile
<1>18. CASE UsePipeline
  BY <1>18 DEF UsePipeline, NextMaterial, CheckInv, PipelineFile
<1>19. CASE CreatePipeline
  BY <1>19 DEF CreatePipeline, NewPipeline, NoPipeline, CheckInv, PipelineFile
<1>20. CASE WriteShader
  BY <1>20 DEF WriteShader, CheckInv, PipelineFile
<1>21. CASE WriteEnd
  BY <1>21 DEF WriteEnd, CheckInv, PipelineFile
<1>22. CASE WriteBlob
  BY <1>22 DEF WriteBlob, NextMaterial, CheckInv, PipelineFile
<1>23. CASE \E s \in Shader : Edit(s)
  BY <1>23 DEF Edit, Loading, CheckInv, PipelineFile
<1>24. CASE UNCHANGED vars
  BY <1>24 DEF vars, CheckInv, PipelineFile
<1>25. CASE OpenCodeFails
  BY <1>25 DEF OpenCodeFails, CheckInv, PipelineFile
<1>26. CASE WriteCodeShort
  BY <1>26 DEF WriteCodeShort, Stored, NextShader, CheckInv, PipelineFile
<1>27. CASE WriteBlobShort
  BY <1>27 DEF WriteBlobShort, NextMaterial, CheckInv, PipelineFile
<1> QED BY <1>1, <1>2, <1>3, <1>4, <1>5, <1>6, <1>7, <1>8, <1>9, <1>10, <1>11, <1>12, <1>13,
           <1>14, <1>15, <1>16, <1>17, <1>18, <1>19, <1>20, <1>21, <1>22, <1>23, <1>24,
           <1>25, <1>26, <1>27
        DEF Next, GetOrAdd, MaterialPipeline

LEMMA StartsStep ==
  ASSUME CodeInv, PipelineInv, CheckInv, StartsUnlessCut, [Next]_vars
  PROVE  StartsUnlessCut'
<1> USE PipelineFacts
<1>1. CASE Start
  BY <1>1 DEF Start, StartsUnlessCut, CodeInv
<1>2. CASE Stop
  BY <1>2 DEF Stop, EndRun, StartsUnlessCut, CodeInv
<1>3. CASE Crash
  BY <1>3 DEF Crash, Loading, Writing, EndRun, StartsUnlessCut, CodeInv
<1>4. CASE Hit
  BY <1>4 DEF Hit, NextShader, StartsUnlessCut, CodeInv
<1>5. CASE Stat
  BY <1>5 DEF Stat, StartsUnlessCut, CodeInv
<1>6. CASE UseCode
  BY <1>6 DEF UseCode, Stored, NextShader, StartsUnlessCut, CodeInv
<1>7. CASE MissCode
  BY <1>7 DEF MissCode, StartsUnlessCut, CodeInv
<1>8. CASE CutCode
  <2>1. CodeFile.code = Unwritten
    BY <1>8, TypeFacts DEF CutCode, CodeInv, AgeInv, CodeFile
  <2> QED BY <1>8, <2>1, TypeFacts DEF CutCode, EndRun, StartsUnlessCut, CodeInv, WriteInv, CodeFile
<1>9. CASE Compile
  BY <1>9 DEF Compile, StartsUnlessCut, CodeInv
<1>10. CASE CallFails
  BY <1>10 DEF CallFails, Loading, Writing, EndRun, StartsUnlessCut, CodeInv
<1>11. CASE CreateCode
  BY <1>11 DEF CreateCode, NewCode, NoCode, StartsUnlessCut, CodeInv
<1>12. CASE WriteHeader
  BY <1>12 DEF WriteHeader, StartsUnlessCut, CodeInv
<1>13. CASE WriteCode
  BY <1>13 DEF WriteCode, Stored, NextShader, StartsUnlessCut, CodeInv
<1>14. CASE OpenPipeline
  BY <1>14 DEF OpenPipeline, StartsUnlessCut, CodeInv
<1>15. CASE ShaderUnmodified
  BY <1>15 DEF ShaderUnmodified, StartsUnlessCut, CodeInv
<1>16. CASE ShaderModified
  BY <1>16 DEF ShaderModified, StartsUnlessCut, CodeInv
<1>17. CASE CutPipeline
  <2>1. PipelineFile.file /\ pc \in {"checkShader", "readBlob"}
    BY <1>17 DEF CutPipeline, CheckInv
  <2>2. cut \/ (PipelineFile.ended /\ Len(PipelineFile.headers) = Len(ShadersOf(material)))
    BY <2>1 DEF PipelineInv, PipelineFile, CodeInv
  <2>3. cut
    <3>1. shader \in 1 .. Len(ShadersOf(material)) /\ Len(ShadersOf(material)) \in Nat
      BY DEF CodeInv
    <3>2. shader > Len(PipelineFile.headers) \/ ~ PipelineFile.ended
      BY <1>17 DEF CutPipeline
    <3> QED BY <2>2, <3>1, <3>2
  <2> QED BY <1>17, <2>3 DEF CutPipeline, EndRun, StartsUnlessCut
<1>18. CASE UsePipeline
  BY <1>18 DEF UsePipeline, NextMaterial, StartsUnlessCut, CodeInv
<1>19. CASE CreatePipeline
  BY <1>19 DEF CreatePipeline, NewPipeline, NoPipeline, StartsUnlessCut, CodeInv
<1>20. CASE WriteShader
  BY <1>20 DEF WriteShader, StartsUnlessCut, CodeInv
<1>21. CASE WriteEnd
  BY <1>21 DEF WriteEnd, StartsUnlessCut, CodeInv
<1>22. CASE WriteBlob
  BY <1>22 DEF WriteBlob, NextMaterial, StartsUnlessCut, CodeInv
<1>23. CASE \E s \in Shader : Edit(s)
  <2>1. failure' = failure /\ cut' = cut
    BY <1>23 DEF Edit
  <2> QED BY <2>1, Zenon DEF StartsUnlessCut
<1>24. CASE UNCHANGED vars
  BY <1>24 DEF vars, StartsUnlessCut, CodeInv
<1>25. CASE OpenCodeFails
  BY <1>25 DEF OpenCodeFails, StartsUnlessCut, CodeInv
<1>26. CASE WriteCodeShort
  BY <1>26 DEF WriteCodeShort, Stored, NextShader, StartsUnlessCut, CodeInv
<1>27. CASE WriteBlobShort
  BY <1>27 DEF WriteBlobShort, NextMaterial, StartsUnlessCut, CodeInv
<1> QED BY <1>1, <1>2, <1>3, <1>4, <1>5, <1>6, <1>7, <1>8, <1>9, <1>10, <1>11, <1>12, <1>13,
           <1>14, <1>15, <1>16, <1>17, <1>18, <1>19, <1>20, <1>21, <1>22, <1>23, <1>24,
           <1>25, <1>26, <1>27
        DEF Next, GetOrAdd, MaterialPipeline

LEMMA InvInit == Init => IInv
<1> SUFFICES ASSUME Init PROVE IInv
    OBVIOUS
<1>1. PipelineInv /\ CheckInv /\ StartsUnlessCut
  BY PipelineFacts, TypeInit DEF Init, PipelineInv, CheckInv, StartsUnlessCut, NoPipeline
<1> QED BY <1>1, CodeInit DEF IInv

LEMMA InvStep == IInv /\ [Next]_vars => IInv'
  BY CodeStep, PipelineStep, CheckStep, StartsStep DEF IInv, CodeInv

\* Only a file left half written, by a crash, a failing call or a short write,
\* keeps the engine from starting.
THEOREM StartsUnlessCutCorrect == Spec => []StartsUnlessCut
<1>1. IInv => StartsUnlessCut
  BY DEF IInv
<1> QED BY InvInit, InvStep, <1>1, PTL DEF Spec

LEMMA HonestStep ==
  ASSUME ~ edited', IInv, IInv', HonestInv, [Next]_vars
  PROVE  HonestInv'
<1> USE PipelineFacts DEF IInv, CodeInv
<1>1. CASE Start
  BY <1>1 DEF Start, HonestInv, Matches
<1>2. CASE Stop
  BY <1>2 DEF Stop, EndRun, HonestInv, Matches
<1>3. CASE Crash
  BY <1>3 DEF Crash, Loading, Writing, EndRun, HonestInv, Matches
<1>4. CASE Hit
  BY <1>4 DEF Hit, NextShader, HonestInv, Matches
<1>5. CASE Stat
  BY <1>5 DEF Stat, HonestInv, Matches
<1>6. CASE UseCode
  BY <1>6 DEF UseCode, Stored, NextShader, HonestInv, Matches
<1>7. CASE MissCode
  BY <1>7 DEF MissCode, HonestInv, Matches
<1>8. CASE CutCode
  BY <1>8 DEF CutCode, EndRun, HonestInv, Matches
<1>9. CASE Compile
  BY <1>9 DEF Compile, HonestInv, Matches
<1>10. CASE CallFails
  BY <1>10 DEF CallFails, Loading, Writing, EndRun, HonestInv, Matches
<1>11. CASE CreateCode
  BY <1>11 DEF CreateCode, HonestInv, Matches
<1>12. CASE WriteHeader
  BY <1>12 DEF WriteHeader, HonestInv, Matches
<1>13. CASE WriteCode
  BY <1>13 DEF WriteCode, Stored, NextShader, HonestInv, Matches
<1>14. CASE OpenPipeline
  BY <1>14 DEF OpenPipeline, HonestInv, Matches
<1>15. CASE ShaderUnmodified
  BY <1>15 DEF ShaderUnmodified, HonestInv, Matches
<1>16. CASE ShaderModified
  BY <1>16 DEF ShaderModified, HonestInv, Matches
<1>17. CASE CutPipeline
  BY <1>17 DEF CutPipeline, EndRun, HonestInv, Matches
<1>18. CASE UsePipeline
  BY <1>18 DEF UsePipeline, NextMaterial, HonestInv, Matches
<1>19. CASE CreatePipeline
  <2>1. /\ pipelineCache' = [pipelineCache EXCEPT ![material] = NewPipeline]
        /\ UNCHANGED <<material, source, started>> /\ pc \notin {"off", "up"}
    BY <1>19 DEF CreatePipeline
  <2>2. NewPipeline.headers = << >> /\ NewPipeline.blob = NoBlob
    BY DEF NewPipeline, NoPipeline
  <2>3. PipelineFile'.headers = << >> /\ PipelineFile'.blob = NoBlob
    BY <2>1, <2>2 DEF PipelineFile
  <2>4. \A m \in DOMAIN Materials : pipelineCache'[m].blob # NoBlob => pipelineCache'[m] = pipelineCache[m]
    BY <2>1, <2>2
  <2>5. 1 .. Len(<< >>) = {}
    OBVIOUS
  <2> QED BY <2>1, <2>3, <2>4, <2>5 DEF HonestInv, Matches
<1>20. CASE WriteShader
  <2>1. /\ pipelineCache'[material].headers = Append(PipelineFile.headers, source[Current])
        /\ pipelineCache'[material].blob = NoBlob
        /\ \A m \in DOMAIN Materials \ {material} : pipelineCache'[m] = pipelineCache[m]
        /\ UNCHANGED <<material, source, started>> /\ pc \notin {"off", "up"}
    BY <1>20 DEF WriteShader, PipelineFile, HonestInv
  <2>2. PipelineFile.headers \in Seq(Nat) /\ Len(PipelineFile.headers) = shader - 1
    BY <1>20 DEF PipelineFile, PipelineInv, WriteShader
  <2>3. \A i \in 1 .. Len(PipelineFile'.headers) : PipelineFile'.headers[i] = source[ShadersOf(material)[i]]
    <3> SUFFICES ASSUME NEW i \in 1 .. Len(PipelineFile'.headers)
                 PROVE  PipelineFile'.headers[i] = source[ShadersOf(material)[i]]
        OBVIOUS
    <3>1. i \in 1 .. shader /\ PipelineFile'.headers = Append(PipelineFile.headers, source[Current])
      BY <2>1, <2>2, AppendProperties DEF PipelineFile
    <3>2. CASE i = shader
      BY <2>2, <3>1, <3>2, AppendProperties DEF Current
    <3>3. CASE i # shader
      <4>1. i \in 1 .. Len(PipelineFile.headers) /\ PipelineFile'.headers[i] = PipelineFile.headers[i]
        BY <2>2, <3>1, <3>3, AppendProperties
      <4> QED BY <1>20, <4>1 DEF WriteShader, HonestInv
    <3> QED BY <3>2, <3>3
  <2>4. PipelineFile'.blob = NoBlob
    BY <2>1 DEF PipelineFile
  <2> QED BY <2>1, <2>3, <2>4 DEF HonestInv, Matches
<1>21. CASE WriteEnd
  <2>1. /\ pipelineCache'[material].headers = PipelineFile.headers
        /\ pipelineCache'[material].blob = NoBlob
        /\ \A m \in DOMAIN Materials \ {material} : pipelineCache'[m] = pipelineCache[m]
        /\ UNCHANGED <<material, source, started>> /\ pc \notin {"off", "up"}
    BY <1>21 DEF WriteEnd, PipelineFile, HonestInv
  <2>2. PipelineFile'.headers = PipelineFile.headers /\ PipelineFile'.blob = NoBlob
    BY <2>1 DEF PipelineFile
  <2> QED BY <1>21, <2>1, <2>2 DEF WriteEnd, HonestInv, Matches
<1>22. CASE WriteBlob
  <2>1. /\ pipelineCache'[material].headers = PipelineFile.headers
        /\ pipelineCache'[material].blob = BlobOf(material)
        /\ \A m \in DOMAIN Materials \ {material} : pipelineCache'[m] = pipelineCache[m]
        /\ UNCHANGED <<source, started>> /\ pc = "writeBlob" /\ started = source
        /\ pc' \in {"getOrAdd", "up"}
    BY <1>22 DEF WriteBlob, NextMaterial, PipelineFile, HonestInv
  <2>2. Len(PipelineFile.headers) = Len(ShadersOf(material))
    BY <2>1 DEF PipelineInv
  <2>3. \A i \in DOMAIN ShadersOf(material) :
          /\ PipelineFile.headers[i] = source[ShadersOf(material)[i]]
          /\ BlobOf(material)[i] \in {source[ShadersOf(material)[i]], Unwritten}
    <3> SUFFICES ASSUME NEW i \in DOMAIN ShadersOf(material)
                 PROVE  /\ PipelineFile.headers[i] = source[ShadersOf(material)[i]]
                        /\ BlobOf(material)[i] \in {source[ShadersOf(material)[i]], Unwritten}
        OBVIOUS
    <3>1. i \in 1 .. Len(PipelineFile.headers)
      BY <2>2, PlaceFacts DEF TypeInv, TypeOK
    <3>2. PipelineFile.headers[i] = source[ShadersOf(material)[i]]
      BY <2>1, <3>1 DEF HonestInv
    <3>3. ShadersOf(material)[i] \in DOMAIN storage
      BY <2>1 DEF TypeInv, LoadedInv, AtPipeline
    <3>4. storage[ShadersOf(material)[i]] \in {source[ShadersOf(material)[i]], Unwritten}
      BY <2>1, <3>3, TypeFacts DEF FreshCode
    <3> QED BY <3>2, <3>4 DEF BlobOf
  <2>4. \A i \in DOMAIN ShadersOf(material) :
          /\ pipelineCache'[material].headers[i] \in 1 .. source'[ShadersOf(material)[i]]
          /\ pipelineCache'[material].blob[i] \in {pipelineCache'[material].headers[i], Unwritten}
    <3>1. \A i \in DOMAIN ShadersOf(material) : source[ShadersOf(material)[i]] \in Nat \ {0}
      BY TypeFacts, MaterialsFacts
    <3> QED BY <2>1, <2>3, <3>1
  <2>5. \A m \in DOMAIN Materials \ {material} :
          pipelineCache'[m].blob # NoBlob => Matches(pipelineCache[m], m)
    BY <2>1 DEF HonestInv
  <2> QED BY <2>1, <2>4, <2>5 DEF HonestInv, Matches
<1>23. CASE \E s \in Shader : Edit(s)
  <2>1. PICK s \in Shader : Edit(s)
    BY <1>23
  <2>a. edited' = (edited \/ pc \notin {"off", "up"})
    BY <2>1 DEF Edit, Loading
  <2>b. pc \in {"off", "up"}
    BY <2>a, Zenon
  <2>2. /\ UNCHANGED <<pipelineCache, started, pc>> /\ pc \in {"off", "up"}
        /\ \A x \in Shader : source[x] \in Nat /\ source'[x] \in Nat /\ source[x] <= source'[x]
    <3>1. /\ source' = [source EXCEPT ![s] = @ + 1]
          /\ UNCHANGED pipelineCache /\ UNCHANGED started /\ UNCHANGED pc
      BY <2>1, Zenon DEF Edit, Loading
    <3>2. pipelineCache' = pipelineCache /\ started' = started /\ pc' = pc
      BY <3>1
    <3>3. \A x \in Shader : source[x] \in Nat /\ source'[x] \in Nat /\ source[x] <= source'[x]
      BY <3>1, TypeFacts
    <3> QED BY <2>b, <3>2, <3>3
  <2>3. ASSUME NEW m \in DOMAIN Materials, pipelineCache[m].blob # NoBlob,
               NEW i \in DOMAIN ShadersOf(m)
        PROVE  /\ pipelineCache[m].headers[i] \in 1 .. source'[ShadersOf(m)[i]]
               /\ pipelineCache[m].blob[i] \in {pipelineCache[m].headers[i], Unwritten}
    <3>1. /\ pipelineCache[m].headers[i] \in 1 .. source[ShadersOf(m)[i]]
          /\ pipelineCache[m].blob[i] \in {pipelineCache[m].headers[i], Unwritten}
      BY <2>3 DEF HonestInv, Matches
    <3>2. ShadersOf(m)[i] \in Shader
      BY MaterialsFacts
    <3> QED BY <2>2, <3>1, <3>2
  <2> QED BY <2>2, <2>3 DEF HonestInv, Matches
<1>24. CASE UNCHANGED vars
  BY <1>24 DEF vars, HonestInv, Matches, PipelineFile
<1>25. CASE OpenCodeFails
  BY <1>25 DEF OpenCodeFails, HonestInv, Matches
<1>26. CASE WriteCodeShort
  BY <1>26 DEF WriteCodeShort, Stored, NextShader, HonestInv, Matches
<1>27. CASE WriteBlobShort
  BY <1>27 DEF WriteBlobShort, NextMaterial, HonestInv, Matches
<1> QED BY <1>1, <1>2, <1>3, <1>4, <1>5, <1>6, <1>7, <1>8, <1>9, <1>10, <1>11, <1>12, <1>13,
           <1>14, <1>15, <1>16, <1>17, <1>18, <1>19, <1>20, <1>21, <1>22, <1>23, <1>24,
           <1>25, <1>26, <1>27
        DEF Next, GetOrAdd, MaterialPipeline

\* A pipeline cache that would be accepted is made of the sources as they are,
\* if none was ever edited while the engine was loading.
THEOREM PipelineCacheHonestCorrect == Spec => []PipelineCacheHonest
<1>1. Init => (~ edited => HonestInv)
  BY DEF Init, HonestInv, NoPipeline
<1>2. IInv /\ [Next]_vars => (edited => edited')
  <2> SUFFICES ASSUME IInv, [Next]_vars PROVE edited => edited'
    OBVIOUS
  <2>1. edited \in BOOLEAN /\ edited' \in BOOLEAN
    BY InvStep DEF IInv, CodeInv, TypeInv, TypeOK, RunTypes
  <2> QED BY <2>1 DEF Next, vars, GetOrAdd, MaterialPipeline, Start, Stop, Crash, CallFails, EndRun,
          Loading, Hit, Stat, UseCode, Stored, MissCode, CutCode, OpenCodeFails, Compile, CreateCode,
          WriteHeader, WriteCode, WriteCodeShort, OpenPipeline, ShaderUnmodified, ShaderModified, CutPipeline, UsePipeline,
          CreatePipeline, WriteShader, WriteEnd, WriteBlob,
          WriteBlobShort, Edit
<1>3. IInv /\ IInv' /\ (~ edited => HonestInv) /\ [Next]_vars => (~ edited => HonestInv)'
  BY HonestStep, <1>2
<1>4. (~ edited => HonestInv) => PipelineCacheHonest
  BY DEF HonestInv, Matches, PipelineCacheHonest
<1> QED BY InvInit, InvStep, <1>1, <1>3, <1>4, PTL DEF Spec
=============================================================================
