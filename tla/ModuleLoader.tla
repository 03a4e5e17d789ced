---------------------------- MODULE ModuleLoader ----------------------------
(***************************************************************************)
(* The modules of the engine, initialised in the order modules.zig names   *)
(* and taken down in reverse, in two passes: preDeinit of all, then deinit *)
(* of all.  Graphics.preDeinit waits for the frames in flight; every       *)
(* deinit destroys things such frames may use.  An error anywhere ends the *)
(* program where it stands, for main does nothing but pass it on.          *)
(***************************************************************************)
EXTENDS Integers, Sequences

CONSTANTS
  Module,
  Orders,        \* the load orders of the builds
  Dependencies,  \* the modules a module names
  Graphics,      \* the module whose preDeinit waits for the GPU
  Failures       \* "init", "preDeinit", "deinit" may return an error

ASSUME LoaderAssumption ==
  /\ Orders \subseteq Seq(Module)
  /\ Dependencies \in [Module -> SUBSET Module]
  /\ Failures \subseteq {"init", "preDeinit", "deinit"}

(* No build lists a module twice: loadModules would only complain.         *)
ASSUME DistinctAssumption ==
  \A o \in Orders : \A i, j \in DOMAIN o : o[i] = o[j] => i = j

VARIABLES
  order,    \* Modules.loadOrder
  pc,       \* "loading", "running", "preparing", "unloading", "done", or an error
  i,        \* position in the order
  modules,  \* names of the modules loaded
  up,       \* modules initialised and not taken down
  destroyed,  \* modules whose deinit has run
  gpuBusy   \* a frame is in flight

vars == <<order, pc, i, modules, up, destroyed, gpuBusy>>

Init ==
  /\ order \in Orders
  /\ pc = "loading" /\ i = 1
  /\ modules = {} /\ up = {} /\ destroyed = {} /\ gpuBusy = FALSE

isModuleLoaded(m) == m \in modules

(***************************************************************************)
(* loadModules                                                             *)
(***************************************************************************)
\* Fault: a dependency need only be listed, not loaded.
DependenciesLoaded_Listed(m) ==
  \A d \in Dependencies[m] : \E j \in DOMAIN order : order[j] = d

DependenciesLoaded(m) == \A d \in Dependencies[m] : isModuleLoaded(d)

LoadModule ==
  /\ pc = "loading" /\ i \in DOMAIN order
  /\ DependenciesLoaded(order[i])
  /\ modules' = modules \cup {order[i]}
  /\ up' = up \cup {order[i]}
  /\ i' = i + 1
  /\ UNCHANGED <<order, pc, destroyed, gpuBusy>>

DependencyNotLoaded ==
  /\ pc = "loading" /\ i \in DOMAIN order
  /\ ~DependenciesLoaded(order[i])
  /\ pc' = "DependencyNotLoaded"
  /\ UNCHANGED <<order, i, modules, up, destroyed, gpuBusy>>

InitFails ==
  /\ pc = "loading" /\ i \in DOMAIN order /\ "init" \in Failures
  /\ DependenciesLoaded(order[i])
  /\ pc' = "failed"
  /\ UNCHANGED <<order, i, modules, up, destroyed, gpuBusy>>

AllLoaded ==
  /\ pc = "loading" /\ i = Len(order) + 1
  /\ pc' = "running"
  /\ UNCHANGED <<order, i, modules, up, destroyed, gpuBusy>>

(***************************************************************************)
(* run: frames are submitted by the graphics module, the GPU finishes them *)
(* in its time, also after the loop was left.                              *)
(***************************************************************************)
Progress ==
  /\ pc = "running" /\ Graphics \in up
  /\ gpuBusy' = TRUE
  /\ UNCHANGED <<order, pc, i, modules, up, destroyed>>

Quit ==
  /\ pc = "running"
  /\ pc' = "preparing" /\ i' = Len(order)
  /\ UNCHANGED <<order, modules, up, destroyed, gpuBusy>>

GpuFinishes ==
  /\ gpuBusy /\ gpuBusy' = FALSE
  /\ UNCHANGED <<order, pc, i, modules, up, destroyed>>

(***************************************************************************)
(* unloadModules                                                           *)
(***************************************************************************)
\* Fault: each module is taken down as soon as it is prepared.
PreDeinit_AndDeinit ==
  /\ pc = "preparing" /\ i > 0
  /\ order[i] = Graphics => ~gpuBusy
  /\ up' = up \ {order[i]} /\ destroyed' = destroyed \cup {order[i]}
  /\ i' = i - 1
  /\ UNCHANGED <<order, pc, modules, gpuBusy>>

PreDeinit ==
  /\ pc = "preparing" /\ i > 0
  /\ order[i] = Graphics => ~gpuBusy
  /\ i' = i - 1
  /\ UNCHANGED <<order, pc, modules, up, destroyed, gpuBusy>>

AllPrepared ==
  /\ pc = "preparing" /\ i = 0
  /\ pc' = "unloading" /\ i' = Len(order)
  /\ UNCHANGED <<order, modules, up, destroyed, gpuBusy>>

\* Fault: the modules are taken down in the order they came up.
Deinit_Forwards ==
  LET j == Len(order) + 1 - i IN
  /\ pc = "unloading" /\ i > 0
  /\ up' = up \ {order[j]} /\ destroyed' = destroyed \cup {order[j]}
  /\ i' = i - 1
  /\ UNCHANGED <<order, pc, modules, gpuBusy>>

Deinit ==
  /\ pc = "unloading" /\ i > 0
  /\ up' = up \ {order[i]} /\ destroyed' = destroyed \cup {order[i]}
  /\ i' = i - 1
  /\ UNCHANGED <<order, pc, modules, gpuBusy>>

UnloadFails ==
  /\ \/ pc = "preparing" /\ "preDeinit" \in Failures
     \/ pc = "unloading" /\ "deinit" \in Failures
  /\ i > 0
  /\ pc' = "failed"
  /\ UNCHANGED <<order, i, modules, up, destroyed, gpuBusy>>

\* Fault: the loop counts once too often.
AllUnloaded_OnceMore ==
  /\ pc = "unloading" /\ i = 0
  /\ pc' = "done" /\ modules' = {} /\ i' = i - 1
  /\ UNCHANGED <<order, up, destroyed, gpuBusy>>

AllUnloaded ==
  /\ pc = "unloading" /\ i = 0
  /\ pc' = "done" /\ modules' = {}
  /\ UNCHANGED <<order, i, up, destroyed, gpuBusy>>

Ended ==
  /\ pc \in {"done", "failed", "DependencyNotLoaded"}
  /\ UNCHANGED vars

Engine ==
  \/ LoadModule \/ DependencyNotLoaded \/ InitFails \/ AllLoaded
  \/ Progress \/ Quit
  \/ PreDeinit \/ AllPrepared \/ Deinit \/ UnloadFails \/ AllUnloaded

Next == Engine \/ GpuFinishes \/ Ended

Spec == Init /\ [][Next]_vars

(***************************************************************************)
(* Properties.                                                             *)
(***************************************************************************)
TypeOK ==
  /\ order \in Orders
  /\ pc \in {"loading", "DependencyNotLoaded", "running", "preparing",
             "unloading", "done", "failed"}
  /\ i \in 0 .. Len(order) + 1
  /\ modules \subseteq Module /\ up \subseteq Module
  /\ destroyed \subseteq Module /\ gpuBusy \in BOOLEAN

(* loadModules, unloadModules: a module is up only while all that it       *)
(* depends on is up, on the way up and on the way down, whatever fails.    *)
DependenciesUp == \A m \in up : Dependencies[m] \subseteq up

(* unloadModules: nothing a frame may use is destroyed before the last     *)
(* frame has finished, although most modules never wait for the GPU.       *)
IdleWhenDestroyed == destroyed # {} => ~gpuBusy

(* Every module of the order comes after those it depends on.              *)
Topological(o) ==
  \A k \in DOMAIN o : \A d \in Dependencies[o[k]] :
    \E j \in DOMAIN o : j < k /\ o[j] = d

(* isModuleLoaded: an order is refused only when it is wrong, and a wrong  *)
(* order never gets as far as the first frame.                             *)
OrderJudgedRightly ==
  /\ pc = "DependencyNotLoaded" => ~Topological(order)
  /\ pc \in {"running", "preparing", "unloading", "done"} => Topological(order)
=============================================================================
