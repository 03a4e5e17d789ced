--------------------------- MODULE MCModuleLoader ---------------------------
(* The modules of the engine with the dependencies they name, in every     *)
(* order and selection a modules.zig could list: the two orders it does    *)
(* list are among them.                                                    *)
EXTENDS ModuleLoader, FiniteSets

EngineModules == {"core", "graphics", "editor", "game"}

EngineDependencies ==
  [m \in EngineModules |->
     CASE m = "core" -> {}
       [] m = "graphics" -> {"core"}
       [] m \in {"editor", "game"} -> {"core", "graphics"}]

AllOrders ==
  {o \in UNION {[1 .. n -> EngineModules] : n \in 0 .. Cardinality(EngineModules)} :
     \A j, k \in DOMAIN o : o[j] = o[k] => j = k}

(* editOrder and releaseOrder are among the orders that get to run.        *)
ASSUME OrdersOfTheCode ==
  \A o \in {<<"core", "graphics", "editor", "game">>, <<"core", "graphics", "game">>} :
    o \in AllOrders /\ Topological(o)
=============================================================================
