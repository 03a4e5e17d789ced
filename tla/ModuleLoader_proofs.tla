------------------------ MODULE ModuleLoader_proofs ------------------------
(***************************************************************************)
(* The loader is right for every set of modules, every dependency relation *)
(* and every load order without repetitions.  The argument: while loading, *)
(* what is up is the part of the order before i, and that part is closed   *)
(* under dependencies; while unloading, it is the part up to i.            *)
(***************************************************************************)
EXTENDS ModuleLoader, TLAPS

Before(o, n) == {o[j] : j \in {k \in DOMAIN o : k < n}}

TopologicalTo(o, n) ==
  \A k \in DOMAIN o : k < n => Dependencies[o[k]] \subseteq Before(o, k)

UpInv ==
  /\ pc = "loading" => /\ i >= 1 /\ modules = Before(order, i)
                       /\ up = Before(order, i) /\ TopologicalTo(order, i)
  /\ pc \in {"running", "preparing"} => up = Before(order, Len(order) + 1)
  /\ pc \in {"preparing", "unloading"} => i <= Len(order)
  /\ pc = "unloading" => up = Before(order, i + 1)
  /\ pc = "done" => up = {}

BusyInv ==
  /\ pc \in {"loading", "DependencyNotLoaded", "unloading", "done"} => ~gpuBusy
  /\ pc = "running" /\ gpuBusy => Graphics \in up
  /\ pc = "preparing" /\ gpuBusy => Graphics \in Before(order, i + 1)
  /\ pc \in {"loading", "running", "preparing"} => destroyed = {}

IInv ==
  /\ TypeOK /\ UpInv /\ BusyInv
  /\ DependenciesUp /\ IdleWhenDestroyed /\ OrderJudgedRightly

-----------------------------------------------------------------------------
(* An order is a finite sequence of modules without repetitions.           *)
LEMMA OrderFacts ==
  ASSUME TypeOK
  PROVE  /\ order \in Seq(Module) /\ Len(order) \in Nat
         /\ DOMAIN order = 1 .. Len(order)
         /\ i \in Int
         /\ \A k \in DOMAIN order : order[k] \in Module
         /\ \A j, k \in DOMAIN order : order[j] = order[k] => j = k
<1>1. order \in Seq(Module)
  BY LoaderAssumption DEF TypeOK
<1>2. \A j, k \in DOMAIN order : order[j] = order[k] => j = k
  BY DistinctAssumption DEF TypeOK
<1>3. i \in Int
  BY <1>1 DEF TypeOK
<1> QED
  BY <1>1, <1>2, <1>3

(* One more position adds the module at that position.                     *)
LEMMA BeforeNext ==
  ASSUME TypeOK, NEW n \in DOMAIN order
  PROVE  Before(order, n + 1) = Before(order, n) \cup {order[n]}
<1>1. {k \in DOMAIN order : k < n + 1} = {k \in DOMAIN order : k < n} \cup {n}
  BY OrderFacts
<1> QED
  BY <1>1 DEF Before

(* One position less takes away that module only: it occurs nowhere else.  *)
LEMMA BeforeLast ==
  ASSUME TypeOK, NEW n \in DOMAIN order
  PROVE  Before(order, n + 1) \ {order[n]} = Before(order, n)
<1>1. order[n] \notin Before(order, n)
  BY OrderFacts DEF Before
<1> QED
  BY <1>1, BeforeNext

(* The two ways of saying that an order is sorted by dependency.           *)
LEMMA TopologicalIsBefore ==
  ASSUME TypeOK
  PROVE  Topological(order)
           <=> \A k \in DOMAIN order : Dependencies[order[k]] \subseteq Before(order, k)
  BY OrderFacts DEF Topological, Before

(* A part of the order that respects dependencies is closed under them.    *)
LEMMA PrefixClosed ==
  ASSUME TypeOK, NEW n \in Int, TopologicalTo(order, n)
  PROVE  \A m \in Before(order, n) : Dependencies[m] \subseteq Before(order, n)
<1> SUFFICES ASSUME NEW k \in DOMAIN order, k < n
             PROVE  Dependencies[order[k]] \subseteq Before(order, n)
  BY DEF Before
<1>1. Dependencies[order[k]] \subseteq Before(order, k)
  BY DEF TopologicalTo
<1>2. Before(order, k) \subseteq Before(order, n)
  BY OrderFacts DEF Before
<1> QED
  BY <1>1, <1>2

LEMMA TopologicalPrefix ==
  ASSUME TypeOK, Topological(order), NEW n
  PROVE  TopologicalTo(order, n)
  BY TopologicalIsBefore DEF TopologicalTo
-----------------------------------------------------------------------------
LEMMA InitHolds == Init => IInv
<1> SUFFICES ASSUME Init PROVE IInv
  OBVIOUS
<1>0. Len(order) \in Nat
  BY LoaderAssumption DEF Init
<1>4. i \in 0 .. Len(order) + 1
  BY <1>0 DEF Init
<1>1. TypeOK
  BY <1>4, Zenon DEF Init, TypeOK
<1>2. UpInv
  BY <1>1, OrderFacts DEF Init, UpInv, Before, TopologicalTo
<1>3. BusyInv /\ DependenciesUp /\ IdleWhenDestroyed /\ OrderJudgedRightly
  BY DEF Init, BusyInv, DependenciesUp, IdleWhenDestroyed, OrderJudgedRightly
<1> QED
  BY <1>1, <1>2, <1>3 DEF IInv

LEMMA NextPreserves == IInv /\ [Next]_vars => IInv'
<1> SUFFICES ASSUME IInv, [Next]_vars PROVE IInv'
  OBVIOUS
<1> USE DEF IInv
<1>0. /\ order \in Seq(Module) /\ Len(order) \in Nat
      /\ DOMAIN order = 1 .. Len(order) /\ i \in Int
      /\ \A k \in DOMAIN order : order[k] \in Module
  BY OrderFacts
<1>1. CASE LoadModule
  <2> USE <1>1 DEF LoadModule
  <2>1. order[i] \in Module /\ i \in 1 .. Len(order)
    BY <1>0
  <2>2. TypeOK'
    BY <2>1, <1>0 DEF TypeOK
  <2>3. Dependencies[order[i]] \subseteq Before(order, i)
    BY DEF DependenciesLoaded, isModuleLoaded, UpInv
  <2>4. TopologicalTo(order, i + 1)
    BY <2>1, <2>3, <1>0 DEF TopologicalTo, UpInv
  <2>5. up' = Before(order, i + 1) /\ modules' = Before(order, i + 1)
    BY BeforeNext DEF UpInv
  <2>6. UpInv'
    BY <2>1, <2>4, <2>5, <1>0 DEF UpInv
  <2>7. DependenciesUp'
    BY <2>4, <2>5, PrefixClosed, <1>0 DEF DependenciesUp
  <2>8. BusyInv' /\ IdleWhenDestroyed' /\ OrderJudgedRightly'
    BY DEF BusyInv, IdleWhenDestroyed, OrderJudgedRightly
  <2> QED
    BY <2>2, <2>6, <2>7, <2>8
<1>2. CASE DependencyNotLoaded
  <2> USE <1>2 DEF DependencyNotLoaded
  <2>1. ~(Dependencies[order[i]] \subseteq Before(order, i))
    BY DEF DependenciesLoaded, isModuleLoaded, UpInv
  <2>2. ~Topological(order)
    BY <2>1, TopologicalIsBefore
  <2>3. TypeOK' /\ UpInv'
    BY DEF TypeOK, UpInv
  <2>4. BusyInv' /\ DependenciesUp' /\ IdleWhenDestroyed' /\ OrderJudgedRightly'
    BY <2>2 DEF BusyInv, DependenciesUp, IdleWhenDestroyed, OrderJudgedRightly, Topological
  <2> QED
    BY <2>3, <2>4
<1>3. CASE InitFails
  <2> USE <1>3 DEF InitFails
  <2>1. TypeOK' /\ UpInv'
    BY DEF TypeOK, UpInv
  <2>2. BusyInv' /\ DependenciesUp' /\ IdleWhenDestroyed' /\ OrderJudgedRightly'
    BY DEF BusyInv, DependenciesUp, IdleWhenDestroyed, OrderJudgedRightly
  <2> QED
    BY <2>1, <2>2
<1>4. CASE AllLoaded
  <2> USE <1>4 DEF AllLoaded
  <2>1. TypeOK' /\ UpInv'
    BY DEF TypeOK, UpInv
  <2>2. Topological(order)
    BY TopologicalIsBefore, <1>0 DEF UpInv, TopologicalTo
  <2>3. BusyInv' /\ DependenciesUp' /\ IdleWhenDestroyed' /\ OrderJudgedRightly'
    BY <2>2 DEF BusyInv, DependenciesUp, IdleWhenDestroyed, OrderJudgedRightly, Topological
  <2> QED
    BY <2>1, <2>3
<1>5. CASE Progress
  <2> USE <1>5 DEF Progress
  <2>1. TypeOK' /\ UpInv'
    BY DEF TypeOK, UpInv
  <2>2. BusyInv' /\ DependenciesUp' /\ IdleWhenDestroyed' /\ OrderJudgedRightly'
    BY DEF BusyInv, DependenciesUp, IdleWhenDestroyed, OrderJudgedRightly, Topological
  <2> QED
    BY <2>1, <2>2
<1>6. CASE Quit
  <2> USE <1>6 DEF Quit
  <2>1. TypeOK' /\ UpInv'
    BY <1>0 DEF TypeOK, UpInv
  <2>2. BusyInv' /\ DependenciesUp' /\ IdleWhenDestroyed' /\ OrderJudgedRightly'
    BY DEF UpInv, BusyInv, DependenciesUp, IdleWhenDestroyed, OrderJudgedRightly, Topological
  <2> QED
    BY <2>1, <2>2
<1>7. CASE PreDeinit
  <2> USE <1>7 DEF PreDeinit
  <2>1. i \in DOMAIN order
    BY <1>0 DEF UpInv
  <2>2. TypeOK' /\ UpInv'
    BY <2>1, <1>0 DEF TypeOK, UpInv
  <2>3. gpuBusy => Graphics \in Before(order, i)
    BY <2>1, BeforeNext DEF BusyInv
  <2>4. i' + 1 = i
    BY <1>0
  <2>5. BusyInv' /\ DependenciesUp' /\ IdleWhenDestroyed' /\ OrderJudgedRightly'
    BY <2>3, <2>4 DEF BusyInv, DependenciesUp, IdleWhenDestroyed, OrderJudgedRightly, Topological
  <2> QED
    BY <2>2, <2>5
<1>8. CASE AllPrepared
  <2> USE <1>8 DEF AllPrepared
  <2>1. TypeOK' /\ UpInv'
    BY <1>0 DEF TypeOK, UpInv
  <2>2. ~gpuBusy
    BY <1>0 DEF BusyInv, Before
  <2>3. BusyInv' /\ DependenciesUp' /\ IdleWhenDestroyed' /\ OrderJudgedRightly'
    BY <2>2 DEF BusyInv, DependenciesUp, IdleWhenDestroyed, OrderJudgedRightly, Topological
  <2> QED
    BY <2>1, <2>3
<1>9. CASE Deinit
  <2> USE <1>9 DEF Deinit
  <2>1. i \in DOMAIN order /\ order[i] \in Module
    BY <1>0 DEF UpInv
  <2>2. TypeOK'
    BY <2>1, <1>0 DEF TypeOK
  <2>3. up' = Before(order, i) /\ i' + 1 = i
    BY <2>1, <1>0, BeforeLast DEF UpInv
  <2>4. UpInv'
    BY <2>1, <2>3, <1>0 DEF UpInv
  <2>5. TopologicalTo(order, i)
    BY TopologicalPrefix DEF OrderJudgedRightly
  <2>6. DependenciesUp'
    BY <2>3, <2>5, PrefixClosed, <1>0 DEF DependenciesUp
  <2>7. BusyInv' /\ IdleWhenDestroyed' /\ OrderJudgedRightly'
    BY DEF BusyInv, IdleWhenDestroyed, OrderJudgedRightly, Topological
  <2> QED
    BY <2>2, <2>4, <2>6, <2>7
<1>10. CASE UnloadFails
  <2> USE <1>10 DEF UnloadFails
  <2>1. TypeOK' /\ UpInv'
    BY DEF TypeOK, UpInv
  <2>2. BusyInv' /\ DependenciesUp' /\ IdleWhenDestroyed' /\ OrderJudgedRightly'
    BY DEF BusyInv, DependenciesUp, IdleWhenDestroyed, OrderJudgedRightly
  <2> QED
    BY <2>1, <2>2
<1>11. CASE AllUnloaded
  <2> USE <1>11 DEF AllUnloaded
  <2>1. Before(order, i + 1) = {}
    BY <1>0 DEF Before
  <2>2. TypeOK' /\ UpInv'
    BY <2>1 DEF TypeOK, UpInv
  <2>3. BusyInv' /\ DependenciesUp' /\ IdleWhenDestroyed' /\ OrderJudgedRightly'
    BY DEF BusyInv, DependenciesUp, IdleWhenDestroyed, OrderJudgedRightly, Topological
  <2> QED
    BY <2>2, <2>3
<1>12. CASE GpuFinishes
  <2> USE <1>12 DEF GpuFinishes
  <2>1. TypeOK' /\ UpInv'
    BY DEF TypeOK, UpInv
  <2>2. BusyInv' /\ DependenciesUp' /\ IdleWhenDestroyed' /\ OrderJudgedRightly'
    BY DEF BusyInv, DependenciesUp, IdleWhenDestroyed, OrderJudgedRightly, Topological
  <2> QED
    BY <2>1, <2>2
<1>13. CASE UNCHANGED vars
  <2> USE <1>13 DEF vars
  <2>1. TypeOK' /\ UpInv'
    BY DEF TypeOK, UpInv
  <2>2. BusyInv' /\ DependenciesUp' /\ IdleWhenDestroyed' /\ OrderJudgedRightly'
    BY DEF BusyInv, DependenciesUp, IdleWhenDestroyed, OrderJudgedRightly, Topological
  <2> QED
    BY <2>1, <2>2
<1> QED
  BY <1>1, <1>2, <1>3, <1>4, <1>5, <1>6, <1>7, <1>8, <1>9, <1>10, <1>11,
     <1>12, <1>13 DEF Next, Engine, Ended

LEMMA Invariant == Spec => []IInv
  BY InitHolds, NextPreserves, PTL DEF Spec
-----------------------------------------------------------------------------
(* TypeOK holds of every load order.                                       *)
THEOREM TypeCorrect == Spec => []TypeOK
<1>1. IInv => TypeOK
  BY DEF IInv
<1> QED
  BY <1>1, Invariant, PTL

(* A module is up only while its dependencies are, whatever the modules,   *)
(* the order and the errors.                                               *)
THEOREM DependenciesUpCorrect == Spec => []DependenciesUp
<1>1. IInv => DependenciesUp
  BY DEF IInv
<1> QED
  BY <1>1, Invariant, PTL

(* Nothing is destroyed while a frame is in flight, wherever in the order  *)
(* the graphics module stands.                                             *)
THEOREM IdleWhenDestroyedCorrect == Spec => []IdleWhenDestroyed
<1>1. IInv => IdleWhenDestroyed
  BY DEF IInv
<1> QED
  BY <1>1, Invariant, PTL

(* An order is refused exactly when it is not sorted by dependency.        *)
THEOREM OrderJudgedRightlyCorrect == Spec => []OrderJudgedRightly
<1>1. IInv => OrderJudgedRightly
  BY DEF IInv
<1> QED
  BY <1>1, Invariant, PTL
=============================================================================
