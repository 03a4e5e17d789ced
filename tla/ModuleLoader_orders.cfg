SPECIFICATION Spec
CONSTANTS
  Module <- EngineModules
  Orders <- AllOrders
  Dependencies <- EngineDependencies
  Graphics = "graphics"
  Failures = {"init", "preDeinit", "deinit"}
INVARIANTS
  TypeOK
  DependenciesUp
  IdleWhenDestroyed
  OrderJudgedRightly
