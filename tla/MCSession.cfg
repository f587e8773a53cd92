SPECIFICATION Spec
CONSTANTS
  NULL = NULL
  Engines = {"postgres", "mysql", "sqlite"}
  Dbs = {"postgres", "app"}
  MaxCommands = 2
  MaxChanges = 1
CHECK_DEADLOCK FALSE
INVARIANTS
  SessionIsSound
  RunsWhereAsked
  OnceUnlessBroken
  SchemaShowsServer
  StructureIsTable
PROPERTIES
  CommandEnds
