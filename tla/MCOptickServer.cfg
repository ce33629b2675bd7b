\* Six clients, settings of three words, two broken connections.
SPECIFICATION FairSpec
CONSTANTS
  Settings = 3
  MaxReconnects = 2
CONSTANT Scripts <- AnyScripts
INVARIANTS TypeOK CommandsFaithful HearsUntilDamaged
PROPERTY AllApplied
CHECK_DEADLOCK FALSE
