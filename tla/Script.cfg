CONSTANTS
  MaxHooks = 5
  MaxActs = 2
  MaxDepth = 2
SPECIFICATION Spec
CHECK_DEADLOCK FALSE
INVARIANTS SysIsInnermost ReferencesBalance ErrorsCaptured
PROPERTIES RunRestores
