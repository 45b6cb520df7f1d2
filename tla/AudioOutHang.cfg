\* CloseOut clicked while no generator runs never returns.
CONSTANTS
  MaxOpens <- MCMaxOpens
  NULL = NULL
  NoThread = NoThread
SPECIFICATION Spec
PROPERTY CloseOutReturns
CHECK_DEADLOCK FALSE
