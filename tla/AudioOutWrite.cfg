\* A generator writes to a NULL device after a second open or a close.
CONSTANTS
  MaxOpens <- MCMaxOpens
  NULL = NULL
  NoThread = NoThread
SPECIFICATION Spec
PROPERTY WriteOnlyToOpenDevice
CHECK_DEADLOCK FALSE
