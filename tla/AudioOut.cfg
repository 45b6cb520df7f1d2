\* Safety and conditional liveness of the CloseOut/GenSine handshake.
CONSTANTS
  MaxOpens <- MCMaxOpens
  NULL = NULL
  NoThread = NoThread
SPECIFICATION Spec
PROPERTY CloseStopsOneGenerator CloseWithGeneratorReturns
\* A CloseOut with no generator left spins for ever with no other step
\* enabled: that hang is the question of AudioOutHang.cfg, not this run.
CHECK_DEADLOCK FALSE
