SPECIFICATION GateSpec
CONSTANTS
  Sources <- MCSources
  sendAttempts = 4
INVARIANTS
  EverySourceAccounted
  ToldAsShown
PROPERTY CollectEnds
