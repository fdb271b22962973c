CONSTANTS
  Proc = {a, b}
  Port = {p8765, q1, q2}
  Preferred = p8765
  Foreign = {}
  NoPort = NoPort
  MayOverlap = FALSE
  MayForce = FALSE
  MayBlock = TRUE
  MayFail = FALSE
SPECIFICATION Spec
INVARIANT SingleServer
