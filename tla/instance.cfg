CONSTANTS
  Proc = {a, b, c}
  Port = {p8765, q1, q2}
  Preferred = p8765
  Foreign = {p8765}
  NoPort = NoPort
  MayOverlap = TRUE
  MayForce = TRUE
  MayBlock = TRUE
  MayFail = TRUE
SPECIFICATION FairSpec
INVARIANTS TypeOK SingleUndisturbed FindableUndisturbed
PROPERTY LaunchServed
