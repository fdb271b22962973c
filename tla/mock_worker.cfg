CONSTANTS
  page = page
  frame = frame
  Client = {page, frame}
  Frame = {frame}
  NoClient = NoClient
  Says <- PageAndFrame
  Request = {r1}
SPECIFICATION FairSpec
INVARIANTS TypeOK EnabledIntercepted
PROPERTIES AskedIsTold UnregistersAlone RequestEnds
CHECK_DEADLOCK FALSE
