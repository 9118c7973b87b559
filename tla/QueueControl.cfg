SPECIFICATION Spec
CONSTANTS
  Clients = {c1, c2}
  Servers = {s1}
  RequestQueue = requests
  ReplyQueues = {r1, r2}
  None = None
  Undefined = Undefined
  MaxMessages = 3
  MaxSets = 2
SYMMETRY Symmetry
INVARIANTS
  RepliesGoHome
  ReplyQueueSticks
  ControlAsAsked
