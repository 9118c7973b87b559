SPECIFICATION Spec
CONSTANTS
  Clients = {c1, c2}
  Servers = {s1}
  RequestQueue = requests
  ReplyQueues = {r1}
  None = None
  Undefined = Undefined
  MaxMessages = 2
  MaxSets = 2
INVARIANTS
  OnlyCorrelated
