SPECIFICATION FairSpec
CONSTANTS
  a1 = a1  a2 = a2  a3 = a3  c1 = c1
  i1 = i1  i2 = i2
  None = None
  Awaits = {a1, a2, a3}
  Calls = {c1}
  Ids = {i1, i2}
  EoseIds = {i2}
  IdOf <- SharedId
INVARIANTS LiveCallback InvokedOnce ReturnsResponse AnsweredIsReported
PROPERTIES ImplementsRequests AwaitEnds
