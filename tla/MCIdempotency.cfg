SPECIFICATION Spec
CONSTANTS
  r1 = r1
  r2 = r2
  r3 = r3
  p1 = p1
  p2 = p2
  A = A
  B = B
  Requests = {r1, r2, r3}
  Pods = {p1, p2}
  PodOf <- MCPodOf
  Payloads = {A, B}
  PayloadsOf <- MCPayloadsOf
  NoPayload = NoPayload
  NoRequest = NoRequest
  MaxFaults = 1
INVARIANTS
  PodCoalesces
  OnceUnlessExcused
  
PROPERTIES
  CompletedStays
  Answered
CHECK_DEADLOCK FALSE
