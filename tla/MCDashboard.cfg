SPECIFICATION DSpec
CONSTANTS
  p1 = p1  p2 = p2  a = a  r1 = r1  r2 = r2  r3 = r3
  Bridge = Bridge  Sandbox = Sandbox  None = None
  Procs = {p1, p2}
  Policies <- MCPolicies
  ProbeTimeout = 2  PingTimeout = 2  Probe = 3  Stale = 6
  Together <- MCTogether
  Runs = {r1, r2, r3}
  Times <- MCTimes
  Now = 7  Windows = {2, 3}  BucketSizes = {2}  Bins = {3}
  Unit = 2  Scored = 1  Sampled = 2
INVARIANTS FTypeOK LiveNeverDown AnswersAgree
PROPERTIES NodesSettle
