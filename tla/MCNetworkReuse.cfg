CONSTANTS
  Replicas = {1, 2, 3}
  Bound <- Own
  Advertised <- Own
  Links = {1, 2, 3}
  Founders = {1, 2}
  Starters = {2, 3}
  Crashers = {2}
  Leavers = {}
  Faults = {"handshake", "break"}
  MaxFaults = 2
  MemberQueue = 1
  WriterQueue = 1
SPECIFICATION Spec
INVARIANTS TypeOK OneConnectionPerPeer
