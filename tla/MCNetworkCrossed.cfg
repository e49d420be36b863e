CONSTANTS
  Replicas = {1, 2}
  Bound <- Wildcard
  Advertised <- Distinct
  Links = {1, 2}
  Founders = {1, 2}
  Starters = {}
  Crashers = {}
  Leavers = {}
  Faults = {}
  MaxFaults = 0
  MemberQueue = 1
  WriterQueue = 1
SPECIFICATION Spec
PROPERTY Meshed
