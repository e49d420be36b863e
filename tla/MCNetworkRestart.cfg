CONSTANTS
  Replicas = {1, 2}
  Bound <- Distinct
  Advertised <- Distinct
  Links = {1, 2}
  Founders = {1, 2}
  Starters = {2}
  Crashers = {2}
  Leavers = {}
  Faults = {}
  MaxFaults = 1
  MemberQueue = 1
  WriterQueue = 1
SPECIFICATION Spec
PROPERTY Meshed
