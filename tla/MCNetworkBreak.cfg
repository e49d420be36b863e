CONSTANTS
  Replicas = {1, 2}
  Bound <- Distinct
  Advertised <- Distinct
  Links = {1, 2}
  Founders = {1, 2}
  Starters = {}
  Crashers = {}
  Leavers = {}
  Faults = {"break"}
  MaxFaults = 1
  MemberQueue = 1
  WriterQueue = 1
SPECIFICATION Spec
PROPERTY Meshed
