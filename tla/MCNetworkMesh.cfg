CONSTANTS
  Replicas = {1, 2}
  Bound <- Distinct
  Advertised <- Distinct
  Links = {1, 2}
  Founders = {1}
  Starters = {2}
  Crashers = {}
  Leavers = {1, 2}
  Faults = {"dial"}
  MaxFaults = 2
  MemberQueue = 2
  WriterQueue = 1
SPECIFICATION Spec
INVARIANTS NoMutualAttempts DeadStayDead
PROPERTIES Meshed DepartedForgotten
CHECK_DEADLOCK FALSE
