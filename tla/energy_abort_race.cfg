\* A request posted while a timed wait expires is ignored.
CONSTANTS
  Students = {s1}
  Supplier = Supplier
  Machine = Machine
  Main = Main
  NoThread = NoThread
  MachineCapacity = 1
  DrinkPrice = 1
  ULONG_MAX = 3
  EarlyTimeouts = TRUE
  MayFail = {}
SPECIFICATION Spec
PROPERTIES AbortMeansNoRequest
CHECK_DEADLOCK FALSE
