\* Two students share a machine of one drink.  Threads may be missing, timed waits
\* may expire at any moment and wakeups may be spurious: the handshake,
\* the abstract service, and who is blocked for ever.  The program does hang
\* here, hence no deadlock check.
CONSTANTS
  Students = {s1, s2}
  Supplier = Supplier
  Machine = Machine
  Main = Main
  NoThread = NoThread
  MachineCapacity = 1
  DrinkPrice = 2
  ULONG_MAX = 3
  EarlyTimeouts = TRUE
  MayFail = {s1, Supplier, Machine}
SPECIFICATION FairSpec
INVARIANTS TypeOK OneTransaction NoLostWakeup
PROPERTIES ImplementsService ServedUnlessAbandoned
CHECK_DEADLOCK FALSE
