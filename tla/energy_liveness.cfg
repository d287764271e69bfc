\* Three students share a machine of two drinks; timed waits expire only when the
\* students are gone: the stock, the refills and the coins are right, every student is served
\* and run() returns.  Deadlock is checked.
CONSTANTS
  Students = {s1, s2, s3}
  Supplier = Supplier
  Machine = Machine
  Main = Main
  NoThread = NoThread
  MachineCapacity = 2
  DrinkPrice = 2
  ULONG_MAX = 7
  EarlyTimeouts = FALSE
  MayFail = {}
SPECIFICATION FairSpec
INVARIANTS DrinkInStock CoinsMatchDrinks
PROPERTIES RefillOnlyWhenEmpty ImplementsFairService RunReturns
