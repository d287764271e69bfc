\* Four clients, every mode and the libevent program; there are descriptors for
\* three clients and tasks for two.
CONSTANTS
  Clients = {c1, c2, c3, c4}
  Modes = {"BLOCKING", "THREAD", "FORKING", "LIBEVENT"}
  Server = Server
  MaxFds = 3
  MaxTasks = 2
SPECIFICATION FairSpec
INVARIANTS TypeOK OneOwner
PROPERTIES ConnectionReleased ChildrenPlayOn EveryoneAnswered
CHECK_DEADLOCK FALSE
