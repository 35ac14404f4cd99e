SPECIFICATION FairSpec
CONSTANTS
  Workers = {w1, w2, w3}
  Master = master
  Nobody = nobody
  FDs = {f1, f2, f3, f4}
  NoFd = nofd
  Cap = 2
INVARIANTS NoIdleWorkerWhileBacklog MasterSleepsOnlyWhenFull OneOwner
PROPERTIES ImplementsFifo ImplementsFairFifo
