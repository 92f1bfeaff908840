SPECIFICATION FairSpec
CONSTANTS
  Clients = {c1, c2}
  NoClient = NoClient
  MaxSessions = 2
  Confs <- OpenConfs
INVARIANT NoDanglingReport
PROPERTIES ImplementsLifecycle 
