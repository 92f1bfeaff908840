SPECIFICATION Spec
CONSTANTS
  Clients = {c1, c2}
  NoClient = NoClient
  MaxSessions = 1
  Confs <- ClosedConfs
INVARIANT ApiGuarded
PROPERTIES SuccessMeansCompleted 
