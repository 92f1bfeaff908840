SPECIFICATION SetupSpec
\* every part stops
CHECK_DEADLOCK FALSE
CONSTANTS
  Starts <- StartsV
  Machines <- MachinesV
  Batches <- BatchesV
  Topologies <- TopologiesV
  MaxRounds = 2
  StandingParts <- StandingV
  Inspections <- InspectionsV
  Hosts <- HostsV
  PipeCap = 2
INVARIANTS SetupTypeOK LaunchSound GpuListSound  
PROPERTIES ActionsSound 
