SPECIFICATION Spec
CONSTANTS LastBus = 1
          LastDevice = 1
          LastFunction = 1
          Machines <- MCMachines
          LastPort = 2
          PortMaps = {{}, {0}, {0, 1}}
INVARIANTS FirstController NoStaleMemory ReadyForCommands
PROPERTIES IdleBeforeReset EngineOrder BringUpEnds
CHECK_DEADLOCK FALSE
