SPECIFICATION Spec
CONSTANTS Sectors = {0, 1}
          Frames = {128, 132}
          LbaSpan = 2
          Data = {x, y}
          SectorBytes = 2
          ByteCounts = {1, 2, 3}
          SizeWords = {0, 4}
          Garbage = Garbage
INVARIANTS RunsTheIssuedCommand
PROPERTIES NoSharedAccess CommandReturns ImplementsDisk
CHECK_DEADLOCK FALSE
