SPECIFICATION Spec
CONSTANTS Names = {a, b}
          Sizes = {1, 3}
          Versions = {v1}
          BytesPerSector = 2
          TotSectors = 6
          RecordsPerSector = 3
          MaxRecords = 2
          DuplicateNames = TRUE
          Absent = Absent
INVARIANTS TypeOK ExtentsApart SizeFitsExtent
PROPERTIES NoForeignWrite UpdateEnds
