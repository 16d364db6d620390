SPECIFICATION Spec
CONSTANTS Names = {a, b}
          Sizes = {2}
          Versions = {v1, v2}
          BytesPerSector = 2
          TotSectors = 6
          RecordsPerSector = 4
          MaxRecords = 3
          DuplicateNames = FALSE
          Absent = Absent
PROPERTIES ImplementsFiles ReadReturnsWritten
