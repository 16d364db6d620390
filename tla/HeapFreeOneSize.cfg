SPECIFICATION Spec
CONSTANTS HeapBottom = 16
          HeapMax = 42
          RamSizes = {64}
          Sizes = {7}
          Alignments = {}
PROPERTIES KeepsPromise
