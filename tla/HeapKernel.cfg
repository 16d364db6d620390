SPECIFICATION KernelSpec
CONSTANTS HeapBottom = 16
          HeapMax = 30
          RamSizes = {16, 64}
          Sizes = {0, 7}
          Alignments = {8}
INVARIANTS TypeOK HeadersIntact InsideBlock BoundedOverrun
PROPERTIES HonestFailure RequestReturns KeepsPromise
CHECK_DEADLOCK FALSE
