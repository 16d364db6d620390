SPECIFICATION Spec
CONSTANTS Word = 128
          PAGE_SIZE = 3
          KERNEL_HEAP_MAX = 20
          heapBottom = 7
          Overrun = 1
          progLoc = 30
          Memory <- MCMemory
          Grubs <- MCGrubs
INVARIANTS ProgramInPlace KernelsRegion PartsApart
CHECK_DEADLOCK FALSE
