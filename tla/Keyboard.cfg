SPECIFICATION KeyboardSpec
CONSTANTS Keys = {k1, k2}
          ShiftKeys = {left}
          MaxQueue = 3
          MaxTyped = 3
INVARIANTS IdentityRead KeysInOrder
PROPERTIES KeysArrive CheckEnds
CHECK_DEADLOCK FALSE
