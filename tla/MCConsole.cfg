SPECIFICATION ConsoleSpec
CONSTANTS VGA_WIDTH = 2
          VGA_HEIGHT = 3
          TAB_WIDTH = 2
          Prints <- MCPrints
          Strings <- MCStrings
          Numbers <- MCNumbers
          Keys <- MCKeys
          MaxCalls = 4
          MaxKeys = 5
INVARIANTS ShowsLatest LineIsShown
PROPERTIES NumbersReadBack
CHECK_DEADLOCK FALSE
