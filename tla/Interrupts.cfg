SPECIFICATION Spec
CONSTANTS Lines = {0, 1, 8}
          FirmwareMasks = {{}, {1, 2}, {0, 3, 4, 5, 6, 7, 8, 9, 10, 11, 12, 13, 14, 15}}
INVARIANTS NoFault
PROPERTIES OnlyKeyboard KeysGetThrough
