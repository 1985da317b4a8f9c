CONSTANTS
  Printer = {p1, p2, p3}
  SCRWIDTH = 4
  SCRHEIGHT = 2
  TABSTOP = 2
  UINT16 = 16
  UINT32 = 256
  BUFFER = 3
  Number = {0, 9, 10, 16, 127, 128, 129, 255}
SPECIFICATION ConsoleSpec
SYMMETRY Symmetry
INVARIANTS CursorSettled TextKept NumbersSpelled ConsoleInv
