SPECIFICATION ProgramSpec
CONSTANTS
  Modulus = 32
  Page = 4
  Low = 8
  High = 20
  ClearUnit = 2
  Elfs <- MCElfs
INVARIANTS ImageExact MainFindsProgram
CHECK_DEADLOCK FALSE
