SPECIFICATION CallsSpec
CONSTANTS
  BYTE_BITS = 3
  BYTE = 8
  STACK_SIZE = 160
  IMM7 = 4
  IMM9 = 16
  IMM14 = 16
  IMM12 = 40
  IMM26 = 128
  PAGE = 4
  LoggerPtr = 4242
  Regs <- MCRegs
  OrByte <- OrTable
  Programs <- MCPrograms
  UninitRegs <- LinkZero
  UninitStack <- MCStacks
INVARIANTS TypeOK ReturnsBound OverflowThrows
PROPERTIES CallDiscipline ConventionKept Terminates
