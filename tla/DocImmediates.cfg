SPECIFICATION Spec
CONSTANTS
  BYTE_BITS = 2
  BYTE = 4
  STACK_SIZE = 48
  IMM7 = 4
  IMM9 = 16
  IMM14 = 16
  IMM12 = 11
  IMM26 = 16
  PAGE = 4
  LoggerPtr = 31337
  Regs <- MCRegs
  OrByte <- OrTable
  Programs <- ImmediatePrograms
  UninitRegs <- MCUninitRegs
  UninitStack <- MCStacks
INVARIANT ImmediatesAsEncoded
