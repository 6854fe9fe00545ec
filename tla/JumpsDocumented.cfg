SPECIFICATION JSpec
CONSTANTS
  Byte <- MCByte
  MaxLength = 4
PROPERTY JumpsSkipImmediates
