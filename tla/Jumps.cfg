SPECIFICATION JSpec
CONSTANTS
  Byte <- MCByte
  MaxLength = 5
INVARIANT FlowFollowsScan
