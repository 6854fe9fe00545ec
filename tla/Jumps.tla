-------------------------------- MODULE Jumps --------------------------------
(***************************************************************************)
(* Control flow inside one frame: how the program counter moves over the   *)
(* code (full/opcodes.bend, full/opcode-stack.bend) and which positions    *)
(* the scan of full/opcode-common.bend lets a jump land on.                *)
(*                                                                         *)
(* Stack and gas are left out: an instruction may go on or fault, a jump   *)
(* may ask for any target, a conditional jump may fall through.            *)
(***************************************************************************)
EXTENDS Naturals, Sequences, SequencesExt

CONSTANTS
  Byte,         \* the byte values of the code
  MaxLength     \* bound on the length of the code

ASSUME JumpsAssumption == Byte \subseteq 0..255 /\ MaxLength \in Nat

VARIABLES
  code,         \* the bytes of the frame's code
  pc,           \* the position of the next instruction
  action        \* "Running", "Stopped" or "Fault"

jvars == <<code, pc, action>>

JUMP == 86
JUMPI == 87
JUMPDEST == 91
Push == 96..127
DUPN == 230
SWAPN == 231
EXCHANGE == 232
Immediate == {DUPN, SWAPN, EXCHANGE}

\* Code reads are padded with zeros, STOP.
At(i) == IF i < Len(code) THEN code[i + 1] ELSE 0

----------------------------------------------------------------------------
(* The scan.                                                               *)

\* The bytes of an instruction, as the scan counts them.
Width(op) == IF op \in Push THEN op - 94 ELSE 1

\* How many bytes the scan still skips when it reaches a position.
Skip ==
  LET skip[i \in 0..Len(code)] ==
        IF i = 0 THEN 0
        ELSE IF skip[i - 1] = 0 THEN Width(At(i - 1)) - 1 ELSE skip[i - 1] - 1
  IN  skip

\* jump_scan, behind the bound check of jump.
Accepts(target) ==
  /\ target < Len(code)
  /\ Skip[target] = 0
  /\ At(target) = JUMPDEST

----------------------------------------------------------------------------
(* The instructions.                                                       *)

\* Mutant: every immediate byte is valid.
AnyImmediate(op, immediate) == TRUE

ValidImmediate(op, immediate) ==
  \/ immediate >= 128
  \/ immediate <= IF op = EXCHANGE THEN 81 ELSE 90

Advance(bytes) ==
  /\ pc' = pc + bytes
  /\ UNCHANGED <<code, action>>

Fail == action' = "Fault" /\ UNCHANGED <<code, pc>>

Halting ==
  /\ At(pc) = 0
  /\ action' = "Stopped"
  /\ UNCHANGED <<code, pc>>

Simple ==
  /\ At(pc) \notin {0, JUMP} \cup Push \cup Immediate
  /\ Advance(1)

PushData ==
  /\ At(pc) \in Push
  /\ Advance(1 + At(pc) - 95)

WithImmediate ==
  /\ At(pc) \in Immediate
  /\ ValidImmediate(At(pc), At(pc + 1))
  /\ Advance(2)

Jump(target) ==
  /\ At(pc) \in {JUMP, JUMPI}
  /\ Accepts(target)
  /\ pc' = target
  /\ UNCHANGED <<code, action>>

JInit ==
  /\ code \in BoundedSeq(Byte, MaxLength)
  /\ pc = 0
  /\ action = "Running"

\* Any instruction may also fault: stack bounds, gas, a bad target or
\* immediate, an invalid opcode.
Step ==
  \/ Halting
  \/ Simple
  \/ PushData
  \/ WithImmediate
  \/ \E target \in 0..Len(code) : Jump(target)
  \/ Fail

JNext == (action = "Running" /\ Step) \/ (action # "Running" /\ UNCHANGED jvars)

JSpec == JInit /\ [][JNext]_jvars

----------------------------------------------------------------------------
\* The program counter only ever meets bytes that the scan takes for
\* instructions, although execution steps over the immediate bytes of
\* EIP-8024 and the scan does not: no valid immediate looks like a PUSH that
\* would hide, or uncover, what follows it
\* (full/opcode-common.bend:116-119, full/opcode-stack.bend:46-49).
FlowFollowsScan == pc < Len(code) => Skip[pc] = 0

\* Positions of the instructions when an immediate is skipped like PUSH data.
DocumentedStarts ==
  LET skip[i \in 0..Len(code)] ==
        IF i = 0 THEN 0
        ELSE IF skip[i - 1] # 0 THEN skip[i - 1] - 1
        ELSE IF At(i - 1) \in Immediate THEN 1
        ELSE Width(At(i - 1)) - 1
  IN  {i \in 0..Len(code) : skip[i] = 0}

\* "Jumpdest analysis skips their one immediate byte, and every PUSH
\* immediate; only actual 0x5b instructions are destinations"
\* (AMSTERDAM-SPEC.md:105): a jump never lands inside DUPN, SWAPN, EXCHANGE.
JumpsSkipImmediates ==
  [][action' = "Running" /\ At(pc) \in {JUMP, JUMPI}
       => pc' \in DocumentedStarts \cup {pc + 1}]_jvars
=============================================================================
