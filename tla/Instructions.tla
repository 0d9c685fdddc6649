---------------------------- MODULE Instructions ----------------------------
(***************************************************************************)
(* The instruction set of chunk.h as its two readers know it: run() of     *)
(* vm.c, which decodes and executes an instruction, and                    *)
(* disassembleInstruction() of debug.c, which decodes and prints it.       *)
(*                                                                         *)
(* A chunk is a sequence of bytes.  A byte is a record, so that a reader   *)
(* that has lost its place finds an operand where it expects an opcode.    *)
(***************************************************************************)
EXTENDS Integers, SequencesExt

Opcode(op) == [op |-> op, n |-> 0]
Operand(n) == [op |-> "operand", n |-> n]

(* Operand bytes that run() reads, those of OP_CLOSURE's upvalues apart.   *)
ByteInstructions ==
  {"CONSTANT", "GET_LOCAL", "SET_LOCAL", "GET_GLOBAL", "DEFINE_GLOBAL",
   "SET_GLOBAL", "GET_UPVALUE", "SET_UPVALUE", "GET_PROPERTY",
   "SET_PROPERTY", "GET_SUPER", "CALL", "CLOSURE", "CLASS", "METHOD"}

Jumps == {"JUMP", "JUMP_IF_FALSE", "LOOP"}
Invocations == {"INVOKE", "SUPER_INVOKE"}

OpCode ==
  ByteInstructions \cup Jumps \cup Invocations \cup
  {"NIL", "TRUE", "FALSE", "POP", "EQUAL", "GREATER", "LESS", "ADD", "SUBTRACT",
   "MULTIPLY", "DIVIDE", "NOT", "NEGATE", "PRINT", "CLOSE_UPVALUE", "RETURN",
   "INHERIT"}

OperandBytes(op) ==
  CASE op \in Jumps \cup Invocations -> 2
    [] op \in ByteInstructions       -> 1
    [] OTHER                         -> 0

(* The values an instruction takes from the top of the stack, with the     *)
(* number of arguments of a call, and those it leaves in their place.      *)
Takes(op, argCount) ==
  CASE op \in {"POP", "DEFINE_GLOBAL", "PRINT", "CLOSE_UPVALUE", "RETURN",
               "NOT", "NEGATE", "GET_PROPERTY", "SET_LOCAL", "SET_GLOBAL",
               "SET_UPVALUE", "JUMP_IF_FALSE"} -> 1
    [] op \in {"EQUAL", "GREATER", "LESS", "ADD", "SUBTRACT", "MULTIPLY",
               "DIVIDE", "SET_PROPERTY", "GET_SUPER", "INHERIT",
               "METHOD"}                       -> 2
    [] op \in {"CALL", "INVOKE"}               -> argCount + 1
    [] op = "SUPER_INVOKE"                     -> argCount + 2
    [] OTHER                                   -> 0

Leaves(op) ==
  IF op \in {"POP", "DEFINE_GLOBAL", "PRINT", "CLOSE_UPVALUE", "RETURN",
             "JUMP", "LOOP"} THEN 0 ELSE 1

(* A reader's view of the code from byte pc on, pc counted from 0 as in    *)
(* the source: the opcode, its operands, and where the next one starts.    *)
OpAt(code, pc) == code[pc + 1].op
ByteAt(code, pc) == IF pc < Len(code) THEN code[pc + 1].n ELSE 0

UpvalueCount(chunk, pc) ==
  LET k == ByteAt(chunk.code, pc + 1)
  IN  IF k < Len(chunk.constants) THEN chunk.constants[k + 1].upvalueCount
                                  ELSE 0

NextOfRun(chunk, pc) ==
  LET op == OpAt(chunk.code, pc)
  IN  pc + 1 + OperandBytes(op)
         + IF op = "CLOSURE" THEN 2 * UpvalueCount(chunk, pc) ELSE 0

(* debug.c: by kind of instruction, what each function adds to offset.     *)
simpleInstruction(offset)   == offset + 1
byteInstruction(offset)     == offset + 2
constantInstruction(offset) == offset + 2
jumpInstruction(offset)     == offset + 3

\* Variant: an invocation is printed as an instruction with one operand.
invokeInstructionShort(offset) == byteInstruction(offset)

invokeInstruction(offset)   == offset + 3

disassembleInstruction(chunk, offset) ==
  LET op == OpAt(chunk.code, offset)
  IN  CASE op \in {"GET_LOCAL", "SET_LOCAL", "GET_UPVALUE", "SET_UPVALUE",
                   "CALL"} -> byteInstruction(offset)
        [] op \in {"CONSTANT", "GET_GLOBAL", "DEFINE_GLOBAL", "SET_GLOBAL",
                   "GET_PROPERTY", "SET_PROPERTY", "GET_SUPER", "CLASS",
                   "METHOD"} -> constantInstruction(offset)
        [] op \in Jumps -> jumpInstruction(offset)
        [] op \in Invocations -> invokeInstruction(offset)
        [] op = "CLOSURE" -> offset + 2 + 2 * UpvalueCount(chunk, offset)
        [] OTHER -> simpleInstruction(offset)
=============================================================================
