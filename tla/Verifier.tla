------------------------------ MODULE Verifier ------------------------------
(***************************************************************************)
(* What run() of vm.c takes for granted about the code it executes, and    *)
(* does not check: that its operands are in range, that every jump lands   *)
(* on an instruction, and that the stack has the height the instruction    *)
(* needs, whichever way it was reached.                                    *)
(*                                                                         *)
(* A chunk here is a record with the code, constants, arity and upvalues   *)
(* of a function.  Its code is read once, front to back, with the heights  *)
(* of the stack that are possible before each instruction.                 *)
(***************************************************************************)
EXTENDS Instructions

Jump(chunk, pc, base) ==
  ByteAt(chunk.code, pc + 1) * base + ByteAt(chunk.code, pc + 2)

Target(chunk, pc, base) ==
  pc + 3 + (IF OpAt(chunk.code, pc) = "LOOP" THEN -1 ELSE 1)
             * Jump(chunk, pc, base)

After(chunk, pc, h) ==
  LET op == OpAt(chunk.code, pc)
      argCount == ByteAt(chunk.code, pc + OperandBytes(op))
  IN  h - Takes(op, argCount) + Leaves(op)

(* The slots that the OP_CLOSURE at pc captures.                           *)
Captures(chunk, pc) ==
  {ByteAt(chunk.code, k + 1) :
     k \in {k \in (pc + 2)..(NextOfRun(chunk, pc) - 1) :
              (k - pc) % 2 = 0 /\ ByteAt(chunk.code, k) = 1}}

(* One instruction in order, at a height h: heights go to the instructions *)
(* that may come next; captured keeps the slots of the stack that some     *)
(* closure refers to.  lost gathers captured slots that were only popped.  *)
Step(chunk, base, flow) ==
  LET pc   == flow.pc
      op   == OpAt(chunk.code, pc)
      next == NextOfRun(chunk, pc)
      out  == {After(chunk, pc, h) : h \in flow.at[pc]}
      succ == (IF op \in {"JUMP", "LOOP", "RETURN"} THEN {} ELSE {next})
              \cup (IF op \in Jumps
                    THEN {Target(chunk, pc, base)} ELSE {})
      held == flow.captured \cup IF op = "CLOSURE" /\ out # {}
                                 THEN Captures(chunk, pc) ELSE {}
      gone == IF op \in {"POP", "CLOSE_UPVALUE"}
              THEN {c \in held : \E h \in out : c >= h} ELSE {}
  IN  [flow EXCEPT
         !.pc = next,
         !.starts = @ \cup {pc},
         !.at = [k \in DOMAIN @ |-> IF k \in succ THEN @[k] \cup out ELSE @[k]],
         !.captured = held \ gone,
         !.lost = IF op = "POP" THEN @ \cup gone ELSE @]

RECURSIVE Run(_, _, _)
Run(chunk, base, flow) ==
  IF flow.pc >= Len(chunk.code) THEN flow
  ELSE Run(chunk, base, Step(chunk, base, flow))

(* A call leaves the function in slot 0 and its arguments above it.  The   *)
(* increment of a for is reached from behind only, so that it takes a      *)
(* second reading to know its heights.                                     *)
Flow(chunk, base) ==
  LET From(at) == Run(chunk, base, [pc |-> 0, starts |-> {}, captured |-> {},
                                    lost |-> {}, at |-> at])
      first == From([k \in 0..Len(chunk.code) |->
                       IF k = 0 THEN {chunk.arity + 1} ELSE {}])
  IN  IF \E pc \in first.starts : OpAt(chunk.code, pc) = "LOOP"
      THEN From(first.at) ELSE first

(* What instruction pc asks for when the stack is h high.  OP_CLOSURE      *)
(* captures after it has pushed the closure, which may be a local itself.  *)
Executable(chunk, base, flow, pc, h) ==
  LET op == OpAt(chunk.code, pc)
      n  == ByteAt(chunk.code, pc + 1)
      argCount == ByteAt(chunk.code, pc + OperandBytes(op))
  IN  /\ h - Takes(op, argCount) >= 1
      /\ op \in {"GET_LOCAL", "SET_LOCAL"} => n < h
      /\ op \in {"GET_UPVALUE", "SET_UPVALUE"} => n < Len(chunk.upvalues)
      /\ op \in {"CONSTANT", "GET_GLOBAL", "DEFINE_GLOBAL", "SET_GLOBAL",
                 "GET_PROPERTY", "SET_PROPERTY", "GET_SUPER", "CLASS",
                 "METHOD", "CLOSURE", "INVOKE", "SUPER_INVOKE"}
           => n < Len(chunk.constants)
      /\ op \in Jumps => Target(chunk, pc, base) \in flow.starts
      /\ op = "CLOSURE" =>
           \A k \in (pc + 2)..(NextOfRun(chunk, pc) - 1) :
             (k - pc) % 2 = 0 =>
               IF ByteAt(chunk.code, k) = 1 THEN ByteAt(chunk.code, k + 1) <= h
               ELSE ByteAt(chunk.code, k + 1) < Len(chunk.upvalues)

(* The function can be run: one height at each instruction, each of them   *)
(* executable, and no way past the last one.                               *)
Verifies(chunk, base) ==
  LET flow == Flow(chunk, base)
  IN  /\ flow.pc = Len(chunk.code)
      /\ flow.at[flow.pc] = {}
      /\ \A pc \in flow.starts : \A h \in flow.at[pc] :
           /\ flow.at[pc] = {h}
           /\ Executable(chunk, base, flow, pc, h)
=============================================================================
