------------------------------ MODULE Compiled ------------------------------
(***************************************************************************)
(* What the compiler promises to the machine that runs its code, to the    *)
(* programmer whose text it accepts or refuses, and to its caller.         *)
(***************************************************************************)
EXTENDS Compiler, Verifier

Chunkwise == Flow(current, UINT8_COUNT)
Whole     == made # Nothing /\ ~parser.hadError

(* Every function that is compiled without an error can be run: vm.c's     *)
(* run() checks no operand, no jump and no height of its stack.  At its    *)
(* end the variables of the function are on the stack, and one value more. *)
CodeVerifies ==
  Whole => /\ Verifies(made, UINT8_COUNT)
           /\ Flow(made, UINT8_COUNT).at[Len(made.code) - 1]
                \subseteq {Len(made.locals) + 1}

(* Wherever a statement begins, on whichever path it is reached, the stack *)
(* holds the local variables in their slots and nothing else: this is what *)
(* lets resolveLocal take an index into locals for a slot.                 *)
StackMatchesLocals ==
  ~parser.hadError /\ (Doing("declaration") \/ Doing("statement")) =>
    Chunkwise.at[Len(current.code)] \subseteq {Len(current.locals)}

(* A local variable that some closure captured never leaves the stack by   *)
(* OP_POP at the end of its scope, only by OP_CLOSE_UPVALUE.               *)
NoCapturedSlotIsPopped == Whole => Flow(made, UINT8_COUNT).lost = {}

(* The disassembler of debug.c finds the instructions that run() executes. *)
DisassemblerAgrees ==
  Whole => \A pc \in Flow(made, UINT8_COUNT).starts :
             disassembleInstruction(made, pc) = NextOfRun(made, pc)

(* compile() comes to an end on every text, whatever is wrong with it.     *)
Terminates == <>Finished

---------------------------------------------------------------------------
(* Texts over Grammar's vocabulary: no statement, or an expression.        *)
CONSTANTS ExpressionText, MaxExpression

Expressions == INSTANCE Grammar WITH Name0 <- "a"

Sentences ==
  {[text |-> <<"eof">>, code |-> <<"NIL", "RETURN">>]} \cup
  {[text |-> d.text \o <<";", "eof">>,
    code |-> d.code \o <<"POP", "NIL", "RETURN">>] :
     d \in UNION {Expressions!Derivations(1, n) : n \in 1..MaxExpression}}

Beginnings == UNION {{SubSeq(d.text, 1, n) : n \in 0..Len(d.text)} : d \in Sentences}

AtMostOneStatement ==
  \A i \in 1..Len(source) : source[i] = ";" => i >= Len(source) - 1

OpcodesMade == LET ops == SelectSeq(made.code, LAMBDA b : b.op # "operand")
               IN  [i \in DOMAIN ops |-> ops[i].op]

(* An expression is accepted exactly if the grammar derives it, and its    *)
(* code evaluates it as the grammar's derivation says: precedence,         *)
(* associativity and the targets of assignment.  An error is reported only *)
(* for a text that no token could have continued to a sentence.            *)
CompilesExactlyTheGrammar ==
  text = ExpressionText /\ AtMostOneStatement =>
    IF parser.hadError THEN source \notin Beginnings
    ELSE Finished => [text |-> source, code |-> OpcodesMade] \in Sentences
=============================================================================
