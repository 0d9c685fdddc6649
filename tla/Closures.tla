------------------------------ MODULE Closures ------------------------------
(***************************************************************************)
(* The stack machine of vm.c: calls, local variables and closures.         *)
(*                                                                         *)
(* A local variable is a slot of the one stack.  A closure reaches the     *)
(* variables of other functions through upvalues: an open upvalue points   *)
(* at a slot, and a closed one holds the value itself.  vm.openUpvalues    *)
(* lists the open ones, highest slot first, so that closing the variables  *)
(* from some slot upwards takes them off its head.                         *)
(*                                                                         *)
(* An action is one instruction of a compiled program, or one turn of the  *)
(* loop of OP_CLOSURE, and the program is left open: any instruction that  *)
(* the compiler could have put there may come next.  What the compiler     *)
(* knows is kept with each frame: which slots are local variables, in      *)
(* order of declaration, and which of them some function of the program    *)
(* captures.                                                               *)
(***************************************************************************)
EXTENDS Integers, SequencesExt

CONSTANTS
  Variable,     \* identities of variables, to tell them from their slots
  Data,         \* values that are not closures, NIL among them
  NIL,
  UNDEFINED,    \* the global before its definition
  CLOSED,       \* location of a closed upvalue: its own field closed
  Repl,         \* TRUE in main.c's repl, FALSE in runFile
  FramesMax,    \* FRAMES_MAX
  MaxArity,     \* bounds of the model: arguments, slots of the stack,
  StackMax,     \*   which the source does not check either,
  MaxClosures,  \*   closures and their upvalues
  MaxUpvalues

ASSUME ClosuresAssumption ==
  /\ NIL \in Data
  /\ Data \cap (Int \cup {UNDEFINED, CLOSED}) = {}
  /\ {UNDEFINED, CLOSED} \cap Int = {}
  /\ Repl \in BOOLEAN
  /\ FramesMax \in Nat \ {0}
  /\ {MaxArity, StackMax, MaxClosures, MaxUpvalues} \subseteq Nat

VARIABLES
  stack,         \* vm.stack; what is above stackTop stays there
  stackTop,
  frames,        \* vm.frames, the locals of each frame with it
  closures,      \* every ObjClosure, in order of creation
  upvalues,      \* every ObjUpvalue, likewise
  openUpvalues,  \* the list vm.openUpvalues, head first
  filling,       \* upvalues that OP_CLOSURE still has to fill in
  global,        \* a global variable
  ready          \* interpret may be called

vars == <<stack, stackTop, frames, closures, upvalues, openUpvalues, filling,
          global, ready>>

heap == <<closures, upvalues, openUpvalues, filling>>

Slot  == 0..(StackMax - 1)
Value == Data \cup 1..MaxClosures

(* A call: its function, in slot number slots of the stack, and above that *)
(* slot its local variables.  Closure 0 is the script's.                   *)
CallFrame(c, slots, locals) ==
  [closure |-> c, slots |-> slots, locals |-> locals]

Local(v, isCaptured) == [variable |-> v, isCaptured |-> isCaptured]

Frame     == Last(frames)
Locals    == Frame.locals
Operands  == stackTop - (Frame.slots + 1 + Len(Locals))
Base(f)   == f.slots + 1
peek(n)   == stack[stackTop - 1 - n]
Running   == frames # <<>> /\ filling = 0

UpvaluesOf(c) == IF c = 0 THEN <<>> ELSE closures[c].upvalues

(* The variables that live, and as many new ones as are needed, a choice   *)
(* that the program does not see.                                          *)
LocalsOf(f) == {f.locals[j].variable : j \in DOMAIN f.locals}
Living ==
  (UNION {LocalsOf(f) : f \in Range(frames)}) \cup {u.variable : u \in Range(upvalues)}

NewVariables(n) ==
  {vs \in [1..n -> Variable \ Living] : \A i, j \in 1..n : vs[i] = vs[j] => i = j}

Fresh(n)      == CHOOSE vs \in NewVariables(n) : TRUE
CanDeclare(n) == NewVariables(n) # {}

Init ==
  /\ stack        = [s \in Slot |-> NIL]
  /\ stackTop     = 0
  /\ frames       = <<>>
  /\ closures     = <<>>
  /\ upvalues     = <<>>
  /\ openUpvalues = <<>>
  /\ filling      = 0
  /\ global       = UNDEFINED
  /\ ready        = TRUE

----------------------------------------------------------------------------
(* The stack.                                                              *)

push(v) ==
  /\ stackTop < StackMax
  /\ stack'    = [stack EXCEPT ![stackTop] = v]
  /\ stackTop' = stackTop + 1

pop == stackTop' = stackTop - 1 /\ UNCHANGED stack

(* runtimeError, which resets the stack: file mode exits, and the REPL     *)
(* reads the next line.                                                    *)
runtimeError ==
  /\ stackTop'     = 0
  /\ frames'       = <<>>
  /\ openUpvalues' = <<>>
  /\ ready'        = Repl
  /\ UNCHANGED <<stack, closures, upvalues, filling, global>>

(* The current function with the local variables ls.                       *)
WithLocals(ls) ==
  frames' = ReplaceAt(frames, Len(frames), [Frame EXCEPT !.locals = ls])

----------------------------------------------------------------------------
(* Upvalues.                                                               *)

Location(i) == upvalues[openUpvalues[i]].location

Open(v, slot) == [variable |-> v, location |-> slot, closed |-> NIL]

(* Turn of OP_CLOSURE's loop: the next upvalue of the new closure, which   *)
(* is on top of the stack, is u.                                           *)
Fill(u) ==
  /\ closures' = [closures EXCEPT ![peek(0)].upvalues = Append(@, u)]
  /\ filling'  = filling - 1
  /\ UNCHANGED <<stack, stackTop, frames, global, ready>>

(* A function lists a variable that it captures only once.                 *)
CapturedAlready(v) ==
  \E u \in Range(closures[peek(0)].upvalues) : upvalues[u].variable = v

(* Where the loops of captureUpvalue and closeUpvalues stop in the list:   *)
(* the position of the first open upvalue not above, not from, a slot.     *)
FirstNotAbove(slot) ==
  CHOOSE p \in 1..(Len(openUpvalues) + 1) :
    /\ \A i \in 1..(p - 1) : Location(i) > slot
    /\ p <= Len(openUpvalues) => Location(p) <= slot

FirstBelow(slot) ==
  CHOOSE p \in 1..(Len(openUpvalues) + 1) :
    /\ \A i \in 1..(p - 1) : Location(i) >= slot
    /\ p <= Len(openUpvalues) => Location(p) < slot

(* Variant that does not look for an upvalue of the slot.                  *)
captureUpvalueAnew(j) ==
  /\ filling > 0
  /\ j \in DOMAIN Locals /\ Locals[j].isCaptured
  /\ ~CapturedAlready(Locals[j].variable)
  /\ LET slot == Frame.slots + j
         p    == FirstNotAbove(slot)
         new  == Len(upvalues) + 1
     IN  /\ new <= MaxUpvalues
         /\ Fill(new)
         /\ upvalues'     = Append(upvalues, Open(Locals[j].variable, slot))
         /\ openUpvalues' = InsertAt(openUpvalues, p, new)

(* captureUpvalue of local j: the upvalue that is open for its slot, or a  *)
(* new one in its place in the list.  Slot 0 is not among the locals: only *)
(* in a method has it a name to be captured by, this, and methods are left *)
(* to Classes.                                                             *)
captureUpvalue(j) ==
  /\ filling > 0
  /\ j \in DOMAIN Locals /\ Locals[j].isCaptured
  /\ ~CapturedAlready(Locals[j].variable)
  /\ LET slot == Frame.slots + j
         p    == FirstNotAbove(slot)
         new  == Len(upvalues) + 1
     IN  IF p <= Len(openUpvalues) /\ Location(p) = slot
         THEN Fill(openUpvalues[p]) /\ UNCHANGED <<upvalues, openUpvalues>>
         ELSE /\ new <= MaxUpvalues
              /\ Fill(new)
              /\ upvalues'     = Append(upvalues, Open(Locals[j].variable, slot))
              /\ openUpvalues' = InsertAt(openUpvalues, p, new)

(* The other branch of the loop: an upvalue of the running closure.        *)
inheritUpvalue(k) ==
  /\ filling > 0
  /\ k \in DOMAIN UpvaluesOf(Frame.closure)
  /\ LET u == UpvaluesOf(Frame.closure)[k]
     IN  ~CapturedAlready(upvalues[u].variable) /\ Fill(u)
  /\ UNCHANGED <<upvalues, openUpvalues>>

(* The upvalues at the head of the list up to position n take their values *)
(* from the stack and leave the list.                                      *)
CloseFirst(n) ==
  /\ openUpvalues' = SubSeq(openUpvalues, n + 1, Len(openUpvalues))
  /\ upvalues' =
       [u \in DOMAIN upvalues |->
          IF \E i \in 1..n : openUpvalues[i] = u
          THEN [variable |-> upvalues[u].variable,
                location |-> CLOSED,
                closed   |-> stack[upvalues[u].location]]
          ELSE upvalues[u]]

(* Variant that leaves the slot last itself open. *)
closeUpvaluesAbove(last) == CloseFirst(FirstNotAbove(last) - 1)

closeUpvalues(last) == CloseFirst(FirstBelow(last) - 1)

Read(u) ==
  IF upvalues[u].location = CLOSED
  THEN upvalues[u].closed
  ELSE stack[upvalues[u].location]

----------------------------------------------------------------------------
(* Instructions on values and variables.                                   *)

OP_CONSTANT(v) ==
  /\ Running
  /\ push(v)
  /\ UNCHANGED <<frames, heap, global, ready>>

OP_POP ==
  /\ Running
  /\ Operands > 0
  /\ pop
  /\ UNCHANGED <<frames, heap, global, ready>>

OP_GET_LOCAL(j) ==
  /\ Running
  /\ j \in DOMAIN Locals
  /\ push(stack[Frame.slots + j])
  /\ UNCHANGED <<frames, heap, global, ready>>

OP_SET_LOCAL(j) ==
  /\ Running
  /\ j \in DOMAIN Locals
  /\ Operands > 0
  /\ stack' = [stack EXCEPT ![Frame.slots + j] = peek(0)]
  /\ UNCHANGED <<stackTop, frames, heap, global, ready>>

OP_GET_UPVALUE(k) ==
  /\ Running
  /\ k \in DOMAIN UpvaluesOf(Frame.closure)
  /\ push(Read(UpvaluesOf(Frame.closure)[k]))
  /\ UNCHANGED <<frames, heap, global, ready>>

OP_SET_UPVALUE(k) ==
  /\ Running
  /\ k \in DOMAIN UpvaluesOf(Frame.closure)
  /\ Operands > 0
  /\ LET u == UpvaluesOf(Frame.closure)[k]
     IN  IF upvalues[u].location = CLOSED
         THEN /\ upvalues' = [upvalues EXCEPT ![u].closed = peek(0)]
              /\ UNCHANGED stack
         ELSE /\ stack' = [stack EXCEPT ![upvalues[u].location] = peek(0)]
              /\ UNCHANGED upvalues
  /\ UNCHANGED <<stackTop, frames, closures, openUpvalues, filling, global, ready>>

OP_GET_GLOBAL ==
  /\ Running
  /\ IF global = UNDEFINED
     THEN runtimeError
     ELSE push(global) /\ UNCHANGED <<frames, heap, global, ready>>

(* Only outside of any block: elsewhere the declaration is a local one.    *)
OP_DEFINE_GLOBAL ==
  /\ Running
  /\ Len(frames) = 1 /\ Locals = <<>> /\ Operands = 1
  /\ global' = peek(0)
  /\ pop
  /\ UNCHANGED <<frames, heap, ready>>

(* With no such global the entry that tableSet made is deleted again.      *)
OP_SET_GLOBAL ==
  /\ Running
  /\ Operands > 0
  /\ IF global = UNDEFINED
     THEN runtimeError
     ELSE global' = peek(0) /\ UNCHANGED <<stack, stackTop, frames, heap, ready>>

(* Any other instruction that finds an operand of the wrong kind.          *)
WrongOperand ==
  /\ Running
  /\ Operands > 0
  /\ runtimeError

----------------------------------------------------------------------------
(* Scopes.                                                                 *)

(* defineVariable: the value of the initializer stays where it is and is   *)
(* the variable from now on.                                               *)
defineVariable(isCaptured) ==
  /\ Running
  /\ Operands = 1
  /\ CanDeclare(1)
  /\ WithLocals(Append(Locals, Local(Fresh(1)[1], isCaptured)))
  /\ UNCHANGED <<stack, stackTop, heap, global, ready>>

(* endScope takes the last local off, with OP_CLOSE_UPVALUE if a function  *)
(* captures it and with OP_POP if none does.  Parameters stay to the end.  *)
arity(c) == IF c = 0 THEN 0 ELSE closures[c].arity

EndsScope(isCaptured) ==
  /\ Running
  /\ Operands = 0
  /\ Len(Locals) > arity(Frame.closure)
  /\ Last(Locals).isCaptured = isCaptured
  /\ WithLocals(Front(Locals))
  /\ pop
  /\ UNCHANGED <<closures, filling, global, ready>>

(* Variant of endScope that emits OP_POP for every variable.               *)
OP_CLOSE_UPVALUE_NOT ==
  EndsScope(TRUE) /\ UNCHANGED <<upvalues, openUpvalues>>

OP_CLOSE_UPVALUE ==
  /\ EndsScope(TRUE)
  /\ closeUpvalues(stackTop - 1)

(* Variant that pops the value below, too. *)
OP_POP_LOCAL_TWICE ==
  /\ Running
  /\ Operands = 0
  /\ Len(Locals) > arity(Frame.closure)
  /\ ~Last(Locals).isCaptured
  /\ WithLocals(Front(Locals))
  /\ stackTop' = stackTop - 2
  /\ UNCHANGED <<stack, heap, global, ready>>

OP_POP_LOCAL ==
  /\ EndsScope(FALSE)
  /\ UNCHANGED <<upvalues, openUpvalues>>

----------------------------------------------------------------------------
(* Functions.                                                              *)

(* How many variables a function declared here may capture.                *)
Capturable ==
  Cardinality({j \in DOMAIN Locals : Locals[j].isCaptured})
    + Len(UpvaluesOf(Frame.closure))

newClosure(n) ==
  /\ Len(closures) < MaxClosures
  /\ closures' = Append(closures, [arity |-> n, upvalues |-> <<>>])
  /\ push(Len(closures) + 1)

(* A method, or a function whose name is global: its closure is an operand. *)
OP_CLOSURE(n, count) ==
  /\ Running
  /\ count <= Capturable
  /\ newClosure(n)
  /\ filling' = count
  /\ UNCHANGED <<frames, upvalues, openUpvalues, global, ready>>

(* The same instruction for a local function: the slot is a variable that  *)
(* the function may call itself by.                                        *)
OP_CLOSURE_LOCAL(n, count, isCaptured) ==
  /\ Running
  /\ Operands = 0
  /\ CanDeclare(1)
  /\ count <= Capturable + (IF isCaptured THEN 1 ELSE 0)
  /\ newClosure(n)
  /\ filling' = count
  /\ WithLocals(Append(Locals, Local(Fresh(1)[1], isCaptured)))
  /\ UNCHANGED <<upvalues, openUpvalues, global, ready>>

(* callValue and call.                                                     *)
OP_CALL(argCount) ==
  /\ Running
  /\ Operands > argCount
  /\ LET callee == peek(argCount)
         vs     == Fresh(argCount)
     IN  IF callee \in Data \/ arity(callee) # argCount \/ Len(frames) = FramesMax
         THEN runtimeError
         ELSE /\ CanDeclare(argCount)
              /\ frames' = Append(frames,
                   CallFrame(callee, stackTop - argCount - 1,
                             [i \in 1..argCount |-> Local(vs[i], TRUE)]))
              /\ UNCHANGED <<stack, stackTop, heap, global, ready>>

(* Variant that closes only the variables above the first parameter.       *)
OP_RETURN_LATE ==
  /\ Running
  /\ Operands = 1
  /\ Len(frames) > 1
  /\ closeUpvalues(Frame.slots + 2)
  /\ stackTop' = Frame.slots + 1
  /\ stack'    = [stack EXCEPT ![Frame.slots] = peek(0)]
  /\ frames'   = Front(frames)
  /\ UNCHANGED <<closures, filling, global, ready>>

(* The script returns at its end, outside of any block.                    *)
OP_RETURN ==
  /\ Running
  /\ Operands = 1
  /\ closeUpvalues(Frame.slots)
  /\ frames' = Front(frames)
  /\ IF Len(frames) = 1
     THEN /\ Locals = <<>>
          /\ stackTop' = stackTop - 2
          /\ ready'    = Repl
          /\ UNCHANGED stack
     ELSE /\ stackTop' = Frame.slots + 1
          /\ stack'    = [stack EXCEPT ![Frame.slots] = peek(0)]
          /\ UNCHANGED ready
  /\ UNCHANGED <<closures, filling, global>>

(* A new script, compiled without error.                                   *)
interpret ==
  /\ ready
  /\ frames = <<>>
  /\ push(0)
  /\ frames' = <<CallFrame(0, stackTop, <<>>)>>
  /\ ready'  = FALSE
  /\ UNCHANGED <<heap, global>>

----------------------------------------------------------------------------
Instruction ==
  \/ \E v \in Data : OP_CONSTANT(v)
  \/ \E j \in Slot : OP_GET_LOCAL(j) \/ OP_SET_LOCAL(j) \/ captureUpvalue(j)
  \/ \E k \in 1..MaxUpvalues :
       OP_GET_UPVALUE(k) \/ OP_SET_UPVALUE(k) \/ inheritUpvalue(k)
  \/ OP_POP \/ OP_GET_GLOBAL \/ OP_DEFINE_GLOBAL \/ OP_SET_GLOBAL \/ WrongOperand
  \/ \E isCaptured \in BOOLEAN : defineVariable(isCaptured)
  \/ OP_CLOSE_UPVALUE \/ OP_POP_LOCAL
  \/ \E n \in 0..MaxArity, count \in 0..MaxUpvalues :
       \/ OP_CLOSURE(n, count)
       \/ \E isCaptured \in BOOLEAN : OP_CLOSURE_LOCAL(n, count, isCaptured)
  \/ \E argCount \in 0..MaxArity : OP_CALL(argCount)
  \/ OP_RETURN

Next == interpret \/ Instruction

Spec == Init /\ [][Next]_vars

----------------------------------------------------------------------------
(* Properties.                                                             *)

(* Every variable has its C type; frames lie on the stack one above the    *)
(* other, each with its locals, and the open list holds open upvalues.     *)
TypeOK ==
  /\ stack \in [Slot -> Data \cup 0..Len(closures)]
  /\ stackTop \in 0..StackMax
  /\ Len(frames) <= FramesMax
  /\ \A i \in DOMAIN frames :
       /\ frames[i].closure \in 0..Len(closures)
       /\ \A j \in DOMAIN frames[i].locals : frames[i].locals[j].variable \in Variable
       /\ frames[i].slots + Len(frames[i].locals) <
            IF i = Len(frames) THEN stackTop ELSE frames[i + 1].slots
  /\ \A c \in DOMAIN closures :
       /\ closures[c].arity \in 0..MaxArity
       /\ Range(closures[c].upvalues) \subseteq DOMAIN upvalues
  /\ \A u \in DOMAIN upvalues :
       /\ upvalues[u].variable \in Variable
       /\ upvalues[u].location \in Slot \cup {CLOSED}
       /\ upvalues[u].closed \in Data \cup 1..Len(closures)
  /\ \A i \in DOMAIN openUpvalues :
       /\ openUpvalues[i] \in DOMAIN upvalues
       /\ Location(i) \in Slot
  /\ filling \in 0..MaxUpvalues
  /\ global \in Data \cup 1..Len(closures) \cup {UNDEFINED}
  /\ ready \in BOOLEAN

(* Functions that capture the same variable share one upvalue, and the     *)
(* open ones are listed by slot from the top down: captureUpvalue finds    *)
(* the one to share, and closeUpvalues the ones to close, only because of  *)
(* this order.                                                             *)
OneUpvaluePerVariable ==
  /\ \A u, w \in DOMAIN upvalues : upvalues[u].variable = upvalues[w].variable => u = w
  /\ \A i, j \in DOMAIN openUpvalues : i < j => Location(i) > Location(j)

(* While a program runs, an upvalue that is not closed is listed, and the  *)
(* slot that it points at is still the variable it stands for: whichever   *)
(* way a variable goes - scope end, return from inside of a block - the    *)
(* functions that captured it have its value by then.                      *)
OpenUpvaluesAreLocals ==
  frames # <<>> =>
    \A u \in DOMAIN upvalues : upvalues[u].location # CLOSED =>
      /\ u \in Range(openUpvalues)
      /\ \E f \in Range(frames) : \E j \in DOMAIN f.locals :
           /\ f.slots + j = upvalues[u].location
           /\ f.locals[j].variable = upvalues[u].variable

(* A function that the global names still closes over its variables: none  *)
(* of its upvalues points at a slot that another variable has taken over.  *)
(* The test closure/reuse_closure_slot.lox says so of a variable that is   *)
(* out of scope.                                                           *)
StillClosesOver ==
  \A c \in DOMAIN closures : global = c =>
    \A u \in Range(closures[c].upvalues) : \A f \in Range(frames) :
      \A j \in DOMAIN f.locals :
        f.slots + j = upvalues[u].location =>
          f.locals[j].variable = upvalues[u].variable

(* What the stack and the upvalues stand for.                              *)
ScopeOf(i) ==
  LET f   == frames[i]
      end == IF i = Len(frames) THEN stackTop ELSE frames[i + 1].slots
  IN  [function |-> f.closure,
       vars     |-> [j \in DOMAIN f.locals |-> f.locals[j].variable],
       operands |-> [n \in 1..(end - Base(f) - Len(f.locals)) |->
                       stack[f.slots + Len(f.locals) + n]]]

ValueOf(v) ==
  IF \E f \in Range(frames) : v \in LocalsOf(f)
  THEN LET f == CHOOSE f \in Range(frames) : v \in LocalsOf(f)
           j == CHOOSE j \in DOMAIN f.locals : f.locals[j].variable = v
       IN  stack[f.slots + j]
  ELSE Read(CHOOSE u \in DOMAIN upvalues : upvalues[u].variable = v)

Scopes   == [i \in DOMAIN frames |-> ScopeOf(i)]
Contents == [v \in Living |-> ValueOf(v)]
Captures ==
  [c \in DOMAIN closures |->
     [arity    |-> closures[c].arity,
      captured |-> [k \in DOMAIN closures[c].upvalues |->
                      upvalues[closures[c].upvalues[k]].variable]]]

Variables ==
  INSTANCE Lexical WITH scopes <- Scopes, store <- Contents, functions <- Captures

(* Slots, upvalues and their closing are invisible: every program sees     *)
(* variables that live as long as anything can name them, each with the    *)
(* value it was last given, from whichever function.                       *)
ImplementsLexical == Variables!Spec
=============================================================================
