------------------------------ MODULE Classes ------------------------------
(***************************************************************************)
(* Classes, instances and calls of methods as vm.c and object.c execute    *)
(* them: a table of methods for each class, into which the superclass's    *)
(* was copied, and one stack, of which each frame sees a part.             *)
(*                                                                         *)
(* The code being run is any that the compiler makes: operands in any      *)
(* order, and class declarations as classDeclaration() lays them out, with *)
(* the superclass in a variable, super, that the methods capture.          *)
(***************************************************************************)
EXTENDS Values

CONSTANTS
  FRAMES_MAX,
  MaxClasses, MaxInstances, MaxOperands  \* bounds of the model

ASSUME ClassesAssumption ==
  FRAMES_MAX \in Nat \ {0} /\ {MaxClasses, MaxInstances, MaxOperands} \subseteq Nat

VARIABLES
  methods,    \* the table of each class
  super,      \* the superclass in the variable super of each class, or 0
  own,        \* history: the methods that each class declares
  declaring,  \* the class whose declaration is being executed, or 0
  instances,  \* klass and fields of each instance
  stack,      \* vm.stack
  frames      \* vm.frames: closure, and the index of slots[0] in the stack

vars == <<methods, super, own, declaring, instances, stack, frames>>

frame    == Last(frames)
peek(n)  == stack[Len(stack) - n]
this     == stack[frame.slots]
Locals   == IF declaring # 0 /\ super[declaring] # 0 THEN 1 ELSE 0  \* super
Operands == Len(stack) - frame.slots - ArityOf(frame.closure)

Push(s, v) == Append(s, v)

\* Variant: the frames of the script that failed stay.
interpretOnTop ==
  /\ stack' = <<Script>>
  /\ frames' = Append(frames, [closure |-> Script.method, slots |-> 1])
  /\ declaring' = 0

(* runtimeError resets the stack.  A script that has ended, in this way or *)
(* by its return, is followed by the next one that is interpreted.         *)
interpret ==
  /\ stack' = <<Script>>
  /\ frames' = <<[closure |-> Script.method, slots |-> 1]>>
  /\ declaring' = 0

runtimeError == interpret /\ UNCHANGED instances

(* The result of tableGet.                                                 *)
FindMethod(c, name) == IF c = 0 THEN NoMethod ELSE methods[c][name]

---------------------------------------------------------------------------
(* Calls.  s is the stack, with n arguments on top of what is called.      *)

call(closure, s, n) ==
  IF n # ArityOf(closure) \/ Len(frames) = FRAMES_MAX THEN runtimeError
  ELSE /\ stack' = s
       /\ frames' = Append(frames, [closure |-> closure, slots |-> Len(s) - n])
       /\ UNCHANGED <<declaring, instances>>

\* Variant: argument 0 instead of what is below the arguments.
Slot0Above(s, n, v) == [s EXCEPT ![Len(s) - n + 1] = v]

Slot0(s, n, v) == [s EXCEPT ![Len(s) - n] = v]

callValue(callee, s, n) ==
  LET new == Len(instances) + 1
      initializer == FindMethod(callee.id, init)
      made == Slot0(s, n, Instance(new))
  IN  CASE callee.kind = "bound"   -> call(callee.method, Slot0(s, n, callee.receiver), n)
        [] callee.kind = "closure" -> call(callee.method, s, n)
        [] callee.kind = "class"   ->
             LET runs == initializer # NoMethod
                 fails == \/ n # IF runs THEN ArityOf(initializer) ELSE 0
                          \/ runs /\ Len(frames) = FRAMES_MAX
             IN  /\ new <= MaxInstances
                 /\ IF fails THEN runtimeError
                    ELSE /\ stack' = made
                         /\ frames' = IF ~runs THEN frames
                              ELSE Append(frames, [closure |-> initializer,
                                                   slots |-> Len(s) - n])
                         /\ instances' = Append(instances, [klass |-> callee.id,
                                                            fields |-> NoFields])
                         /\ UNCHANGED declaring
        [] OTHER -> runtimeError

invokeFromClass(c, name, s, n) ==
  IF FindMethod(c, name) = NoMethod THEN runtimeError
  ELSE call(FindMethod(c, name), s, n)

\* Variant: a call looks for a method before it looks for a field.
invokeMethodFirst(name, n) ==
  LET receiver == peek(n)
      field == instances[receiver.id].fields[name]
      klass == instances[receiver.id].klass
  IN  IF receiver.kind # "instance" THEN runtimeError
      ELSE IF FindMethod(klass, name) = NoMethod /\ field # None
      THEN callValue(field, Slot0(stack, n, field), n)
      ELSE invokeFromClass(klass, name, stack, n)

invoke(name, n) ==
  LET receiver == peek(n)
      field == instances[receiver.id].fields[name]
  IN  IF receiver.kind # "instance" THEN runtimeError
      ELSE IF field # None THEN callValue(field, Slot0(stack, n, field), n)
      ELSE invokeFromClass(instances[receiver.id].klass, name, stack, n)

bindMethod(c, name, s) ==
  IF FindMethod(c, name) = NoMethod THEN runtimeError
  ELSE /\ stack' = Push(Drop(s, 1), Bound(Last(s), FindMethod(c, name)))
       /\ UNCHANGED <<declaring, instances, frames>>

---------------------------------------------------------------------------
(* Class declarations.                                                     *)

NoClass == UNCHANGED <<methods, super, own>>
Running == declaring = 0 /\ NoClass

(* OP_CLASS, and the definition of the variable that names the class.      *)
class ==
  /\ declaring = 0 /\ Operands = 0 /\ Len(methods) < MaxClasses
  /\ methods' = Append(methods, NoMethods)
  /\ super' = Append(super, 0) /\ own' = Append(own, NoMethods)
  /\ declaring' = Len(methods) + 1
  /\ UNCHANGED <<instances, stack, frames>>

tableAddAll(from, to) ==
  [name \in Names |-> IF from[name] # NoMethod THEN from[name] ELSE to[name]]

\* Variant: the superclass's methods are copied after the class's own.
inheritLate(v) ==
  /\ declaring # 0 /\ super[declaring] = 0
  /\ IF v.kind = "class"
     THEN /\ v.id # declaring
          /\ methods' = [methods EXCEPT
                          ![declaring] = tableAddAll(methods[v.id], @)]
          /\ super' = [super EXCEPT ![declaring] = v.id]
          /\ stack' = Push(stack, v)
          /\ UNCHANGED <<declaring, instances, frames>>
     ELSE runtimeError /\ UNCHANGED <<methods, super>>
  /\ UNCHANGED own

(* OP_INHERIT.  The superclass may be any value of a variable but the      *)
(* class itself, which the compiler refuses.  It remains, as the variable  *)
(* super.  The methods come after it.                                      *)
inherit(v) ==
  /\ declaring # 0 /\ super[declaring] = 0 /\ own[declaring] = NoMethods
  /\ IF v.kind = "class"
     THEN /\ v.id # declaring
          /\ methods' = [methods EXCEPT
                          ![declaring] = tableAddAll(methods[v.id], @)]
          /\ super' = [super EXCEPT ![declaring] = v.id]
          /\ stack' = Push(stack, v)
          /\ UNCHANGED <<declaring, instances, frames>>
     ELSE runtimeError /\ UNCHANGED <<methods, super>>
  /\ UNCHANGED own

(* OP_METHOD: defineMethod.                                                *)
method(name) ==
  /\ declaring # 0
  /\ methods' = [methods EXCEPT ![declaring][name] = Method(declaring, name)]
  /\ own' = [own EXCEPT ![declaring][name] = Method(declaring, name)]
  /\ UNCHANGED <<super, declaring, instances, stack, frames>>

endClass ==
  /\ declaring # 0 /\ declaring' = 0
  /\ stack' = IF super[declaring] # 0 THEN Drop(stack, 1) ELSE stack
  /\ NoClass /\ UNCHANGED <<instances, frames>>

---------------------------------------------------------------------------
(* Instructions of expressions and statements.                             *)

(* A variable's value: a class, an instance or a function; or this.        *)
variable ==
  /\ Running /\ Operands < MaxOperands
  /\ \E v \in {nil, Function} \cup {this : m \in {frame.closure.class} \ {0}}
                \cup {Class(c) : c \in DOMAIN methods}
                \cup {Instance(i) : i \in DOMAIN instances} : stack' = Push(stack, v)
  /\ UNCHANGED <<declaring, instances, frames>>

pop ==
  /\ Running /\ Operands > 0
  /\ stack' = Drop(stack, 1)
  /\ UNCHANGED <<declaring, instances, frames>>

getProperty(name) ==
  LET object == instances[peek(0).id]
  IN  /\ Running /\ Operands > 0
      /\ IF peek(0).kind # "instance" THEN runtimeError
         ELSE IF object.fields[name] # None
         THEN /\ stack' = Push(Drop(stack, 1), object.fields[name])
              /\ UNCHANGED <<declaring, instances, frames>>
         ELSE bindMethod(object.klass, name, stack)

setProperty(name) ==
  /\ Running /\ Operands > 1
  /\ IF peek(1).kind # "instance" THEN runtimeError
     ELSE /\ instances' = [instances EXCEPT ![peek(1).id].fields[name] = peek(0)]
          /\ stack' = Push(Drop(stack, 2), peek(0))
          /\ UNCHANGED <<declaring, frames>>

(* super_ of the compiler: this, the arguments, and then the variable      *)
(* super, which is taken from the stack again before the method is found.  *)
InSubclass == frame.closure.class # 0 /\ super[frame.closure.class] # 0

getSuper(name) ==
  /\ Running /\ Operands > 0 /\ InSubclass /\ peek(0) = this
  /\ bindMethod(super[frame.closure.class], name, stack)

superInvoke(name, n) ==
  /\ Running /\ Operands > n /\ InSubclass /\ peek(n) = this
  /\ invokeFromClass(super[frame.closure.class], name, stack, n)

invokesName(name, n) == Running /\ Operands > n /\ invoke(name, n)
callsValue(n)        == Running /\ Operands > n /\ callValue(peek(n), stack, n)

(* In an initializer the compiler returns this in any case.                *)
return ==
  /\ Running
  /\ LET value == IF frame.closure.class # 0 /\ frame.closure.name = init
                  THEN this ELSE IF Operands > 0 THEN peek(0) ELSE nil
     IN  IF Len(frames) = 1 THEN interpret /\ UNCHANGED instances
         ELSE /\ stack' = Push(SubSeq(stack, 1, frame.slots - 1), value)
              /\ frames' = Front(frames)
              /\ UNCHANGED <<declaring, instances>>

---------------------------------------------------------------------------
Init ==
  /\ methods = <<>> /\ super = <<>> /\ own = <<>> /\ instances = <<>>
  /\ declaring = 0 /\ stack = <<Script>>
  /\ frames = <<[closure |-> Script.method, slots |-> 1]>>

Next ==
  \/ class \/ endClass \/ variable \/ pop \/ return
  \/ \E v \in {nil} \cup {Class(c) : c \in DOMAIN methods} : inherit(v)
  \/ \E name \in Names :
       method(name) \/ getProperty(name) \/ setProperty(name) \/ getSuper(name)
  \/ \E name \in Names, n \in 0..(MaxOperands - 1) :
       invokesName(name, n) \/ superInvoke(name, n)
  \/ \E n \in 0..(MaxOperands - 1) : callsValue(n)

Spec == Init /\ [][Next]_vars

---------------------------------------------------------------------------
(* Properties.                                                             *)

Closures == {Script.method, Function.method}
              \cup {Method(c, name) : c \in DOMAIN methods, name \in Names}

TypeOK ==
  /\ methods \in Seq([Names -> Closures \cup {NoMethod}])
  /\ super \in Seq(0..Len(methods)) /\ Len(super) = Len(methods)
  /\ own \in Seq([Names -> Closures \cup {NoMethod}]) /\ Len(own) = Len(methods)
  /\ declaring \in 0..Len(methods)
  /\ \A i \in DOMAIN instances : instances[i].klass \in DOMAIN methods
  /\ frames \in Seq([closure : Closures, slots : DOMAIN stack]) /\ frames # <<>>

(* A class has the methods it declares, and all the others of its          *)
(* superclass, although they were copied once, when it was declared.       *)
InheritsMethods ==
  \A c \in DOMAIN methods : \A name \in Names :
    methods[c][name] = IF own[c][name] # NoMethod THEN own[c][name]
                       ELSE FindMethod(super[c], name)

Ancestry[c \in 0..Len(super)] == IF c = 0 THEN {} ELSE {c} \cup Ancestry[super[c]]

(* Whichever way a method came to be called, by name, bound, from a field  *)
(* or from a superclass, its slot 0 holds an instance of its class or of a *)
(* subclass: the compiler takes slot 0 for this, and super for granted.    *)
ThisIsAnInstance ==
  \A i \in DOMAIN frames :
    LET c == frames[i].closure.class
        v == stack[frames[i].slots]
    IN  c # 0 => v.kind = "instance" /\ c \in Ancestry[instances[v.id].klass]

(* The objects and the calls, each with its part of the stack.             *)
Heap == [i \in DOMAIN instances |-> [class  |-> instances[i].klass,
                                     fields |-> instances[i].fields]]

Calls ==
  [i \in DOMAIN frames |->
    [method |-> frames[i].closure,
     this   |-> stack[frames[i].slots],
     values |-> SubSeq(stack, frames[i].slots + 1,
                       IF i = Len(frames) THEN Len(stack) - Locals
                       ELSE frames[i + 1].slots - 1)]]

Promise ==
  INSTANCE Objects WITH
    MaxCalls <- FRAMES_MAX, parent <- super, instances <- Heap, calls <- Calls

(* A method is found along the chain of superclasses, a call of a property *)
(* is a call of its value, and every call has its own this and operands.   *)
DispatchesAsPromised == Promise!Spec
=============================================================================
