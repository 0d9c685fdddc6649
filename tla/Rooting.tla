------------------------------ MODULE Rooting -------------------------------
(***************************************************************************)
(* Every function of object.c, vm.c, compiler.c, chunk.c and value.c that  *)
(* asks for memory, with the C variables that hold objects meanwhile.      *)
(*                                                                         *)
(* The collector runs before any allocation and frees what markRoots()     *)
(* does not lead to; a C variable is no root.  That each function keeps    *)
(* what it goes on to use in a root is its own duty, and the collector's   *)
(* assumption (module Collector).                                          *)
(*                                                                         *)
(* A function is the sequence of steps it takes: allocations, pushes and   *)
(* pops, stores.  todo is what is left of the functions on the C stack.    *)
(* Between them the compiler or the machine begins what the program says.  *)
(*                                                                         *)
(* main.c goes on in the REPL after any line, one that ended in a runtime  *)
(* error included: the stack is empty then and no upvalue is on the list,  *)
(* but the heap and the globals are what they were.                        *)
(***************************************************************************)
EXTENDS Integers, FiniteSets, SequencesExt

CONSTANTS
  Programs,    \* sequences of what may begin next: sets of actions
  MaxUpvalues  \* bound of the upvalues of a function

ASSUME RootingAssumption ==
  MaxUpvalues \in Nat /\ \A p \in Programs : p \in Seq(SUBSET STRING)

VARIABLES
  heap,          \* objects by address: type, and references by field
  strings,       \* vm.strings
  stack,         \* vm.stack below stackTop; 0 is a value that is no object
  frames,        \* vm.frames: closure and index of slots[0]
  openUpvalues,  \* location and address of each
  abandoned,     \* those that an error dropped open: what is in their slots
  globals,       \* vm.globals
  compilers,     \* the function of each compiler, the current one last
  initString,    \* vm.initString
  locals,        \* the C variables whose values are still wanted
  todo,          \* steps left of the functions on the C stack
  program,       \* what begins after them
  strayed        \* history: an instruction read such a slot above stackTop

machine == <<stack, abandoned, frames, openUpvalues, globals, compilers, initString>>
vars    == <<heap, strings, machine, locals, todo, program, strayed>>

----------------------------------------------------------------------------
(* The heap.                                                               *)

Empty == [a \in {} |-> 0]

(* A field is a name with an index or, in a table, with the key, which is  *)
(* a string and a reference as well.                                       *)
Tables == {"methods", "fields"}
Keys(object) == {field[2] : field \in {f \in DOMAIN object.refs : f[1] \in Tables}}
References(object) == (Range(object.refs) \cup Keys(object)) \ {0}

Ref(a, name, key)    == heap[a].refs[<<name, key>>]
Has(a, name, key)    == a # 0 /\ <<name, key>> \in DOMAIN heap[a].refs
KeysOf(a, name)      == {f[2] : f \in {f \in DOMAIN heap[a].refs : f[1] = name}}
Is(a, type)          == a # 0 /\ heap[a].type = type
With(f, x, y)        == [z \in DOMAIN f \cup {x} |-> IF z = x THEN y ELSE f[z]]
Linked(a, name, key, b) ==
  [heap EXCEPT ![a].refs = With(heap[a].refs, <<name, key>>, b)]

(* markRoots and markCompilerRoots.                                        *)
Roots ==
  (ToSet(stack) \cup {f.closure : f \in ToSet(frames)} \cup {u.at : u \in openUpvalues}
     \cup DOMAIN globals \cup Range(globals) \cup ToSet(compilers) \cup {initString})
  \ {0}

(* traceReferences.                                                        *)
Traced[marked \in SUBSET Nat] ==
  LET next == marked \cup UNION {References(heap[a]) : a \in marked \cap DOMAIN heap}
  IN  IF next = marked THEN marked ELSE Traced[next]
Reachable == Traced[Roots]

----------------------------------------------------------------------------
(* The steps.  of are the C variables that a step reads, gets the one that *)
(* it gives a value; a new object is in the variable named for its type.   *)

Step(do, of, gets) ==
  [do |-> do, of |-> of, gets |-> gets, name |-> "", n |-> 0, otherwise |-> <<>>]

Array               == Step("array", <<>>, "")
Allocate(type, of)  == Step("allocate", of, type)
Push(v)             == Step("push", <<v>>, "")
Pop                 == Step("pop", <<>>, "")
Peek(n, v)          == [Step("peek", <<>>, v) EXCEPT !.n = n]
Poke(n, v)          == [Step("poke", <<v>>, "") EXCEPT !.n = n]
Call(v, argCount)   == [Step("call", <<v>>, "") EXCEPT !.n = argCount]
Read(of)            == Step("read", of, "")
SetGlobal(k, v)     == Step("global", <<k, v>>, "")
SetEntry(o, table, k, v) == [Step("entry", <<o, k, v>>, "") EXCEPT !.name = table]

(* The C variables whose values the steps need.                            *)
Wanted(steps) ==
  {v \in UNION {ToSet(step.of) : step \in ToSet(steps)} :
     \E i \in DOMAIN steps : /\ v \in ToSet(steps[i].of)
                             /\ \A j \in 1..(i - 1) : steps[j].gets # v}

----------------------------------------------------------------------------
(* The functions.                                                          *)

allocateString ==
  <<Allocate("string", <<>>), Push("string"), Array,
    Step("intern", <<"string">>, ""), Pop>>

(* tableFindString may find a string that only vm.strings refers to.       *)
FindOr(steps) == [Step("find", <<>>, "string") EXCEPT !.otherwise = steps]
copyString    == <<FindOr(<<Array>> \o allocateString)>>
takeString    == <<FindOr(allocateString)>>

newClosure == <<Array, Allocate("closure", <<"function">>)>>

defineNative ==
  copyString \o
  <<Push("string"), Allocate("native", <<>>), Push("native"), Peek(1, "name"),
    Peek(0, "value"), Array, SetGlobal("name", "value"), Pop, Pop>>

initVM == copyString \o <<Step("initString", <<"string">>, "")>> \o defineNative

addConstant(v) == <<Push(v), Array, Step("constant", <<v>>, ""), Pop>>
emitByte       == <<Array>>

initCompiler(type) ==
  <<Allocate("function", <<>>), Step("current", <<"function">>, "")>> \o
  (IF type = "script" THEN <<>> ELSE copyString \o <<Step("name", <<"string">>, "")>>)

endCompiler == emitByte \o <<Step("end", <<>>, "function")>>

(* The end of compile() and the rest of interpret().                       *)
execute ==
  endCompiler \o <<Push("function")>> \o newClosure \o
  <<Pop, Push("closure"), Call("closure", 0)>>

(* concatenate reads the characters of both operands.                      *)
concatenate ==
  <<Array, Read(<<"a", "b">>)>> \o takeString \o
  <<Pop, Pop, Push("string")>>

\* Variant: the receiver is popped into a C variable.
bindMethodPopped ==
  <<Pop, Allocate("bound", <<"receiver", "method">>), Push("bound")>>

bindMethod == <<Allocate("bound", <<"receiver", "method">>), Pop, Push("bound")>>

(* callValue() of a class.                                                 *)
instantiate(argCount) ==
  <<Allocate("instance", <<"class">>), Poke(argCount, "instance"),
    [Step("initialize", <<"class">>, "") EXCEPT !.n = argCount]>>

(* The loop of OP_CLOSURE over the pairs of isLocal and index.  The        *)
(* neighbours in the list of open upvalues, which captureUpvalue holds     *)
(* while it allocates, are roots.                                          *)
captureUpvalue(slot) ==
  [Step("capture", <<>>, "upvalue") EXCEPT
     !.n = slot,
     !.otherwise = <<Allocate("upvalue", <<>>),
                     [Step("open", <<"upvalue">>, "") EXCEPT !.n = slot]>>]

inheritUpvalue(index) == [Step("inherit", <<>>, "upvalue") EXCEPT !.n = index]

fill(captures) ==
  [k \in 1..(2 * Len(captures)) |->
     LET i == (k + 1) \div 2
     IN  IF k % 2 = 0 THEN [Step("upvalue", <<"closure", "upvalue">>, "") EXCEPT !.n = i]
         ELSE IF captures[i].isLocal THEN captureUpvalue(captures[i].index)
         ELSE inheritUpvalue(captures[i].index)]

tableAddAll(keys) ==
  [k \in 1..(2 * Cardinality(keys)) |->
     IF k % 2 = 1 THEN Array
     ELSE [Step("copy", <<"superclass", "subclass">>, "") EXCEPT
             !.n = SetToSeq(keys)[k \div 2]]]

----------------------------------------------------------------------------
(* What the steps do.                                                      *)

first  == Head(todo)
At(k)  == locals[first.of[k]]
Top(n) == stack[Len(stack) - n]

Continue(values, steps) ==
  /\ todo'   = steps
  /\ locals' = [v \in Wanted(steps) |-> values[v]]

Goes         == Continue(locals, Tail(todo))
GoesWith(a)  == Continue(With(locals, first.gets, a), Tail(todo))
Doing(steps) == todo # <<>> /\ first.do \in steps /\ UNCHANGED <<program, strayed>>

(* reallocate() and allocateObject().                                      *)
collectGarbage ==
  /\ Doing({"array", "allocate"})
  /\ heap'    = Restrict(heap, Reachable \cap DOMAIN heap)
  /\ strings' = strings \cap Reachable
  /\ abandoned' = {u \in abandoned : u.at \in Reachable}
  /\ UNCHANGED <<stack, frames, openUpvalues, globals, compilers, initString, locals,
                 todo>>

enlarge == Doing({"array", "read"}) /\ Goes /\ UNCHANGED <<heap, strings, machine>>

allocateObject ==
  /\ Doing({"allocate"})
  /\ LET a == Min((1..(Cardinality(DOMAIN heap) + 1)) \ DOMAIN heap)
     IN  /\ heap' = With(heap, a, [type |-> first.gets,
                       refs |-> [f \in ToSet(first.of) \X {0} |-> locals[f[1]]]])
         /\ GoesWith(a)
  /\ UNCHANGED <<strings, machine>>

find ==
  /\ Doing({"find"})
  /\ \/ \E s \in strings : GoesWith(s)
     \/ Continue(locals, first.otherwise \o Tail(todo))
  /\ UNCHANGED <<heap, strings, machine>>

intern ==
  /\ Doing({"intern"}) /\ Goes
  /\ strings' = strings \cup {At(1)}
  /\ UNCHANGED <<heap, machine>>

(* A slot keeps its value when stackTop moves below it.                    *)
remain ==
  abandoned' = {IF u.location \in DOMAIN stack'
                THEN [u EXCEPT !.value = stack'[u.location]] ELSE u : u \in abandoned}

moveStack ==
  /\ \/ Doing({"push"}) /\ stack' = Append(stack, At(1)) /\ Goes
     \/ Doing({"pop"}) /\ stack' = Front(stack) /\ Goes
     \/ Doing({"poke"}) /\ stack' = [stack EXCEPT ![Len(stack) - first.n] = At(1)] /\ Goes
     \/ /\ Doing({"native"}) /\ Goes
        /\ stack' = Append(SubSeq(stack, 1, Len(stack) - first.n - 1), 0)
     \/ Doing({"peek"}) /\ UNCHANGED stack /\ GoesWith(Top(first.n))
  /\ remain
  /\ UNCHANGED <<heap, strings, frames, openUpvalues, globals, compilers, initString>>

setRoot ==
  /\ \/ Doing({"global"}) /\ globals' = With(globals, At(1), At(2))
        /\ UNCHANGED <<compilers, initString>>
     \/ Doing({"initString"}) /\ initString' = At(1) /\ UNCHANGED <<globals, compilers>>
     \/ Doing({"current"}) /\ compilers' = Append(compilers, At(1))
        /\ UNCHANGED <<globals, initString>>
  /\ Goes
  /\ UNCHANGED <<heap, strings, stack, abandoned, frames, openUpvalues>>

endCurrent ==
  /\ Doing({"end"})
  /\ compilers' = Front(compilers) /\ GoesWith(Last(compilers))
  /\ UNCHANGED <<heap, strings, stack, abandoned, frames, openUpvalues, globals,
                 initString>>

function == Last(compilers)

setReference ==
  /\ \/ Doing({"name"})     /\ heap' = Linked(function, "name", 0, At(1))
     \/ Doing({"constant"})
        /\ heap' = Linked(function, "constants",
                           Cardinality(KeysOf(function, "constants")), At(1))
     \/ Doing({"entry"})    /\ heap' = Linked(At(1), first.name, At(2), At(3))
     \/ Doing({"copy"})
        /\ heap' = Linked(At(2), "methods", first.n, Ref(At(1), "methods", first.n))
     \/ Doing({"upvalue"})  /\ heap' = Linked(At(1), "upvalues", first.n, At(2))
  /\ Goes
  /\ UNCHANGED <<strings, machine>>

upvalueStep ==
  /\ \/ Doing({"capture"}) /\ UNCHANGED openUpvalues
        /\ \/ \E u \in openUpvalues : u.location = first.n /\ GoesWith(u.at)
           \/ /\ \A u \in openUpvalues : u.location # first.n
              /\ Continue(locals, first.otherwise \o Tail(todo))
     \/ Doing({"inherit"}) /\ GoesWith(Ref(Last(frames).closure, "upvalues", first.n))
        /\ UNCHANGED openUpvalues
     \/ Doing({"open"}) /\ Goes
        /\ openUpvalues' = openUpvalues \cup {[location |-> first.n, at |-> At(1)]}
  /\ UNCHANGED <<heap, strings, stack, abandoned, frames, globals, compilers, initString>>

(* resetStack() closes no upvalue: what is still open goes on to point     *)
(* into the array of the stack.  The functions on the C stack return up to *)
(* main(), and in the REPL the next line may begin.                        *)
runtimeError ==
  /\ stack' = <<>> /\ frames' = <<>> /\ openUpvalues' = {}
  /\ abandoned' = abandoned \cup
       {[at |-> u.at, location |-> u.location, value |-> stack[u.location]] :
          u \in openUpvalues}
  /\ Continue(Empty, <<>>)
  /\ UNCHANGED <<heap, strings, globals, compilers, initString>>

Enter(closure, argCount) ==
  /\ frames' = Append(frames, [closure |-> closure, slots |-> Len(stack) - argCount])
  /\ Goes
  /\ UNCHANGED <<heap, strings, stack, abandoned, openUpvalues, globals, compilers,
                 initString>>

call ==
  \/ Doing({"call"}) /\ Enter(At(1), first.n)
  \/ Doing({"call"}) /\ frames # <<>> /\ runtimeError
  \/ Doing({"error"}) /\ runtimeError
  \/ /\ Doing({"initialize"})
     /\ \/ Has(At(1), "methods", initString)
           /\ (Enter(Ref(At(1), "methods", initString), first.n) \/ runtimeError)
        \/ ~Has(At(1), "methods", initString) /\ first.n # 0 /\ runtimeError
        \/ /\ ~Has(At(1), "methods", initString) /\ first.n = 0
           /\ Goes /\ UNCHANGED <<heap, strings, machine>>

----------------------------------------------------------------------------
(* What begins between the steps, if the program says so.                  *)

Starts(action) ==
  /\ todo = <<>> /\ program # <<>>
  /\ action \in Head(program) /\ program' = Tail(program)

Begins(action) == Starts(action) /\ UNCHANGED strayed

Begin(values, steps) ==
  Continue(values, steps) /\ UNCHANGED <<heap, strings, machine>>

(* The beginning of interpret() and compile().                             *)
interpret ==
  /\ Begins("interpret") /\ frames = <<>> /\ compilers = <<>>
  /\ Begin(Empty, initCompiler("script"))

(* identifierConstant() or string(), and the code that names the constant. *)
stringConstant ==
  /\ Begins("string") /\ compilers # <<>>
  /\ Begin(Empty, copyString \o addConstant("string") \o emitByte)

beginFunction ==
  /\ Begins("function") /\ compilers # <<>>
  /\ Begin(Empty, initCompiler("function"))

(* The number of its upvalues is read while the code grows by them.        *)
endFunction ==
  /\ Begins("end function") /\ Len(compilers) > 1
  /\ Begin(Empty, endCompiler \o addConstant("function") \o emitByte
                   \o <<Read(<<"function">>)>>)

endCompile ==
  /\ Begins("run") /\ Len(compilers) = 1
  /\ Begin(Empty, execute)

endInError ==
  /\ Begins("error") /\ Len(compilers) = 1
  /\ Begin(Empty, endCompiler)

(* run(): each instruction that allocates, and of the others what brings   *)
(* objects to where those find them.  Of the errors there are those that   *)
(* come after an allocation or in a call.                                  *)
frame == Last(frames)

(* The n values on top of the stack, which an instruction takes away, are  *)
(* operands: not slots[0], nor variables that an upvalue refers to.        *)
Operands(n) ==
  /\ frames # <<>> /\ Len(stack) - n >= frame.slots
  /\ \A u \in openUpvalues : u.location <= Len(stack) - n

fn              == Ref(frame.closure, "function", 0)
Constants(type) == {c \in {Ref(fn, "constants", i) : i \in KeysOf(fn, "constants")} :
                      Is(c, type)}
Names           == Constants("string")
Upvalues        == {Ref(frame.closure, "upvalues", i) :
                      i \in KeysOf(frame.closure, "upvalues")}

(* *upvalue->location.  The slot of an abandoned one may be in use again.  *)
Dropped(u)  == CHOOSE dropped \in abandoned : dropped.at = u
IsOpen(u)   == \E open \in openUpvalues : open.at = u
HasValue(u) == Has(u, "closed", 0)
InStack(u)  == Dropped(u).location \in DOMAIN stack
ValueOf(u) ==
  IF IsOpen(u) THEN stack[(CHOOSE open \in openUpvalues : open.at = u).location]
  ELSE IF HasValue(u) THEN Ref(u, "closed", 0)
  ELSE IF InStack(u) THEN stack[Dropped(u).location]
  ELSE Dropped(u).value
IsRooted(u) == IsOpen(u) \/ HasValue(u) \/ InStack(u)
Reads(u)    == strayed' = (strayed \/ ~IsRooted(u))

(* OP_CONSTANT, OP_NIL, OP_GET_LOCAL, OP_GET_GLOBAL, OP_GET_UPVALUE.       *)
pushValue ==
  /\ Starts("pushValue") /\ frames # <<>>
  /\ \/ /\ \E value \in Names \cup {0} \cup ToSet(SubSeq(stack, frame.slots, Len(stack)))
                          \cup {globals[k] : k \in Names \cap DOMAIN globals} :
             stack' = Append(stack, value)
        /\ UNCHANGED strayed
     \/ \E u \in Upvalues : Reads(u) /\ stack' = Append(stack, ValueOf(u))
  /\ remain
  /\ UNCHANGED <<heap, strings, frames, openUpvalues, globals, compilers, initString,
                 locals, todo>>

OP_POP ==
  /\ Begins("OP_POP") /\ Operands(1)
  /\ stack' = Front(stack) /\ remain
  /\ UNCHANGED <<heap, strings, frames, openUpvalues, globals, compilers, initString,
                 locals, todo>>

OP_DEFINE_GLOBAL ==
  /\ Begins("OP_DEFINE_GLOBAL") /\ Operands(1)
  /\ \E name \in Names :
       Begin([name |-> name, value |-> Top(0)],
             <<Array, SetGlobal("name", "value"), Pop>>)

(* A global that is not defined: the new entry goes again.                 *)
OP_SET_GLOBAL ==
  /\ Begins("OP_SET_GLOBAL") /\ Operands(1)
  /\ \E name \in Names :
       Begin([name |-> name, value |-> Top(0)],
             <<Array>> \o IF name \in DOMAIN globals THEN <<SetGlobal("name", "value")>>
                          ELSE <<Step("error", <<"name", "value">>, "")>>)

OP_ADD ==
  /\ Begins("OP_ADD") /\ Operands(2) /\ Is(Top(0), "string") /\ Is(Top(1), "string")
  /\ Begin([a |-> Top(1), b |-> Top(0)], concatenate)

OP_GET_PROPERTY ==
  /\ Begins("OP_GET_PROPERTY") /\ Operands(1) /\ Is(Top(0), "instance")
  /\ LET class == Ref(Top(0), "class", 0)
     IN  \E name \in Names :
           \/ /\ Has(Top(0), "fields", name)
              /\ stack' = Append(Front(stack), Ref(Top(0), "fields", name)) /\ remain
              /\ UNCHANGED <<heap, strings, frames, openUpvalues, globals, compilers,
                             initString, locals, todo>>
           \/ /\ ~Has(Top(0), "fields", name) /\ Has(class, "methods", name)
              /\ Begin([receiver |-> Top(0), method |-> Ref(class, "methods", name)],
                       bindMethod)

OP_SET_PROPERTY ==
  /\ Begins("OP_SET_PROPERTY") /\ Operands(2) /\ Is(Top(1), "instance")
  /\ \E name \in Names :
       Begin([instance |-> Top(1), name |-> name, value |-> Top(0)],
             <<Array, SetEntry("instance", "fields", "name", "value"),
               Peek(0, "value"), Pop, Pop, Push("value")>>)

(* The superclass comes from a variable that the method captured; it is    *)
(* off the stack again when bindMethod allocates.                          *)
OP_GET_SUPER ==
  /\ Starts("OP_GET_SUPER") /\ Operands(1) /\ Is(Top(0), "instance")
  /\ \E name \in Names, u \in Upvalues :
       LET superclass == ValueOf(u)
       IN  /\ Reads(u) /\ Is(superclass, "class") /\ Has(superclass, "methods", name)
           /\ Begin([receiver |-> Top(0), method |-> Ref(superclass, "methods", name)],
                    bindMethod)

callValue(callee, argCount, before) ==
  /\ callee # 0
  /\ Begin([v \in {"callee", "class", "receiver", "method"} |->
              IF v \in {"callee", "class"} THEN callee
              ELSE IF Has(callee, v, 0) THEN Ref(callee, v, 0) ELSE 0],
           before \o
           CASE heap[callee].type = "closure" -> <<Call("callee", argCount)>>
             [] heap[callee].type = "class"   -> instantiate(argCount)
             [] heap[callee].type = "bound"   -> <<Poke(argCount, "receiver"),
                                                   Call("method", argCount)>>
             [] heap[callee].type = "native"  -> <<[Step("native", <<>>, "") EXCEPT
                                                      !.n = argCount]>>
             [] OTHER                         -> <<Step("error", <<>>, "")>>)

OP_CALL ==
  /\ Begins("OP_CALL")
  /\ \E argCount \in 0..1 :
       Operands(argCount + 1) /\ callValue(Top(argCount), argCount, <<>>)

OP_INVOKE ==
  /\ Begins("OP_INVOKE")
  /\ \E argCount \in 0..1 :
       /\ Operands(argCount + 1) /\ Is(Top(argCount), "instance")
       /\ \E name \in Names :
            LET receiver == Top(argCount)
                class    == Ref(receiver, "class", 0)
            IN  \/ /\ Has(receiver, "fields", name)
                   /\ callValue(Ref(receiver, "fields", name), argCount,
                                <<Poke(argCount, "callee")>>)
                \/ /\ ~Has(receiver, "fields", name) /\ Has(class, "methods", name)
                   /\ Begin([method |-> Ref(class, "methods", name)],
                            <<Call("method", argCount)>>)

(* The closure is on the stack when it captures: a local function that     *)
(* names itself captures the slot of its own closure.                      *)
Captures ==
  [isLocal : {TRUE},  index : frame.slots..(Len(stack) + 1)] \cup
  [isLocal : {FALSE}, index : KeysOf(frame.closure, "upvalues")]

OP_CLOSURE ==
  /\ Begins("OP_CLOSURE") /\ frames # <<>>
  /\ \E f \in Constants("function"), n \in 0..MaxUpvalues :
       \E captures \in [1..n -> Captures] :
         /\ \A i, j \in 1..n : captures[i] = captures[j] => i = j
         /\ Begin([function |-> f],
                  newClosure \o <<Push("closure")>> \o fill(captures))

Closed(from) ==
  [a \in DOMAIN heap |->
     IF \E u \in openUpvalues : u.at = a /\ u.location >= from
     THEN [heap[a] EXCEPT !.refs = With(@, <<"closed", 0>>, ValueOf(a))]
     ELSE heap[a]]

closeUpvalues(from) ==
  /\ heap' = Closed(from)
  /\ openUpvalues' = {u \in openUpvalues : u.location < from}

OP_CLOSE_UPVALUE ==
  /\ Begins("OP_CLOSE_UPVALUE") /\ frames # <<>> /\ Len(stack) > frame.slots
  /\ closeUpvalues(Len(stack))
  /\ stack' = Front(stack) /\ remain
  /\ UNCHANGED <<strings, frames, globals, compilers, initString, locals, todo>>

OP_RETURN ==
  /\ Begins("OP_RETURN") /\ Operands(1)
  /\ closeUpvalues(frame.slots)
  /\ frames' = Front(frames)
  /\ stack'  = IF Len(frames) = 1 THEN <<>>
               ELSE Append(SubSeq(stack, 1, frame.slots - 1), Top(0))
  /\ remain
  /\ UNCHANGED <<strings, globals, compilers, initString, locals, todo>>

OP_CLASS ==
  /\ Begins("OP_CLASS") /\ frames # <<>>
  /\ \E name \in Names :
       Begin([name |-> name], <<Allocate("class", <<"name">>), Push("class")>>)

OP_INHERIT ==
  /\ Begins("OP_INHERIT") /\ Operands(1) /\ Len(stack) > frame.slots + 1
  /\ Is(Top(0), "class") /\ Is(Top(1), "class") /\ Top(0) # Top(1)
  /\ Begin([superclass |-> Top(1), subclass |-> Top(0)],
           tableAddAll(KeysOf(Top(1), "methods")) \o <<Pop>>)

OP_METHOD ==
  /\ Begins("OP_METHOD") /\ Operands(1) /\ Len(stack) > 1
  /\ Is(Top(0), "closure") /\ Is(Top(1), "class")
  /\ \E name \in Names :
       Begin([class |-> Top(1), name |-> name, method |-> Top(0)],
             <<Array, SetEntry("class", "methods", "name", "method"), Pop>>)

(* The other errors, of an operand or of a name: nothing was allocated.    *)
operandError == Begins("fail") /\ frames # <<>> /\ runtimeError

----------------------------------------------------------------------------
Init ==
  /\ heap = Empty /\ strings = {} /\ stack = <<>> /\ frames = <<>>
  /\ openUpvalues = {} /\ globals = Empty /\ compilers = <<>> /\ initString = 0
  /\ locals = Empty /\ todo = initVM /\ abandoned = {} /\ strayed = FALSE
  /\ program \in Programs

Next ==
  \/ collectGarbage \/ enlarge \/ allocateObject \/ find \/ intern \/ moveStack
  \/ setRoot \/ endCurrent \/ setReference \/ upvalueStep \/ call
  \/ interpret \/ stringConstant \/ beginFunction \/ endFunction \/ endCompile
  \/ endInError \/ pushValue \/ OP_POP \/ OP_DEFINE_GLOBAL \/ OP_SET_GLOBAL \/ OP_ADD
  \/ OP_GET_PROPERTY \/ OP_SET_PROPERTY \/ OP_GET_SUPER \/ OP_CALL \/ OP_INVOKE
  \/ OP_CLOSURE \/ OP_CLOSE_UPVALUE \/ OP_RETURN \/ OP_CLASS \/ OP_INHERIT \/ OP_METHOD
  \/ operandError

Spec == Init /\ [][Next]_vars

----------------------------------------------------------------------------
(* No function goes on to use an object that was collected in the midst of *)
(* it, and no variable of the machine or of the compiler, no object and no *)
(* table is left with a reference to one: what reallocate() may free is    *)
(* nothing that is still needed.  One way to a freed object there is, and  *)
(* it is left out: OP_GET_UPVALUE on a line after a runtime error, through *)
(* an upvalue that resetStack() left open and whose slot is above stackTop *)
(* now, where markRoots() does not look.                                   *)
NothingUsedIsFreed ==
  \/ strayed
  \/ /\ Range(locals) \cup ToSet(stack) \cup {f.closure : f \in ToSet(frames)}
           \cup {u.at : u \in openUpvalues} \cup DOMAIN globals \cup Range(globals)
           \cup ToSet(compilers) \cup {initString} \cup strings
           \subseteq DOMAIN heap \cup {0}
     /\ \A a \in DOMAIN heap : \A field \in DOMAIN heap[a].refs :
          /\ heap[a].refs[field] \in DOMAIN heap \cup {0}
          /\ field[1] \in Tables => field[2] \in DOMAIN heap
=============================================================================
