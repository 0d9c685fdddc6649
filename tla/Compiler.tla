------------------------------ MODULE Compiler ------------------------------
(***************************************************************************)
(* The one-pass compiler of compiler.c: parser, scopes and code.           *)
(*                                                                         *)
(* The functions of the source call each other recursively.  Here todo is  *)
(* what is left to do of every function on the C stack, the innermost      *)
(* first: an item names a function, or a point in one at which it goes on, *)
(* with its C locals.  A step takes the first item and puts in its place   *)
(* what that function does next.                                           *)
(*                                                                         *)
(* A token is its lexeme.  The source text is open: of a kind of text it   *)
(* is known which tokens may stand at each place, and the one that does is *)
(* chosen when the parser scans it.                                        *)
(***************************************************************************)
EXTENDS Instructions

CONSTANTS
  Names,     \* the tokens that are identifiers, "init" perhaps among them
  ByteMax,   \* UINT8_MAX: limit of constants, slots, upvalues, arguments
  Texts      \* kinds of text: the tokens possible at each place

ASSUME CompilerAssumption ==
  /\ ByteMax \in Nat \ {0}
  /\ Names \subseteq STRING
  /\ \A t \in Texts : t \in Seq(SUBSET STRING)

VARIABLES
  text,       \* the kind of text that is compiled
  source,     \* the tokens scanned so far
  parser,     \* as in the source
  compilers,  \* the chain that starts at current, which is the last one
  classes,    \* the chain of ClassCompilers: hasSuperclass of each
  todo,       \* what the active functions have still to do
  made        \* the function that endCompiler returned last

vars == <<text, source, parser, compilers, classes, todo, made>>

Keywords == {"class", "fun", "var", "for", "if", "while", "print", "return"}
UINT8_COUNT == ByteMax + 1
UINT16_MAX  == UINT8_COUNT * UINT8_COUNT - 1

current == Last(compilers)
Put(c)  == [compilers EXCEPT ![Len(compilers)] = c]

---------------------------------------------------------------------------
(* Tokens and errors.                                                      *)

Check(kind) == IF kind = "identifier" THEN parser.current \in Names
                                      ELSE parser.current = kind

errorAt(p) ==
  IF p.panicMode THEN p ELSE [p EXCEPT !.panicMode = TRUE, !.hadError = TRUE]

ErrorIf(wrong, p) == IF wrong THEN errorAt(p) ELSE p

(* What the scanner comes upon next: a token, after an error token ("?")   *)
(* perhaps, or the end of the text, at which it stays.                     *)
Scans ==
  LET Possible(k) == IF k <= Len(text) THEN text[k] ELSE {"eof"}
      place == Len(source) + 1
      Tokens(k) == Possible(k) \ {"?"}
  IN  IF source # <<>> /\ Last(source) = "eof" THEN {<<>>}
      ELSE {<<t>> : t \in Tokens(place)} \cup
           (IF "?" \in Possible(place) THEN {<<"?", t>> : t \in Tokens(place + 1)}
                                       ELSE {})

advance(wrong) ==
  \E new \in Scans :
    LET p == ErrorIf(Len(new) > 1, parser)
    IN  /\ parser' = ErrorIf(wrong,
                       [p EXCEPT !.previous = parser.current,
                                 !.current  = Last(<<"eof">> \o new)])
        /\ source' = source \o new

Stay(wrong) == parser' = ErrorIf(wrong, parser) /\ UNCHANGED source

Do(items) == todo' = items \o Tail(todo)
Doing(f)  == todo # <<>> /\ todo[1][1] = f

Match(kind, wrong, yes, no) ==
  IF Check(kind) THEN advance(wrong) /\ Do(yes) ELSE Stay(wrong) /\ Do(no)

---------------------------------------------------------------------------
(* Code and constants of a compiler c.                                     *)

Emit(c, bytes) == [c EXCEPT !.code = @ \o bytes]
Byte(n)        == Operand(n % UINT8_COUNT)

Constant(name)  == [name |-> name, upvalueCount |-> 0]
AddConstant(c, value) == [c EXCEPT !.constants = Append(@, value)]
\* Variant: the number of constants is not limited.
TooManyConstantsNever(c) == FALSE

TooManyConstants(c)   == Len(c.constants) > ByteMax
NextConstant(c) == IF TooManyConstants(c) THEN 0 ELSE Len(c.constants)

emitJump(c, op) == Emit(c, <<Opcode(op), Byte(ByteMax), Byte(ByteMax)>>)
JumpFrom(c)     == Len(c.code) + 1

\* Variant: the distance is counted from the first byte of the operand.
DistanceFromOperand(c, from) == Len(c.code) - from

Distance(c, from) == Len(c.code) - from - 2
patchJump(c, from) ==
  LET jump == Distance(c, from)
  IN  [c EXCEPT !.code[from + 1] = Byte(jump \div UINT8_COUNT),
                !.code[from + 2] = Byte(jump)]

BackTo(c, start) == Len(c.code) - start + 3
emitLoop(c, start) ==
  LET offset == BackTo(c, start)
  IN  Emit(c, <<Opcode("LOOP"), Byte(offset \div UINT8_COUNT), Byte(offset)>>)

emitReturn(c) ==
  IF c.type = "initializer"
  THEN Emit(c, <<Opcode("GET_LOCAL"), Byte(0), Opcode("RETURN")>>)
  ELSE Emit(c, <<Opcode("NIL"), Opcode("RETURN")>>)

---------------------------------------------------------------------------
(* Scopes.                                                                 *)

initCompiler(type) ==
  [type |-> type, arity |-> 0, scopeDepth |-> 0,
   locals |-> <<[name  |-> IF type = "function" THEN "" ELSE "this",
                 depth |-> 0, isCaptured |-> FALSE]>>,
   upvalues |-> <<>>, code |-> <<>>, constants |-> <<>>]

beginScope(c) == [c EXCEPT !.scopeDepth = @ + 1]

\* Variant: the end of a scope pops the locals that a function captured.
endScopePopping(c) ==
  LET depth == c.scopeDepth - 1
      keep  == SelectLastInSeq(c.locals, LAMBDA l : l.depth <= depth)
      Pop   == [i \in 1..(Len(c.locals) - keep) |-> Opcode("POP")]
  IN  [Emit(c, Pop) EXCEPT !.scopeDepth = depth,
                           !.locals = SubSeq(@, 1, keep)]

endScope(c) ==
  LET depth == c.scopeDepth - 1
      keep  == SelectLastInSeq(c.locals, LAMBDA l : l.depth <= depth)
      Drop  == [i \in 1..(Len(c.locals) - keep) |->
                  IF c.locals[Len(c.locals) + 1 - i].isCaptured
                  THEN Opcode("CLOSE_UPVALUE") ELSE Opcode("POP")]
  IN  [Emit(c, Drop) EXCEPT !.scopeDepth = depth,
                            !.locals = SubSeq(@, 1, keep)]

\* Variant: one local more than there are slots is let in.
TooManyLocalsLate(c) == Len(c.locals) > UINT8_COUNT

TooManyLocals(c) == Len(c.locals) = UINT8_COUNT
addLocal(c, name) ==
  IF TooManyLocals(c) THEN c
  ELSE [c EXCEPT !.locals =
          Append(@, [name |-> name, depth |-> -1, isCaptured |-> FALSE])]

(* The search for a redeclaration ends below the innermost scope.          *)
Redeclared(c, name) ==
  LET scope == SelectLastInSeq(c.locals, LAMBDA l :
                 l.depth # -1 /\ l.depth < c.scopeDepth)
  IN  \E i \in (scope + 1)..Len(c.locals) : c.locals[i].name = name

declareVariable(c, name) == IF c.scopeDepth = 0 THEN c ELSE addLocal(c, name)
CannotDeclare(c, name) ==
  c.scopeDepth > 0 /\ (Redeclared(c, name) \/ TooManyLocals(c))

markInitialized(c) ==
  IF c.scopeDepth = 0 THEN c
  ELSE [c EXCEPT !.locals[Len(c.locals)].depth = c.scopeDepth]

defineVariable(c, global) ==
  IF c.scopeDepth > 0 THEN markInitialized(c)
  ELSE Emit(c, <<Opcode("DEFINE_GLOBAL"), Byte(global)>>)

resolveLocal(c, name) ==
  SelectLastInSeq(c.locals, LAMBDA l : l.name = name) - 1

\* Variant: upvalues are told apart by their index alone.
SameIndex(up, old) == up.index = old.index

SameUpvalue(up, old) == up = old

(* Compiler number k gets an upvalue for slot or upvalue `index` of the    *)
(* compiler around it, unless it has it already.                           *)
addUpvalue(found, k) ==
  LET c   == found.compilers[k]
      up  == [index   |-> found.arg % UINT8_COUNT,
              isLocal |-> k = found.level + 1]
      old == SelectInSeq(c.upvalues, LAMBDA u : SameUpvalue(up, u))
      full == Len(c.upvalues) = UINT8_COUNT
  IN  IF old # 0 THEN [found EXCEPT !.arg = old - 1]
      ELSE IF full THEN [found EXCEPT !.arg = 0, !.wrong = TRUE]
      ELSE [found EXCEPT !.arg = Len(c.upvalues),
                         !.compilers[k].upvalues = Append(@, up)]

(* From the compiler whose local it is to compiler number n, each one gets *)
(* an upvalue for that of the one around it.                               *)
resolveUpvalue(base, n) ==
  LET chain[k \in base.level..n] ==
        IF k = base.level THEN base ELSE addUpvalue(chain[k - 1], k)
  IN  chain[n]

(* resolveLocal, else resolveUpvalue, else a global: the instructions that *)
(* read and assign the variable, and the compilers with the upvalues that  *)
(* it takes to reach it.                                                   *)
Resolve(name) ==
  LET n     == Len(compilers)
      level == SelectLastInSeq(compilers, LAMBDA c : resolveLocal(c, name) # -1)
      slot  == resolveLocal(compilers[level], name)
      own   == compilers[level].locals[slot + 1].depth = -1
      base  == [arg |-> slot, level |-> level, wrong |-> own,
                compilers |-> [compilers EXCEPT
                                 ![level].locals[slot + 1].isCaptured = TRUE]]
      found == resolveUpvalue(base, n)
  IN  CASE level = 0 ->
             [get |-> "GET_GLOBAL", set |-> "SET_GLOBAL",
              arg |-> NextConstant(current), wrong |-> TooManyConstants(current),
              compilers |-> Put(AddConstant(current, Constant(name)))]
        [] level = n ->
             [get |-> "GET_LOCAL", set |-> "SET_LOCAL", arg |-> slot,
              wrong |-> own, compilers |-> compilers]
        [] OTHER ->
             [get |-> "GET_UPVALUE", set |-> "SET_UPVALUE", arg |-> found.arg,
              wrong |-> found.wrong, compilers |-> found.compilers]

---------------------------------------------------------------------------
(* Items of todo.                                                          *)

expression      == <<"parsePrecedence", 1>>
Consume(kind)   == <<"consume", kind>>
Emits(op)       == <<"emit", <<Opcode(op)>> >>
EmitsArg(op, n) == <<"emit", <<Opcode(op), Byte(n)>> >>
Name(name, canAssign) == <<"namedVariable", name, canAssign>>

expressionStatement == <<expression, Consume(";"), Emits("POP")>>
varDeclaration == <<Consume("identifier"), <<"varDeclaration">> >>
funDeclaration == <<Consume("identifier"), <<"funDeclaration">> >>

(* The rules table.  Precedences: 1 assignment, 2 or, 3 and, 4 equality,   *)
(* 5 comparison, 6 term, 7 factor, 8 unary, 9 call.                        *)
Binary ==
  [t \in {"!=", "==", ">", ">=", "<", "<=", "+", "-", "*", "/"} |->
     CASE t = "!=" -> <<4, <<"EQUAL", "NOT">> >>
       [] t = "==" -> <<4, <<"EQUAL">> >>
       [] t = ">"  -> <<5, <<"GREATER">> >>
       [] t = ">=" -> <<5, <<"LESS", "NOT">> >>
       [] t = "<"  -> <<5, <<"LESS">> >>
       [] t = "<=" -> <<5, <<"GREATER", "NOT">> >>
       [] t = "+"  -> <<6, <<"ADD">> >>
       [] t = "-"  -> <<6, <<"SUBTRACT">> >>
       [] t = "*"  -> <<7, <<"MULTIPLY">> >>
       [] t = "/"  -> <<7, <<"DIVIDE">> >>]

Precedence(t) ==
  CASE t \in {"(", "."}      -> 9
    [] t \in DOMAIN Binary   -> Binary[t][1]
    [] t = "and"             -> 3
    [] t = "or"              -> 2
    [] OTHER                 -> 0

Literal == [t \in {"nil", "true", "false"} |->
              CASE t = "nil" -> "NIL" [] t = "true" -> "TRUE" [] OTHER -> "FALSE"]

PrefixTokens == Names \cup {"(", "-", "!", "number", "string", "this", "super"}
                  \cup DOMAIN Literal

PrefixRule(t, canAssign) ==
  CASE t = "("             -> <<expression, Consume(")")>>
    [] t = "-"             -> <<<<"parsePrecedence", 8>>, Emits("NEGATE")>>
    [] t = "!"             -> <<<<"parsePrecedence", 8>>, Emits("NOT")>>
    [] t \in DOMAIN Literal -> <<Emits(Literal[t])>>
    [] t \in {"number", "string"} -> <<<<"constant">>>>
    [] t = "this"          -> <<<<"this_">>>>
    [] t = "super"         -> <<<<"super_">>>>
    [] OTHER               -> <<Name(t, canAssign)>>

\* Variant: a binary operator takes a right operand of its own precedence.
BinaryRightAssociative(t) ==
  <<<<"parsePrecedence", Binary[t][1]>>,
    <<"emit", [i \in 1..Len(Binary[t][2]) |-> Opcode(Binary[t][2][i])]>> >>

BinaryRule(t) ==
  <<<<"parsePrecedence", Binary[t][1] + 1>>,
    <<"emit", [i \in 1..Len(Binary[t][2]) |-> Opcode(Binary[t][2][i])]>> >>

InfixRule(t, canAssign) ==
  CASE t = "("   -> <<<<"argumentList", <<"CALL">> >> >>
    [] t = "."   -> <<Consume("identifier"), <<"dot", canAssign>> >>
    [] t = "and" -> <<<<"and_">>>>
    [] t = "or"  -> <<<<"or_">>>>
    [] OTHER     -> BinaryRule(t)

---------------------------------------------------------------------------
(* Expressions.                                                            *)

consume ==
  /\ Doing("consume")
  /\ IF Check(todo[1][2]) THEN advance(FALSE) ELSE Stay(TRUE)
  /\ Do(<<>>)
  /\ UNCHANGED <<text, compilers, classes, made>>

emit ==
  /\ Doing("emit")
  /\ compilers' = Put(Emit(current, todo[1][2]))
  /\ Do(<<>>)
  /\ UNCHANGED <<text, source, parser, classes, made>>

(* The token that comes after advance() is what the prefix rule is for.    *)
parsePrecedence ==
  /\ Doing("parsePrecedence")
  /\ LET first == parser.current
         precedence == todo[1][2]
     IN  IF first \in PrefixTokens
         THEN advance(FALSE) /\ Do(PrefixRule(first, precedence <= 1)
                                     \o <<<<"infix", precedence>>>>)
         ELSE advance(TRUE) /\ Do(<<>>)
  /\ UNCHANGED <<text, compilers, classes, made>>

infix ==
  /\ Doing("infix")
  /\ LET t == parser.current
         precedence == todo[1][2]
     IN  IF precedence <= Precedence(t)
         THEN advance(FALSE)
              /\ Do(InfixRule(t, precedence <= 1) \o <<<<"infix", precedence>>>>)
         ELSE IF precedence <= 1 /\ t = "="
              THEN advance(TRUE) /\ Do(<<>>)
              ELSE Stay(FALSE) /\ Do(<<>>)
  /\ UNCHANGED <<text, compilers, classes, made>>

(* number and string.                                                      *)
constant ==
  /\ Doing("constant")
  /\ compilers' = Put(AddConstant(current, Constant(parser.previous)))
  /\ Stay(TooManyConstants(current))
  /\ Do(<<EmitsArg("CONSTANT", NextConstant(current))>>)
  /\ UNCHANGED <<text, classes, made>>

namedVariable ==
  /\ Doing("namedVariable")
  /\ LET r == Resolve(todo[1][2])
     IN  /\ compilers' = r.compilers
         /\ IF todo[1][3] /\ Check("=")
            THEN advance(r.wrong) /\ Do(<<expression, EmitsArg(r.set, r.arg)>>)
            ELSE Stay(r.wrong) /\ Do(<<EmitsArg(r.get, r.arg)>>)
  /\ UNCHANGED <<text, classes, made>>

and_ ==
  /\ Doing("and_")
  /\ LET c == emitJump(current, "JUMP_IF_FALSE")
     IN  /\ compilers' = Put(Emit(c, <<Opcode("POP")>>))
         /\ Do(<<<<"parsePrecedence", 3>>, <<"patchJump", JumpFrom(current)>>>>)
  /\ UNCHANGED <<text, source, parser, classes, made>>

or_ ==
  /\ Doing("or_")
  /\ LET else == emitJump(current, "JUMP_IF_FALSE")
         end  == emitJump(else, "JUMP")
         c    == Emit(patchJump(end, JumpFrom(current)), <<Opcode("POP")>>)
     IN  /\ compilers' = Put(c)
         /\ Stay(Distance(end, JumpFrom(current)) > UINT16_MAX)
         /\ Do(<<<<"parsePrecedence", 2>>, <<"patchJump", JumpFrom(else)>>>>)
  /\ UNCHANGED <<text, classes, made>>

\* Variant: a jump may be of any length.
endJumpUnchecked ==
  /\ Doing("patchJump")
  /\ compilers' = Put(patchJump(current, todo[1][2]))
  /\ Stay(FALSE)
  /\ Do(<<>>)
  /\ UNCHANGED <<text, classes, made>>

endJump ==
  /\ Doing("patchJump")
  /\ compilers' = Put(patchJump(current, todo[1][2]))
  /\ Stay(Distance(current, todo[1][2]) > UINT16_MAX)
  /\ Do(<<>>)
  /\ UNCHANGED <<text, classes, made>>

(* What is emitted after the arguments has the count as its last operand.  *)
Call(after, argCount) ==
  LET invocation == <<"emit", <<Opcode(after[1])>> \o
         [i \in 1..(Len(after) - 1) |-> Byte(after[i + 1])] \o <<Byte(argCount)>> >>
  IN  <<Consume(")")>> \o
      (IF after[1] = "SUPER_INVOKE" THEN <<Name("super", FALSE)>> ELSE <<>>) \o
      <<invocation>>

argumentList ==
  /\ Doing("argumentList")
  /\ LET after == todo[1][2]
     IN  IF Check(")") THEN Do(Call(after, 0))
         ELSE Do(<<expression, <<"argument", after, 0>>>>)
  /\ UNCHANGED <<text, source, parser, compilers, classes, made>>

argument ==
  /\ Doing("argument")
  /\ LET after == todo[1][2]
         argCount == (todo[1][3] + 1) % UINT8_COUNT
     IN  Match(",", todo[1][3] = ByteMax,
               <<expression, <<"argument", after, argCount>>>>,
               Call(after, argCount))
  /\ UNCHANGED <<text, compilers, classes, made>>

dot ==
  /\ Doing("dot")
  /\ LET name == NextConstant(current)
         full == TooManyConstants(current)
     IN  /\ compilers' = Put(AddConstant(current, Constant(parser.previous)))
         /\ IF todo[1][2] /\ Check("=")
            THEN advance(full) /\ Do(<<expression, EmitsArg("SET_PROPERTY", name)>>)
            ELSE Match("(", full, <<<<"argumentList", <<"INVOKE", name>> >> >>,
                       <<EmitsArg("GET_PROPERTY", name)>>)
  /\ UNCHANGED <<text, classes, made>>

this_ ==
  /\ Doing("this_")
  /\ Stay(classes = <<>>)
  /\ Do(IF classes = <<>> THEN <<>> ELSE <<Name("this", FALSE)>>)
  /\ UNCHANGED <<text, compilers, classes, made>>

super_ ==
  /\ Doing("super_")
  /\ Stay(classes = <<>> \/ ~Last(<<FALSE>> \o classes))
  /\ Do(<<Consume("."), Consume("identifier"), <<"superName">>>>)
  /\ UNCHANGED <<text, compilers, classes, made>>

superName ==
  /\ Doing("superName")
  /\ compilers' = Put(AddConstant(current, Constant(parser.previous)))
  /\ Stay(TooManyConstants(current))
  /\ Do(<<Name("this", FALSE), <<"superCall", NextConstant(current)>>>>)
  /\ UNCHANGED <<text, classes, made>>

superCall ==
  /\ Doing("superCall")
  /\ LET name == todo[1][2]
     IN  Match("(", FALSE, <<<<"argumentList", <<"SUPER_INVOKE", name>> >> >>,
               <<Name("super", FALSE), EmitsArg("GET_SUPER", name)>>)
  /\ UNCHANGED <<text, compilers, classes, made>>

---------------------------------------------------------------------------
(* Declarations.                                                           *)

(* parseVariable, after its consume: the compiler with the variable in it, *)
(* the constant that names a global, and whether something was wrong.      *)
ParsedVariable(c, name) ==
  IF c.scopeDepth > 0
  THEN [compiler |-> declareVariable(c, name), global |-> 0,
        wrong |-> CannotDeclare(c, name)]
  ELSE [compiler |-> AddConstant(c, Constant(name)), global |-> NextConstant(c),
        wrong |-> TooManyConstants(c)]

variableDeclaration ==
  /\ Doing("varDeclaration")
  /\ LET v == ParsedVariable(current, parser.previous)
         end == <<Consume(";"), <<"defineVariable", v.global>>>>
     IN  /\ compilers' = Put(v.compiler)
         /\ Match("=", v.wrong, <<expression>> \o end, <<Emits("NIL")>> \o end)
  /\ UNCHANGED <<text, classes, made>>

defineAfter ==
  /\ Doing("defineVariable")
  /\ compilers' = Put(defineVariable(current, todo[1][2]))
  /\ Do(<<>>)
  /\ UNCHANGED <<text, source, parser, classes, made>>

(* The name of a function is initialized before its body.                  *)
functionDeclaration ==
  /\ Doing("funDeclaration")
  /\ LET v == ParsedVariable(current, parser.previous)
     IN  /\ compilers' = Put(markInitialized(v.compiler))
         /\ Stay(v.wrong)
         /\ Do(<<<<"function", "function">>, <<"defineVariable", v.global>>>>)
  /\ UNCHANGED <<text, classes, made>>

function ==
  /\ Doing("function")
  /\ compilers' = Append(compilers, beginScope(initCompiler(todo[1][2])))
  /\ Do(<<Consume("("), <<"parameterList">> >>)
  /\ UNCHANGED <<text, source, parser, classes, made>>

body == <<Consume(")"), Consume("{"), <<"block">>, <<"endFunction">> >>

parameterList ==
  /\ Doing("parameterList")
  /\ Do(IF Check(")") THEN body ELSE <<<<"parameter">>>>)
  /\ UNCHANGED <<text, source, parser, compilers, classes, made>>

parameter ==
  /\ Doing("parameter")
  /\ compilers' = Put([current EXCEPT !.arity = @ + 1])
  /\ Stay(current.arity >= ByteMax)
  /\ Do(<<Consume("identifier"), <<"parameterName">>>>)
  /\ UNCHANGED <<text, classes, made>>

parameterName ==
  /\ Doing("parameterName")
  /\ LET v == ParsedVariable(current, parser.previous)
     IN  /\ compilers' = Put(markInitialized(v.compiler))
         /\ Match(",", v.wrong, <<<<"parameter">>>>, body)
  /\ UNCHANGED <<text, classes, made>>

(* endCompiler, and the closure in the code of the enclosing function.     *)
endFunction ==
  /\ Doing("endFunction")
  /\ LET done == emitReturn(current)
         n    == Len(compilers) - 1
         c    == compilers[n]
         up(i) == done.upvalues[(i + 1) \div 2]
         pairs == [i \in 1..(2 * Len(done.upvalues)) |->
                     IF i % 2 = 0 THEN Byte(up(i).index)
                     ELSE Byte(IF up(i).isLocal THEN 1 ELSE 0)]
         with == AddConstant(c, [name |-> "", upvalueCount |-> Len(done.upvalues)])
     IN  /\ made' = done
         /\ compilers' = Append(SubSeq(compilers, 1, n - 1),
              Emit(with, <<Opcode("CLOSURE"), Byte(NextConstant(c))>> \o pairs))
         /\ Stay(TooManyConstants(c))
  /\ Do(<<>>)
  /\ UNCHANGED <<text, classes>>

(* The class is stored before its superclass, if any, is evaluated.        *)
className ==
  /\ Doing("class")
  /\ LET name == parser.previous
         k == NextConstant(current)
         c == declareVariable(AddConstant(current, Constant(name)), name)
         stored == defineVariable(Emit(c, <<Opcode("CLASS"), Byte(k)>>), k)
     IN  /\ compilers' = Put(stored)
         /\ classes' = Append(classes, FALSE)
         /\ Match("<", TooManyConstants(current) \/ CannotDeclare(current, name),
                  <<Consume("identifier"), <<"superclass", name>>>>,
                  <<<<"classBody", name>>>>)
  /\ UNCHANGED <<text, made>>

superclass ==
  /\ Doing("superclass")
  /\ Do(<<Name(parser.previous, FALSE), <<"inherit", todo[1][2]>>>>)
  /\ UNCHANGED <<text, source, parser, compilers, classes, made>>

inheritFrom ==
  /\ Doing("inherit")
  /\ LET name == todo[1][2]
         c == beginScope(current)
     IN  /\ compilers' = Put(markInitialized(addLocal(c, "super")))
         /\ classes' = [classes EXCEPT ![Len(classes)] = TRUE]
         /\ Stay(name = parser.previous \/ TooManyLocals(c))
         /\ Do(<<Name(name, FALSE), Emits("INHERIT"), <<"classBody", name>>>>)
  /\ UNCHANGED <<text, made>>

classBody ==
  /\ Doing("classBody")
  /\ Do(<<Name(todo[1][2], FALSE), Consume("{"), <<"methods">>, Consume("}"),
          Emits("POP"), <<"endClass">>>>)
  /\ UNCHANGED <<text, source, parser, compilers, classes, made>>

methods ==
  /\ Doing("methods")
  /\ Do(IF Check("}") \/ Check("eof") THEN <<>>
        ELSE <<Consume("identifier"), <<"method">>, <<"methods">>>>)
  /\ UNCHANGED <<text, source, parser, compilers, classes, made>>

method ==
  /\ Doing("method")
  /\ LET name == parser.previous
         type == IF name = "init" THEN "initializer" ELSE "method"
     IN  /\ compilers' = Put(AddConstant(current, Constant(name)))
         /\ Do(<<<<"function", type>>, EmitsArg("METHOD", NextConstant(current))>>)
  /\ Stay(TooManyConstants(current))
  /\ UNCHANGED <<text, classes, made>>

\* Variant: the scope that holds super is left open.
endClassOpen ==
  /\ Doing("endClass")
  /\ classes' = Front(classes)
  /\ Do(<<>>)
  /\ UNCHANGED <<text, source, parser, compilers, made>>

endClass ==
  /\ Doing("endClass")
  /\ compilers' = IF Last(classes) THEN Put(endScope(current)) ELSE compilers
  /\ classes' = Front(classes)
  /\ Do(<<>>)
  /\ UNCHANGED <<text, source, parser, made>>

---------------------------------------------------------------------------
(* Statements.                                                             *)

scoped(c) == <<<<"beginScope">>>> \o c \o <<<<"endScope">>>>

StatementRule ==
  [t \in {"print", "for", "if", "return", "while", "{"} |->
     CASE t = "print"  -> <<expression, Consume(";"), Emits("PRINT")>>
       [] t = "for"    -> scoped(<<Consume("("), <<"forInitializer">>>>)
       [] t = "if"     -> <<Consume("("), expression, Consume(")"), <<"then">>>>
       [] t = "return" -> <<<<"return">>>>
       [] t = "while"  -> <<<<"while">>>>
       [] t = "{"      -> scoped(<<<<"block">>>>)]

DeclarationRule ==
  [t \in {"class", "fun", "var"} |->
     CASE t = "class" -> <<Consume("identifier"), <<"class">>>>
       [] t = "fun"   -> funDeclaration
       [] t = "var"   -> varDeclaration]

statement ==
  /\ Doing("statement")
  /\ IF parser.current \in DOMAIN StatementRule
     THEN advance(FALSE) /\ Do(StatementRule[parser.current])
     ELSE Stay(FALSE) /\ Do(expressionStatement)
  /\ UNCHANGED <<text, compilers, classes, made>>

declaration ==
  /\ Doing("declaration")
  /\ IF parser.current \in DOMAIN DeclarationRule
     THEN advance(FALSE) /\ Do(DeclarationRule[parser.current] \o <<<<"recover">>>>)
     ELSE Stay(FALSE) /\ Do(<<<<"statement">>, <<"recover">>>>)
  /\ UNCHANGED <<text, compilers, classes, made>>

(* declaration's last line, and the loop of synchronize.                   *)
recover ==
  /\ Doing("recover")
  /\ parser' = [parser EXCEPT !.panicMode = FALSE]
  /\ Do(IF parser.panicMode THEN <<<<"synchronize">>>> ELSE <<>>)
  /\ UNCHANGED <<text, source, compilers, classes, made>>

\* Variant: the search for a statement does not end with the text.
synchronizeOn ==
  /\ Doing("synchronize")
  /\ IF parser.current \in Keywords \/ parser.previous = ";"
     THEN Stay(FALSE) /\ Do(<<>>)
     ELSE advance(FALSE) /\ UNCHANGED todo
  /\ UNCHANGED <<text, compilers, classes, made>>

synchronize ==
  /\ Doing("synchronize")
  /\ IF \/ parser.current \in {"eof"} \cup Keywords
        \/ parser.previous = ";"
     THEN Stay(FALSE) /\ Do(<<>>)
     ELSE advance(FALSE) /\ UNCHANGED todo
  /\ UNCHANGED <<text, compilers, classes, made>>

block ==
  /\ Doing("block")
  /\ Do(IF Check("}") \/ Check("eof") THEN <<Consume("}")>>
        ELSE <<<<"declaration">>, <<"block">>>>)
  /\ UNCHANGED <<text, source, parser, compilers, classes, made>>

scope ==
  /\ \/ Doing("beginScope") /\ compilers' = Put(beginScope(current))
     \/ Doing("endScope") /\ compilers' = Put(endScope(current))
  /\ Do(<<>>)
  /\ UNCHANGED <<text, source, parser, classes, made>>

(* Both branches of an if begin by popping the condition.                  *)
then ==
  /\ Doing("then")
  /\ LET c == emitJump(current, "JUMP_IF_FALSE")
     IN  compilers' = Put(Emit(c, <<Opcode("POP")>>))
  /\ Do(<<<<"statement">>, <<"else", JumpFrom(current)>>>>)
  /\ UNCHANGED <<text, source, parser, classes, made>>

\* Variant: the condition is not popped when it was false.
elseKeeping ==
  /\ Doing("else")
  /\ LET c == emitJump(current, "JUMP")
         thenJump == todo[1][2]
         end == <<<<"patchJump", JumpFrom(current)>>>>
     IN  /\ compilers' = Put(patchJump(c, thenJump))
         /\ Match("else", Distance(c, thenJump) > UINT16_MAX,
                  <<<<"statement">>>> \o end, end)
  /\ UNCHANGED <<text, classes, made>>

else ==
  /\ Doing("else")
  /\ LET c == emitJump(current, "JUMP")
         thenJump == todo[1][2]
         end == <<<<"patchJump", JumpFrom(current)>>>>
     IN  /\ compilers' = Put(Emit(patchJump(c, thenJump), <<Opcode("POP")>>))
         /\ Match("else", Distance(c, thenJump) > UINT16_MAX,
                  <<<<"statement">>>> \o end, end)
  /\ UNCHANGED <<text, classes, made>>

return ==
  /\ Doing("return")
  /\ LET top   == current.type = "script"
         value == current.type = "initializer"
     IN  IF Check(";")
         THEN /\ compilers' = Put(emitReturn(current))
              /\ advance(top) /\ Do(<<>>)
         ELSE /\ Stay(top \/ value)
              /\ Do(<<expression, Consume(";"), Emits("RETURN")>>)
              /\ UNCHANGED compilers
  /\ UNCHANGED <<text, classes, made>>

while ==
  /\ Doing("while")
  /\ Do(<<Consume("("), expression, Consume(")"),
          <<"whileBody", Len(current.code)>>>>)
  /\ UNCHANGED <<text, source, parser, compilers, classes, made>>

whileBody ==
  /\ Doing("whileBody")
  /\ LET c == emitJump(current, "JUMP_IF_FALSE")
     IN  compilers' = Put(Emit(c, <<Opcode("POP")>>))
  /\ Do(<<<<"statement">>, <<"endLoop", todo[1][2], JumpFrom(current)>>>>)
  /\ UNCHANGED <<text, source, parser, classes, made>>

NoExit == -1

(* The end of a while and of a for, which may have no condition.           *)
endLoop ==
  /\ Doing("endLoop")
  /\ LET start == todo[1][2]
         exit  == todo[1][3]
         c     == emitLoop(current, start)
     IN  /\ compilers' = Put(IF exit = NoExit THEN c
                             ELSE Emit(patchJump(c, exit), <<Opcode("POP")>>))
         /\ Stay(\/ BackTo(current, start) > UINT16_MAX
                 \/ exit # NoExit /\ Distance(c, exit) > UINT16_MAX)
  /\ Do(<<>>)
  /\ UNCHANGED <<text, classes, made>>

forInitializer ==
  /\ Doing("forInitializer")
  /\ LET condition == <<<<"forCondition">>>>
     IN  IF Check("var") THEN advance(FALSE) /\ Do(varDeclaration \o condition)
         ELSE Match(";", FALSE, condition, expressionStatement \o condition)
  /\ UNCHANGED <<text, compilers, classes, made>>

forCondition ==
  /\ Doing("forCondition")
  /\ LET start == Len(current.code)
     IN  Match(";", FALSE, <<<<"forIncrement", start, NoExit>>>>,
               <<expression, Consume(";"), <<"forExit", start>>>>)
  /\ UNCHANGED <<text, compilers, classes, made>>

forExit ==
  /\ Doing("forExit")
  /\ LET c == emitJump(current, "JUMP_IF_FALSE")
     IN  compilers' = Put(Emit(c, <<Opcode("POP")>>))
  /\ Do(<<<<"forIncrement", todo[1][2], JumpFrom(current)>>>>)
  /\ UNCHANGED <<text, source, parser, classes, made>>

(* The increment stands before the body, which is jumped to over it.       *)
forIncrement ==
  /\ Doing("forIncrement")
  /\ LET start == todo[1][2]
         exit  == todo[1][3]
         c     == emitJump(current, "JUMP")
     IN  IF Check(")")
         THEN /\ advance(FALSE) /\ UNCHANGED compilers
              /\ Do(<<<<"statement">>, <<"endLoop", start, exit>>>>)
         ELSE /\ compilers' = Put(c) /\ Stay(FALSE)
              /\ Do(<<expression, Emits("POP"), Consume(")"),
                      <<"forBody", start, exit, JumpFrom(current), Len(c.code)>>>>)
  /\ UNCHANGED <<text, classes, made>>

forBody ==
  /\ Doing("forBody")
  /\ LET start == todo[1][2]
         bodyJump == todo[1][4]
         c == emitLoop(current, start)
     IN  /\ compilers' = Put(patchJump(c, bodyJump))
         /\ Stay(\/ BackTo(current, start) > UINT16_MAX
                 \/ Distance(c, bodyJump) > UINT16_MAX)
         /\ Do(<<<<"statement">>, <<"endLoop", todo[1][5], todo[1][3]>>>>)
  /\ UNCHANGED <<text, classes, made>>

---------------------------------------------------------------------------
(* compile: the first token, then declarations up to the end of the text.  *)

Nothing == initCompiler("script")

Init ==
  /\ text \in Texts
  /\ source = <<>>
  /\ parser = [current |-> "", previous |-> "", hadError |-> FALSE,
               panicMode |-> FALSE]
  /\ compilers = <<initCompiler("script")>>
  /\ classes = <<>>
  /\ todo = <<<<"advance">>, <<"script">>>>
  /\ made = Nothing

firstToken ==
  /\ Doing("advance")
  /\ advance(FALSE)
  /\ Do(<<>>)
  /\ UNCHANGED <<text, compilers, classes, made>>

script ==
  /\ Doing("script")
  /\ Match("eof", FALSE, <<<<"endCompiler">>>>, <<<<"declaration">>, <<"script">>>>)
  /\ UNCHANGED <<text, compilers, classes, made>>

endCompiler ==
  /\ Doing("endCompiler")
  /\ made' = emitReturn(current)
  /\ compilers' = Front(compilers)
  /\ Do(<<>>)
  /\ UNCHANGED <<text, source, parser, classes>>

returned == todo = <<>> /\ UNCHANGED vars

Next ==
  \/ consume \/ emit \/ parsePrecedence \/ infix \/ constant
  \/ namedVariable \/ and_ \/ or_ \/ endJump \/ argumentList \/ argument \/ dot
  \/ this_ \/ super_ \/ superName \/ superCall
  \/ variableDeclaration \/ defineAfter \/ functionDeclaration \/ function
  \/ parameterList \/ parameter \/ parameterName \/ endFunction
  \/ className \/ superclass \/ inheritFrom \/ classBody \/ methods \/ method
  \/ endClass \/ statement \/ declaration \/ recover \/ synchronize \/ block
  \/ scope \/ then \/ else \/ return \/ while \/ whileBody \/ endLoop
  \/ forInitializer \/ forCondition \/ forExit \/ forIncrement \/ forBody
  \/ firstToken \/ script \/ endCompiler \/ returned

(* The parser is one loop: it goes on as long as it has something to do.   *)
Spec == Init /\ [][Next]_vars /\ WF_vars(Next)

---------------------------------------------------------------------------
(* Properties.                                                             *)

Bytes == [op : OpCode \cup {"operand"}, n : 0..ByteMax]

(* What can be scanned, and the names that the compiler gives to slot 0,   *)
(* to the receiver and to the superclass.                                  *)
Spellings ==
  {"", "this", "super", "?", "eof"} \cup UNION {UNION Range(t) : t \in Texts}

CompilerType ==
  [type : {"script", "function", "method", "initializer"}, arity : Nat,
   scopeDepth : Nat,
   locals : Seq([name : Spellings, depth : Nat \cup {-1}, isCaptured : BOOLEAN]),
   upvalues : Seq([index : 0..ByteMax, isLocal : BOOLEAN]),
   code : Seq(Bytes), constants : Seq([name : Spellings, upvalueCount : Nat])]

(* Types, with the widths of compiler.c: bytes and indices of one byte,    *)
(* and no array of locals or upvalues beyond its UINT8_COUNT elements.     *)
TypeOK ==
  /\ text \in Texts
  /\ source \in Seq(Spellings)
  /\ parser \in [current : Spellings, previous : Spellings, hadError : BOOLEAN,
                 panicMode : BOOLEAN]
  /\ compilers \in Seq(CompilerType) /\ made \in CompilerType
  /\ \A c \in Range(compilers) \cup {made} :
       Len(c.locals) <= UINT8_COUNT /\ Len(c.upvalues) <= UINT8_COUNT
  /\ classes \in Seq(BOOLEAN)

Finished == todo = <<>>

(* When compile() returns, also after errors anywhere in the text, every   *)
(* compiler and class compiler has been left, and the script's own scope   *)
(* is the one it ends in: what current and currentClass, which are global, *)
(* say to the next compile() and to markCompilerRoots.                     *)
CompilerUnwinds ==
  Finished => /\ compilers = <<>> /\ classes = <<>>
              /\ made.type = "script"
              /\ made.scopeDepth = 0 /\ Len(made.locals) = 1

---------------------------------------------------------------------------
(* The variable that a name means.                                         *)

(* Slot i of compiler k is for a local variable of that name.              *)
Named(cs, k, i, name) ==
  i + 1 \in 1..Len(cs[k].locals) /\ cs[k].locals[i + 1].name = name

(* It is the last one of the innermost compiler that has any.              *)
Innermost(cs, k, i, name) ==
  /\ Named(cs, k, i, name)
  /\ \A m \in 1..Len(cs), j \in 0..ByteMax :
       Named(cs, m, j, name) => m < k \/ (m = k /\ j <= i)

(* Upvalue n of the innermost compiler is for slot i of compiler k, by way *)
(* of one upvalue, path[m], in each compiler m in between.                 *)
LeadsTo(cs, n, k, i) ==
  \E path \in [k..Len(cs) -> {i + 1} \cup UNION {DOMAIN c.upvalues : c \in Range(cs)}] :
    /\ path[k] = i + 1 /\ path[Len(cs)] = n + 1
    /\ \A m \in (k + 1)..Len(cs) :
         /\ path[m] \in DOMAIN cs[m].upvalues
         /\ cs[m].upvalues[path[m]] = [index |-> path[m - 1] - 1, isLocal |-> m = k + 1]

Denotes(cs, bytes, name) ==
  LET op == bytes[1].op
      n  == bytes[2].n
  IN  CASE op \in {"GET_LOCAL", "SET_LOCAL"} -> Innermost(cs, Len(cs), n, name)
        [] op \in {"GET_UPVALUE", "SET_UPVALUE"} ->
             \E k \in 1..(Len(cs) - 1), i \in 0..ByteMax :
               Innermost(cs, k, i, name) /\ LeadsTo(cs, n, k, i)
        [] OTHER ->
             /\ \A k \in 1..Len(cs), i \in 0..ByteMax : ~Named(cs, k, i, name)
             /\ Last(cs).constants[n + 1].name = name

(* A name is compiled to an instruction that reaches the variable of the   *)
(* innermost scope around it that declares the name, through as many       *)
(* functions' upvalues as there are in between, or the global if there is  *)
(* none.                                                                   *)
ResolvesLexically ==
  [][Doing("namedVariable") /\ ~parser'.hadError =>
       LET item == IF todo'[1][1] = "emit" THEN todo'[1] ELSE todo'[2]
       IN  Denotes(compilers', item[2], todo[1][2])]_vars
=============================================================================
