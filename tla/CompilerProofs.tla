--------------------------- MODULE CompilerProofs ---------------------------
(***************************************************************************)
(* The parser leaves every function, scope and class that it entered,      *)
(* whatever the text and its errors.                                       *)
(*                                                                         *)
(* An item of todo, from its beginning to the end of all that it leads to, *)
(* changes the compilers and classes in a way that depends on the item     *)
(* alone (Effect).  The invariant is that the items of todo, one after the *)
(* other, lead from where the parser is to the end (Runs).                 *)
(***************************************************************************)
EXTENDS Compiler, SequenceTheorems, WellFoundedInduction, TLAPS

FunctionTypes == {"script", "function", "method", "initializer"}

(* A sequence of whatever elements.                                       *)
IsList(K) == K \in Seq(Range(K))

(* A compiler's locals: slot 0 belongs to the call, the others lie in the  *)
(* order of their scopes, and only the last may not be initialized yet.    *)
Ordered(locals, scopeDepth) ==
  /\ Len(locals) \in 1..UINT8_COUNT /\ locals[1].depth = 0
  /\ \A i \in 2..Len(locals) :
       \/ locals[i].depth \in 1..scopeDepth
       \/ locals[i].depth = -1 /\ i = Len(locals)
  /\ \A i, j \in 1..Len(locals) :
       i < j => locals[i].depth <= locals[j].depth \/ locals[j].depth = -1

Scoped(c) == Ordered(c.locals, c.scopeDepth)

Shape(c) ==
  [type |-> c.type, scopeDepth |-> c.scopeDepth, more |-> Len(c.locals) > 1,
   pending |-> c.locals[Len(c.locals)].depth = -1]

NoShape == [type |-> "none", scopeDepth |-> 0, more |-> FALSE, pending |-> FALSE]

(* At rest no variable is being declared, and whether there are locals     *)
(* above slot 0 may be left open.                                          *)
Rest(s, depth) == [type |-> s.type, scopeDepth |-> depth, more |-> FALSE, pending |-> FALSE]

Fits(s, c) ==
  s = Shape(c) \/ (~Shape(c).pending /\ s = Rest(Shape(c), c.scopeDepth))

(* Where the parser is: the shape of the innermost compiler, those of the  *)
(* compilers around it, and the classes.                                   *)
At(outer, s, k) == [outer |-> outer, in |-> s, classes |-> k]

FitsOuter(outer) ==
  /\ IsList(outer) /\ Len(outer) + 1 = Len(compilers)
  /\ \A i \in 1..Len(outer) : Fits(outer[i], compilers[i])

IsPlace(p) ==
  IF compilers = <<>> THEN p = At(<<>>, NoShape, classes)
  ELSE \E outer, s : FitsOuter(outer) /\ Fits(s, current) /\ p = At(outer, s, classes)

End == At(<<>>, NoShape, <<>>)

(* The items that end where they began, those that end at rest in the same *)
(* scope, and those that leave a function or a class.                      *)
Inside ==
  {"consume", "emit", "parsePrecedence", "infix", "constant", "namedVariable", "and_",
   "or_", "patchJump", "argumentList", "argument", "dot", "this_", "super_", "superName",
   "superCall", "function", "methods", "method", "recover", "synchronize", "advance",
   "endLoop", "return"}
Around ==
  {"varDeclaration", "funDeclaration", "class", "statement", "declaration", "block", "then",
   "else", "while", "whileBody", "forInitializer", "forCondition", "forExit",
   "forIncrement", "forBody"}
OfFunction == {"parameterList", "parameter", "parameterName", "endFunction"}
OfClass    == {"superclass", "inherit", "classBody", "endClass"}

Active(p) == p.in.type # "none"
Ready(p)  == Active(p) /\ ~p.in.pending

(* Item x, with all that it leads to, goes from p to q.                    *)
Effect(x, p, q) ==
  \/ /\ x[1] \in Inside /\ Active(p)
     /\ q = p
  \/ /\ x[1] \in Around /\ Ready(p)
     /\ q = At(p.outer, Rest(p.in, p.in.scopeDepth), p.classes)
  \/ /\ x[1] = "defineVariable" /\ Active(p)
     /\ IF p.in.scopeDepth > 0 THEN p.in.more ELSE ~p.in.pending
     /\ q = At(p.outer, Rest(p.in, p.in.scopeDepth), p.classes)
  \/ /\ x[1] \in OfFunction /\ Ready(p)
     /\ \E outer, s : /\ IsList(outer) /\ p.outer = Append(outer, s)
                      /\ q = At(outer, s, p.classes)
  \/ /\ x[1] \in OfClass /\ Ready(p)
     /\ \E k \in Seq(BOOLEAN), inherits \in BOOLEAN :
          /\ p.classes = Append(k, inherits)
          /\ x[1] \in {"superclass", "inherit"} => ~inherits
          /\ inherits => p.in.scopeDepth > 0
          /\ q = At(p.outer, Rest(p.in, p.in.scopeDepth - IF inherits THEN 1 ELSE 0), k)
  \/ /\ x[1] = "beginScope" /\ Ready(p)
     /\ q = At(p.outer, Rest(p.in, p.in.scopeDepth + 1), p.classes)
  \/ /\ x[1] = "endScope" /\ Ready(p) /\ p.in.scopeDepth > 0
     /\ q = At(p.outer, Rest(p.in, p.in.scopeDepth - 1), p.classes)
  \/ /\ x[1] \in {"script", "endCompiler"} /\ Ready(p)
     /\ p.outer = <<>> /\ p.classes = <<>> /\ p.in.type = "script" /\ p.in.scopeDepth = 0
     /\ q = End

(* The arguments of an item.                                               *)
IsAfter(a) ==
  \/ a = <<"CALL">>
  \/ \E name \in Nat : a = <<"INVOKE", name>> \/ a = <<"SUPER_INVOKE", name>>

Arguments(x) ==
  /\ x[1] = "emit" => x[2] \in Seq(Bytes)
  /\ x[1] \in {"parsePrecedence", "infix"} => x[2] \in Nat \ {0}
  /\ x[1] = "namedVariable" => x[2] \in Spellings /\ x[3] \in BOOLEAN
  /\ x[1] \in {"patchJump", "superCall", "defineVariable", "else", "whileBody", "forExit"} =>
       x[2] \in Nat
  /\ x[1] = "argumentList" => IsAfter(x[2])
  /\ x[1] = "argument" => IsAfter(x[2]) /\ x[3] \in 0..ByteMax
  /\ x[1] = "dot" => x[2] \in BOOLEAN
  /\ x[1] = "function" => x[2] \in FunctionTypes
  /\ x[1] \in {"superclass", "inherit", "classBody"} => x[2] \in Spellings
  /\ x[1] \in {"endLoop", "forIncrement", "forBody"} => x[2] \in Nat /\ x[3] \in Nat \cup {NoExit}
  /\ x[1] = "forBody" => x[4] \in Nat /\ x[5] \in Nat

(* From p through the items of K to q.                                     *)
Runs(K, p, q) ==
  \E P : /\ P[1] = p /\ P[Len(K) + 1] = q
         /\ \A i \in 1..Len(K) : Arguments(K[i]) /\ Effect(K[i], P[i], P[i + 1])

(* The inductive invariant.                                                *)
IInv ==
  /\ TypeOK
  /\ parser.panicMode => parser.hadError
  /\ \A i \in 1..Len(compilers) : Scoped(compilers[i])
  /\ IsList(todo) /\ \E p : IsPlace(p) /\ Runs(todo, p, End)
  /\ compilers = <<>> =>
       made.type = "script" /\ made.scopeDepth = 0 /\ Len(made.locals) = 1

---------------------------------------------------------------------------
(* Items one after the other.                                              *)

LEMMA TodoIs ==
  ASSUME NEW K, IsList(K)
  PROVE  Len(K) \in Nat /\ DOMAIN K = 1..Len(K) /\ \A i \in 1..Len(K) : K[i] \in Range(K)
<1>1. Len(K) \in Nat /\ DOMAIN K = 1..Len(K)
  BY LenProperties DEF IsList
<1> QED
  BY <1>1 DEF Range

LEMMA IsListIf ==
  ASSUME NEW S, NEW K, K \in Seq(S)
  PROVE  IsList(K)
<1>1. Len(K) \in Nat /\ K \in [1..Len(K) -> S] /\ DOMAIN K = 1..Len(K)
  BY LenProperties
<1>2. K \in [1..Len(K) -> Range(K)]
  BY <1>1 DEF Range
<1> QED
  BY <1>1, <1>2 DEF IsList

LEMMA Tuples ==
  /\ IsList(<<>>)
  /\ \A a : IsList(<<a>>)
  /\ \A a, b : IsList(<<a, b>>)
  /\ \A a, b, c : IsList(<<a, b, c>>)
  /\ \A a, b, c, d : IsList(<<a, b, c, d>>)
  /\ \A a, b, c, d, e : IsList(<<a, b, c, d, e>>)
  /\ \A a, b, c, d, e, f : IsList(<<a, b, c, d, e, f>>)
<1>1. IsList(<<>>)
  <2>1. <<>> \in Seq({1})
    OBVIOUS
  <2> QED
    BY <2>1, IsListIf
<1>2. ASSUME NEW a PROVE IsList(<<a>>)
  <2>1. <<a>> \in Seq({a})
    OBVIOUS
  <2> QED
    BY <2>1, IsListIf
<1>3. ASSUME NEW a, NEW b PROVE IsList(<<a, b>>)
  <2>1. <<a, b>> \in Seq({a, b})
    OBVIOUS
  <2> QED
    BY <2>1, IsListIf
<1>4. ASSUME NEW a, NEW b, NEW c PROVE IsList(<<a, b, c>>)
  <2>1. <<a, b, c>> \in Seq({a, b, c})
    OBVIOUS
  <2> QED
    BY <2>1, IsListIf
<1>5. ASSUME NEW a, NEW b, NEW c, NEW d PROVE IsList(<<a, b, c, d>>)
  <2>1. <<a, b, c, d>> \in Seq({a, b, c, d})
    OBVIOUS
  <2> QED
    BY <2>1, IsListIf
<1>6. ASSUME NEW a, NEW b, NEW c, NEW d, NEW e PROVE IsList(<<a, b, c, d, e>>)
  <2>1. <<a, b, c, d, e>> \in Seq({a, b, c, d, e})
    OBVIOUS
  <2> QED
    BY <2>1, IsListIf
<1>7. ASSUME NEW a, NEW b, NEW c, NEW d, NEW e, NEW f PROVE IsList(<<a, b, c, d, e, f>>)
  <2>1. <<a, b, c, d, e, f>> \in Seq({a, b, c, d, e, f})
    OBVIOUS
  <2> QED
    BY <2>1, IsListIf
<1> QED
  BY <1>1, <1>2, <1>3, <1>4, <1>5, <1>6, <1>7

LEMMA RunsJoined ==
  ASSUME NEW K, NEW L, IsList(K), IsList(L), NEW p, NEW q, NEW r, Runs(K, p, q), Runs(L, q, r)
  PROVE  IsList(K \o L) /\ Runs(K \o L, p, r)
<1>1. PICK S : S = Range(K) \cup Range(L)
  OBVIOUS
<1>2. K \in Seq(S) /\ L \in Seq(S)
  BY <1>1, SeqMonotonic DEF IsList
<1>3. PICK M : M = K \o L
  OBVIOUS
<1>4. PICK k, l : k = Len(K) /\ l = Len(L)
  OBVIOUS
<1>5. /\ M \in Seq(S) /\ Len(M) = k + l
      /\ \A i \in 1..(k + l) : M[i] = IF i <= k THEN K[i] ELSE L[i - k]
  BY <1>2, <1>3, <1>4, ConcatProperties
<1>6. k \in Nat /\ l \in Nat
  BY <1>2, <1>4, LenProperties
<1>7. PICK P : /\ P[1] = p /\ P[k + 1] = q
               /\ \A i \in 1..k : Arguments(K[i]) /\ Effect(K[i], P[i], P[i + 1])
  BY <1>4 DEF Runs
<1>8. PICK Q : /\ Q[1] = q /\ Q[l + 1] = r
               /\ \A i \in 1..l : Arguments(L[i]) /\ Effect(L[i], Q[i], Q[i + 1])
  BY <1>4 DEF Runs
<1> DEFINE R == [i \in 1..(k + l + 1) |-> IF i <= k THEN P[i] ELSE Q[i - k]]
<1>9. R[1] = p
  BY <1>6, <1>7, <1>8
<1>10. R[k + l + 1] = r
  BY <1>6, <1>7, <1>8
<1>11. ASSUME NEW i \in 1..(k + l)
       PROVE  Arguments(M[i]) /\ Effect(M[i], R[i], R[i + 1])
  <2>1. CASE i < k
    BY <1>5, <1>6, <1>7, <2>1
  <2>2. CASE i = k
    <3>1. R[i] = P[k] /\ M[i] = K[k] /\ k \in 1..k
      BY <1>5, <1>6, <2>2
    <3>2. R[i + 1] = Q[1]
      BY <1>6, <2>2
    <3> QED
      BY <1>7, <1>8, <2>2, <3>1, <3>2
  <2>3. CASE i > k
    <3>1. PICK j : j = i - k
      OBVIOUS
    <3>2. j \in 1..l /\ R[i] = Q[j] /\ R[i + 1] = Q[j + 1] /\ M[i] = L[j]
      <4>1. j \in 1..l /\ R[i] = Q[j] /\ M[i] = L[j]
        BY <1>5, <1>6, <2>3, <3>1
      <4>2. i + 1 \in 1..(k + l + 1) /\ ~(i + 1 <= k) /\ (i + 1) - k = j + 1
        BY <1>6, <2>3, <3>1
      <4> QED
        BY <4>1, <4>2
    <3> QED
      BY <1>8, <3>2
  <2> QED
    BY <1>6, <2>1, <2>2, <2>3
<1>12. Runs(M, p, r)
  <2>1. PICK T : T = R
    OBVIOUS
  <2>2. T[1] = p /\ T[Len(M) + 1] = r
    BY <1>5, <1>9, <1>10, <2>1
  <2>3. \A i \in 1..Len(M) : Arguments(M[i]) /\ Effect(M[i], T[i], T[i + 1])
    BY <1>5, <1>11, <2>1
  <2> QED
    BY <2>2, <2>3 DEF Runs
<1> QED
  BY <1>3, <1>5, <1>12, IsListIf

LEMMA RunsNothing ==
  ASSUME NEW p
  PROVE  IsList(<<>>) /\ Runs(<<>>, p, p) /\ \A q : Runs(<<>>, p, q) => p = q
<1>1. PICK K : K = <<>>
  OBVIOUS
<1>2. Len(K) = 0
  BY <1>1
<1>3. \E P : P[1] = p
  <2>1. [i \in {1} |-> p][1] = p
    OBVIOUS
  <2> QED
    BY <2>1
<1>4. Runs(K, p, p) /\ \A q : Runs(K, p, q) => p = q
  BY <1>2, <1>3 DEF Runs
<1> QED
  BY <1>1, <1>4, Tuples

LEMMA RunsOne ==
  ASSUME NEW a, NEW p, NEW q, Arguments(a), Effect(a, p, q)
  PROVE  IsList(<<a>>) /\ Runs(<<a>>, p, q)
<1>1. PICK K, P : K = <<a>> /\ P = <<p, q>>
  OBVIOUS
<1>2. Len(K) = 1 /\ K[1] = a /\ P[1] = p /\ P[2] = q
  BY <1>1
<1>3. Runs(K, p, q)
  <2>1. \A i \in 1..Len(K) : i = 1 /\ i + 1 = 2
    BY <1>2
  <2> QED
    BY <1>2, <2>1 DEF Runs
<1> QED
  BY <1>1, <1>3, Tuples

LEMMA RunsTwo ==
  ASSUME NEW a, NEW b,
         NEW p, NEW q, NEW r,
         Arguments(a), Effect(a, p, q),
         Arguments(b), Effect(b, q, r)
  PROVE  IsList(<<a, b>>) /\ Runs(<<a, b>>, p, r)
<1>1. PICK K, P : K = <<a, b>> /\ P = <<p, q, r>>
  OBVIOUS
<1>2. /\ Len(K) = 2 /\ K[1] = a /\ K[2] = b
      /\ P[1] = p /\ P[2] = q /\ P[3] = r
  BY <1>1
<1>3. Runs(K, p, r)
  <2>1. \A i \in 1..Len(K) : i = 1 \/ i = 2
    BY <1>2
  <2>2. 1 + 1 = 2 /\ 2 + 1 = 3
    OBVIOUS
  <2>3. \A i \in 1..Len(K) : Arguments(K[i]) /\ Effect(K[i], P[i], P[i + 1])
    BY <1>2, <2>1, <2>2
  <2> QED
    BY <1>2, <2>2, <2>3 DEF Runs
<1> QED
  BY <1>1, <1>3, Tuples

(* The first item, and what is to be done after it.                        *)
LEMMA First ==
  ASSUME NEW K, IsList(K), K # <<>>, NEW p, NEW q, Runs(K, p, q)
  PROVE  /\ IsList(Tail(K)) /\ Arguments(K[1])
         /\ \E r : Effect(K[1], p, r) /\ Runs(Tail(K), r, q)
<1>1. PICK S : S = Range(K)
  OBVIOUS
<1>2. K \in Seq(S)
  BY <1>1 DEF IsList
<1>3. PICK L, n : L = Tail(K) /\ n = Len(K)
  OBVIOUS
<1>4. /\ L \in Seq(S) /\ Len(L) = n - 1 /\ n \in Nat \ {0}
      /\ \A i \in 1..(n - 1) : L[i] = K[i + 1]
  BY <1>2, <1>3, HeadTailProperties, EmptySeq
<1>5. PICK P : /\ P[1] = p /\ P[n + 1] = q
               /\ \A i \in 1..n : Arguments(K[i]) /\ Effect(K[i], P[i], P[i + 1])
  BY <1>3 DEF Runs
<1>6. Arguments(K[1]) /\ Effect(K[1], p, P[2])
  <2>1. 1 \in 1..n /\ 1 + 1 = 2
    BY <1>4
  <2> QED
    BY <1>5, <2>1
<1>7. PICK Q : Q = [i \in 1..n |-> P[i + 1]]
  OBVIOUS
<1>8. Q[1] = P[2] /\ Q[(n - 1) + 1] = q
  BY <1>4, <1>5, <1>7
<1>9. ASSUME NEW i \in 1..(n - 1) PROVE Arguments(L[i]) /\ Effect(L[i], Q[i], Q[i + 1])
  <2>1. i \in 1..n /\ i + 1 \in 1..n
    BY <1>4
  <2>2. Q[i] = P[i + 1] /\ Q[i + 1] = P[(i + 1) + 1] /\ L[i] = K[i + 1]
    BY <1>4, <1>7, <2>1
  <2> QED
    BY <1>5, <2>1, <2>2
<1>10. Runs(L, P[2], q)
  BY <1>4, <1>8, <1>9 DEF Runs
<1> QED
  BY <1>3, <1>4, <1>6, <1>10, IsListIf

---------------------------------------------------------------------------
(* Where the parser is.                                                    *)

Good(c) == c \in CompilerType /\ Scoped(c) /\ Len(c.upvalues) <= UINT8_COUNT

CompilersOK == compilers \in Seq(CompilerType) /\ \A i \in 1..Len(compilers) : Good(compilers[i])
MadeOK == made \in CompilerType /\ Len(made.locals) <= UINT8_COUNT /\ Len(made.upvalues) <= UINT8_COUNT
ParserOK ==
  /\ source \in Seq(Spellings)
  /\ parser \in [current : Spellings, previous : Spellings, hadError : BOOLEAN, panicMode : BOOLEAN]
  /\ parser.panicMode => parser.hadError

LEMMA Count == UINT8_COUNT \in Nat /\ UINT8_COUNT >= 2 /\ UINT8_COUNT = ByteMax + 1 /\ ByteMax \in Nat
BY CompilerAssumption DEF UINT8_COUNT

LEMMA BytesFit ==
  ASSUME NEW n \in 0..ByteMax
  PROVE  n % UINT8_COUNT = n
<1>1. PICK u \in Nat \ {0} : u = UINT8_COUNT /\ n \in 0..(u - 1)
  BY Count
<1>2. n % u = n
  BY <1>1
<1> QED
  BY <1>1, <1>2

LEMMA TypeIs ==
  TypeOK /\ (parser.panicMode => parser.hadError)
         /\ (\A i \in 1..Len(compilers) : Scoped(compilers[i])) <=>
    text \in Texts /\ ParserOK /\ CompilersOK /\ MadeOK /\ classes \in Seq(BOOLEAN)
<1>1. ASSUME compilers \in Seq(CompilerType)
      PROVE  Range(compilers) = {compilers[i] : i \in 1..Len(compilers)}
  BY <1>1, LenProperties DEF Range
<1>2. \A i \in 1..Len(compilers) : Scoped(compilers[i]) => Len(compilers[i].locals) <= UINT8_COUNT
  BY Count DEF Scoped, Ordered
<1>3. ASSUME TypeOK, parser.panicMode => parser.hadError,
             \A i \in 1..Len(compilers) : Scoped(compilers[i])
      PROVE  text \in Texts /\ ParserOK /\ CompilersOK /\ MadeOK /\ classes \in Seq(BOOLEAN)
  <2>1. \A i \in 1..Len(compilers) : compilers[i] \in CompilerType
    BY <1>3, ElementOfSeq DEF TypeOK
  <2>2. Range(compilers) = {compilers[i] : i \in 1..Len(compilers)}
    BY <1>1, <1>3 DEF TypeOK
  <2> QED
    BY <1>3, <2>1, <2>2 DEF TypeOK, ParserOK, CompilersOK, MadeOK, Good
<1>4. ASSUME text \in Texts, ParserOK, CompilersOK, MadeOK, classes \in Seq(BOOLEAN)
      PROVE  /\ TypeOK /\ (parser.panicMode => parser.hadError)
             /\ \A i \in 1..Len(compilers) : Scoped(compilers[i])
  <2>1. Range(compilers) = {compilers[i] : i \in 1..Len(compilers)}
    BY <1>1, <1>4 DEF CompilersOK
  <2> QED
    BY <1>2, <1>4, <2>1 DEF TypeOK, ParserOK, CompilersOK, MadeOK, Good
<1> QED
  BY <1>3, <1>4

Whole ==
  /\ text \in Texts /\ ParserOK /\ CompilersOK /\ MadeOK /\ classes \in Seq(BOOLEAN)
  /\ IsList(todo) /\ \E p : IsPlace(p) /\ Runs(todo, p, End)
  /\ compilers = <<>> =>
       made.type = "script" /\ made.scopeDepth = 0 /\ Len(made.locals) = 1

LEMMA Parts == IInv <=> Whole
BY TypeIs DEF IInv, Whole

LEMMA PartsNext == IInv' <=> Whole'
BY Parts, PTL

---------------------------------------------------------------------------
(* Code and constants.                                                     *)

LEMMA Fields ==
  ASSUME NEW c \in CompilerType
  PROVE  /\ c = [type |-> c.type, arity |-> c.arity, scopeDepth |-> c.scopeDepth,
                 locals |-> c.locals, upvalues |-> c.upvalues, code |-> c.code,
                 constants |-> c.constants]
         /\ c.type \in FunctionTypes /\ c.arity \in Nat /\ c.scopeDepth \in Nat
         /\ c.locals \in Seq([name : Spellings, depth : Nat \cup {-1}, isCaptured : BOOLEAN])
         /\ c.upvalues \in Seq([index : 0..ByteMax, isLocal : BOOLEAN])
         /\ c.code \in Seq(Bytes) /\ c.constants \in Seq([name : Spellings, upvalueCount : Nat])
         /\ Len(c.code) \in Nat /\ Len(c.constants) \in Nat /\ Len(c.locals) \in Nat
         /\ Len(c.upvalues) \in Nat
<1>1. /\ c = [type |-> c.type, arity |-> c.arity, scopeDepth |-> c.scopeDepth,
              locals |-> c.locals, upvalues |-> c.upvalues, code |-> c.code,
              constants |-> c.constants]
      /\ c.type \in FunctionTypes /\ c.arity \in Nat /\ c.scopeDepth \in Nat
      /\ c.locals \in Seq([name : Spellings, depth : Nat \cup {-1}, isCaptured : BOOLEAN])
      /\ c.upvalues \in Seq([index : 0..ByteMax, isLocal : BOOLEAN])
      /\ c.code \in Seq(Bytes) /\ c.constants \in Seq([name : Spellings, upvalueCount : Nat])
  BY DEF CompilerType, FunctionTypes
<1> QED
  BY <1>1, LenProperties

(* What leaves type, scope and locals alone.                               *)
LEMMA Alike ==
  ASSUME NEW c, NEW d, Good(c), d \in CompilerType, d.type = c.type,
         d.scopeDepth = c.scopeDepth, d.locals = c.locals, Len(d.upvalues) <= UINT8_COUNT
  PROVE  Good(d) /\ Shape(d) = Shape(c)
BY DEF Good, Scoped, Shape

LEMMA BytesAre ==
  /\ \A op \in OpCode : Opcode(op) \in Bytes
  /\ \A n \in Int : Byte(n) \in Bytes
<1>1. \A n \in Int : n % UINT8_COUNT \in 0..ByteMax
  BY Count
<1>2. 0 \in 0..ByteMax
  BY Count
<1>3. ASSUME NEW op \in OpCode PROVE Opcode(op) \in Bytes
  BY <1>2 DEF Bytes, Opcode
<1>4. ASSUME NEW n \in Int PROVE Byte(n) \in Bytes
  <2>1. PICK m : m = n % UINT8_COUNT
    OBVIOUS
  <2>2. m \in 0..ByteMax
    BY <1>1, <2>1
  <2>3. Byte(n) = [op |-> "operand", n |-> m]
    BY <2>1 DEF Byte, Operand
  <2> QED
    BY <2>2, <2>3 DEF Bytes
<1> QED
  BY <1>3, <1>4

LEMMA Emitted ==
  ASSUME NEW c, Good(c), NEW bytes \in Seq(Bytes)
  PROVE  /\ Good(Emit(c, bytes)) /\ Shape(Emit(c, bytes)) = Shape(c)
         /\ Len(Emit(c, bytes).code) = Len(c.code) + Len(bytes)
         /\ Emit(c, bytes).constants = c.constants
<1>1. c \in CompilerType /\ c.code \in Seq(Bytes)
  BY Fields DEF Good
<1>2. c.code \o bytes \in Seq(Bytes) /\ Len(c.code \o bytes) = Len(c.code) + Len(bytes)
  BY <1>1, ConcatProperties
<1>3. PICK d : d = Emit(c, bytes)
  OBVIOUS
<1>4. d = [c EXCEPT !.code = c.code \o bytes]
  BY <1>3 DEF Emit
<1>5. /\ d \in CompilerType /\ d.type = c.type /\ d.scopeDepth = c.scopeDepth
      /\ d.locals = c.locals /\ d.upvalues = c.upvalues /\ d.code = c.code \o bytes
      /\ d.constants = c.constants
  BY <1>1, <1>2, <1>4 DEF CompilerType
<1> QED
  BY <1>2, <1>3, <1>5, Alike DEF Good

LEMMA Added ==
  ASSUME NEW c, Good(c), NEW value \in [name : Spellings, upvalueCount : Nat]
  PROVE  /\ Good(AddConstant(c, value)) /\ Shape(AddConstant(c, value)) = Shape(c)
         /\ AddConstant(c, value).code = c.code /\ AddConstant(c, value).scopeDepth = c.scopeDepth
         /\ AddConstant(c, value).locals = c.locals
<1>1. c \in CompilerType /\ c.constants \in Seq([name : Spellings, upvalueCount : Nat])
  BY Fields DEF Good
<1>2. Append(c.constants, value) \in Seq([name : Spellings, upvalueCount : Nat])
  BY <1>1, AppendProperties
<1>3. PICK d : d = AddConstant(c, value)
  OBVIOUS
<1>4. d = [c EXCEPT !.constants = Append(c.constants, value)]
  BY <1>3 DEF AddConstant
<1>5. /\ d \in CompilerType /\ d.type = c.type /\ d.scopeDepth = c.scopeDepth
      /\ d.locals = c.locals /\ d.upvalues = c.upvalues /\ d.code = c.code
  BY <1>1, <1>2, <1>4 DEF CompilerType
<1> QED
  BY <1>3, <1>5, Alike DEF Good

LEMMA ConstantsAre ==
  /\ \A name \in Spellings : Constant(name) \in [name : Spellings, upvalueCount : Nat]
  /\ \A c \in CompilerType : NextConstant(c) \in Nat
BY Fields DEF Constant, NextConstant

LEMMA Overwritten ==
  ASSUME NEW S, NEW s \in Seq(S), NEW i, NEW e \in S
  PROVE  [s EXCEPT ![i] = e] \in Seq(S) /\ Len([s EXCEPT ![i] = e]) = Len(s)
<1>1. CASE i \in 1..Len(s)
  BY <1>1, ExceptSeq
<1>2. CASE i \notin 1..Len(s)
  <2>1. DOMAIN s = 1..Len(s) /\ s = [k \in DOMAIN s |-> s[k]]
    BY LenProperties
  <2>2. [s EXCEPT ![i] = e] = s
    BY <1>2, <2>1
  <2> QED
    BY <2>2
<1> QED
  BY <1>1, <1>2

LEMMA Patched ==
  ASSUME NEW c, Good(c), NEW from \in Int
  PROVE  /\ Good(patchJump(c, from)) /\ Shape(patchJump(c, from)) = Shape(c)
         /\ Len(patchJump(c, from).code) = Len(c.code)
<1>1. c \in CompilerType /\ c.code \in Seq(Bytes) /\ Len(c.code) \in Nat
  BY Fields DEF Good
<1>2. Distance(c, from) \in Int
  BY <1>1 DEF Distance
<1>3. PICK a, b : a = Byte(Distance(c, from) \div UINT8_COUNT) /\ b = Byte(Distance(c, from))
  OBVIOUS
<1>4. a \in Bytes /\ b \in Bytes
  <2>1. Distance(c, from) \div UINT8_COUNT \in Int
    BY <1>2, Count
  <2> QED
    BY <1>2, <1>3, <2>1, BytesAre
<1>5. PICK d : d = patchJump(c, from)
  OBVIOUS
<1>6. PICK t, u : t = [c.code EXCEPT ![from + 1] = a] /\ u = [t EXCEPT ![from + 2] = b]
  OBVIOUS
<1>7. u \in Seq(Bytes) /\ Len(u) = Len(c.code)
  <2>1. PICK s, i, j : s = c.code /\ i = from + 1 /\ j = from + 2
    OBVIOUS
  <2>2. s \in Seq(Bytes) /\ t = [s EXCEPT ![i] = a] /\ u = [t EXCEPT ![j] = b]
    BY <1>1, <1>6, <2>1
  <2>3. t \in Seq(Bytes) /\ Len(t) = Len(s)
    BY <1>4, <2>2, Overwritten
  <2>4. u \in Seq(Bytes) /\ Len(u) = Len(t)
    BY <1>4, <2>2, <2>3, Overwritten
  <2> QED
    BY <2>1, <2>3, <2>4
<1>8. d = [c EXCEPT !.code = u]
  <2>1. d = [c EXCEPT !.code[from + 1] = a, !.code[from + 2] = b]
    BY <1>3, <1>5 DEF patchJump
  <2> QED
    BY <1>1, <1>6, <2>1, Fields
<1>9. /\ d \in CompilerType /\ d.type = c.type /\ d.scopeDepth = c.scopeDepth
      /\ d.locals = c.locals /\ d.upvalues = c.upvalues /\ d.code = u
  BY <1>1, <1>7, <1>8 DEF CompilerType
<1> QED
  BY <1>5, <1>7, <1>9, Alike DEF Good
---------------------------------------------------------------------------
(* What each kind of item does to a place.                                 *)

LEMMA InsideDoes ==
  ASSUME NEW x, x[1] \in Inside, NEW p
  PROVE  \A q : Effect(x, p, q) <=> Active(p) /\ q = p
BY DEF Effect, Inside, Around, OfFunction, OfClass

LEMMA AroundDoes ==
  ASSUME NEW x, x[1] \in Around, NEW o, NEW s, NEW k
  PROVE  \A q : Effect(x, At(o, s, k), q) <=>
                  s.type # "none" /\ ~s.pending /\ q = At(o, Rest(s, s.scopeDepth), k)
<1>1. PICK p : p = At(o, s, k)
  OBVIOUS
<1>2. p.in = s /\ p.outer = o /\ p.classes = k
  BY <1>1 DEF At
<1>3. \A q : Effect(x, p, q) <=>
               Ready(p) /\ q = At(p.outer, Rest(p.in, p.in.scopeDepth), p.classes)
  BY DEF Effect, Inside, Around, OfFunction, OfClass
<1> QED
  BY <1>1, <1>2, <1>3 DEF Ready, Active

LEMMA DefineDoes ==
  ASSUME NEW x, x[1] = "defineVariable", NEW o, NEW s, NEW k
  PROVE  \A q : Effect(x, At(o, s, k), q) <=>
                  /\ s.type # "none"
                  /\ IF s.scopeDepth > 0 THEN s.more ELSE ~s.pending
                  /\ q = At(o, Rest(s, s.scopeDepth), k)
<1>1. PICK p : p = At(o, s, k)
  OBVIOUS
<1>2. p.in = s /\ p.outer = o /\ p.classes = k
  BY <1>1 DEF At
<1>3. \A q : Effect(x, p, q) <=>
               /\ Active(p)
               /\ IF p.in.scopeDepth > 0 THEN p.in.more ELSE ~p.in.pending
               /\ q = At(p.outer, Rest(p.in, p.in.scopeDepth), p.classes)
  BY DEF Effect, Inside, Around, OfFunction, OfClass
<1> QED
  BY <1>1, <1>2, <1>3 DEF Active

LEMMA OfFunctionDoes ==
  ASSUME NEW x, x[1] \in OfFunction, NEW o, NEW s, NEW k
  PROVE  \A q : Effect(x, At(o, s, k), q) <=>
                  /\ s.type # "none" /\ ~s.pending
                  /\ \E u, z : IsList(u) /\ o = Append(u, z) /\ q = At(u, z, k)
<1>1. PICK p : p = At(o, s, k)
  OBVIOUS
<1>2. p.in = s /\ p.outer = o /\ p.classes = k
  BY <1>1 DEF At
<1>3. \A q : Effect(x, p, q) <=>
               /\ Ready(p)
               /\ \E u, z : IsList(u) /\ p.outer = Append(u, z) /\ q = At(u, z, p.classes)
  BY DEF Effect, Inside, Around, OfFunction, OfClass
<1> QED
  BY <1>1, <1>2, <1>3 DEF Ready, Active

LEMMA OfClassDoes ==
  ASSUME NEW x, x[1] \in OfClass, NEW o, NEW s, NEW k
  PROVE  \A q : Effect(x, At(o, s, k), q) <=>
                  /\ s.type # "none" /\ ~s.pending
                  /\ \E l \in Seq(BOOLEAN), b \in BOOLEAN :
                       /\ k = Append(l, b)
                       /\ x[1] \in {"superclass", "inherit"} => ~b
                       /\ b => s.scopeDepth > 0
                       /\ q = At(o, Rest(s, s.scopeDepth - IF b THEN 1 ELSE 0), l)
<1>1. PICK p : p = At(o, s, k)
  OBVIOUS
<1>2. p.in = s /\ p.outer = o /\ p.classes = k
  BY <1>1 DEF At
<1>3. \A q : Effect(x, p, q) <=>
               /\ Ready(p)
               /\ \E l \in Seq(BOOLEAN), b \in BOOLEAN :
                    /\ p.classes = Append(l, b)
                    /\ x[1] \in {"superclass", "inherit"} => ~b
                    /\ b => p.in.scopeDepth > 0
                    /\ q = At(p.outer, Rest(p.in, p.in.scopeDepth - IF b THEN 1 ELSE 0), l)
  BY DEF Effect, Inside, Around, OfFunction, OfClass
<1> QED
  BY <1>1, <1>2, <1>3 DEF Ready, Active

LEMMA ScopeDoes ==
  ASSUME NEW x, NEW o, NEW s, NEW k
  PROVE  /\ x[1] = "beginScope" =>
              \A q : Effect(x, At(o, s, k), q) <=>
                       /\ s.type # "none" /\ ~s.pending
                       /\ q = At(o, Rest(s, s.scopeDepth + 1), k)
         /\ x[1] = "endScope" =>
              \A q : Effect(x, At(o, s, k), q) <=>
                       /\ s.type # "none" /\ ~s.pending /\ s.scopeDepth > 0
                       /\ q = At(o, Rest(s, s.scopeDepth - 1), k)
<1>1. PICK p : p = At(o, s, k)
  OBVIOUS
<1>2. p.in = s /\ p.outer = o /\ p.classes = k
  BY <1>1 DEF At
<1>3. x[1] = "beginScope" =>
        \A q : Effect(x, p, q) <=>
                 Ready(p) /\ q = At(p.outer, Rest(p.in, p.in.scopeDepth + 1), p.classes)
  BY DEF Effect, Inside, Around, OfFunction, OfClass
<1>4. x[1] = "endScope" =>
        \A q : Effect(x, p, q) <=>
                 /\ Ready(p) /\ p.in.scopeDepth > 0
                 /\ q = At(p.outer, Rest(p.in, p.in.scopeDepth - 1), p.classes)
  BY DEF Effect, Inside, Around, OfFunction, OfClass
<1> QED
  BY <1>1, <1>2, <1>3, <1>4 DEF Ready, Active

LEMMA ScriptDoes ==
  ASSUME NEW x, x[1] \in {"script", "endCompiler"}, NEW o, NEW s, NEW k
  PROVE  \A q : Effect(x, At(o, s, k), q) <=>
                  /\ s.type = "script" /\ ~s.pending /\ s.scopeDepth = 0
                  /\ o = <<>> /\ k = <<>> /\ q = End
<1>1. PICK p : p = At(o, s, k)
  OBVIOUS
<1>2. p.in = s /\ p.classes = k /\ p.outer = o
  BY <1>1 DEF At
<1>3. \A q : Effect(x, p, q) <=>
               /\ Ready(p) /\ p.outer = <<>> /\ p.classes = <<>>
               /\ p.in.type = "script" /\ p.in.scopeDepth = 0 /\ q = End
  BY DEF Effect, Inside, Around, OfFunction, OfClass
<1> QED
  BY <1>1, <1>2, <1>3 DEF Ready, Active

(* Shapes, and what leaves them as they are.                               *)
LEMMA ShapeIs ==
  ASSUME NEW c
  PROVE  /\ Shape(c).type = c.type /\ Shape(c).scopeDepth = c.scopeDepth
         /\ Shape(c).more <=> Len(c.locals) > 1
         /\ Shape(c).pending <=> c.locals[Len(c.locals)].depth = -1
BY DEF Shape

LEMMA RestIs ==
  ASSUME NEW s, NEW d
  PROVE  /\ Rest(s, d).type = s.type /\ Rest(s, d).scopeDepth = d
         /\ ~Rest(s, d).more
         /\ ~Rest(s, d).pending
         /\ \A e : Rest(Rest(s, d), e) = Rest(s, e)
BY DEF Rest

LEMMA FitsIs ==
  ASSUME NEW c, NEW s, Fits(s, c)
  PROVE  /\ s.type = c.type /\ s.scopeDepth = c.scopeDepth
         /\ s.pending <=> c.locals[Len(c.locals)].depth = -1
         /\ s.more => Len(c.locals) > 1
         /\ ~s.pending => Fits(Rest(s, s.scopeDepth), c)
         /\ \A d : Shape(d) = Shape(c) => Fits(s, d)
<1>1. PICK z, r : z = Shape(c) /\ r = Rest(z, c.scopeDepth)
  OBVIOUS
<1>2. /\ z.type = c.type /\ z.scopeDepth = c.scopeDepth
      /\ z.more <=> Len(c.locals) > 1
      /\ z.pending <=> c.locals[Len(c.locals)].depth = -1
  BY <1>1, ShapeIs
<1>3. /\ r.type = z.type /\ r.scopeDepth = c.scopeDepth
      /\ ~r.more
      /\ ~r.pending
      /\ Rest(r, c.scopeDepth) = r
  BY <1>1, RestIs
<1>4. s = z \/ (~z.pending /\ s = r)
  BY <1>1 DEF Fits
<1>5. ASSUME NEW d, Shape(d) = z PROVE Fits(s, d)
  <2>1. d.scopeDepth = c.scopeDepth
    BY <1>2, <1>5, ShapeIs
  <2> QED
    BY <1>1, <1>4, <1>5, <2>1 DEF Fits
<1>6. ASSUME ~s.pending PROVE Fits(Rest(s, s.scopeDepth), c)
  <2>1. ~z.pending
    BY <1>4, <1>6
  <2>2. Rest(s, s.scopeDepth) = r
    BY <1>1, <1>2, <1>3, <1>4
  <2> QED
    BY <1>1, <2>1, <2>2 DEF Fits
<1> QED
  BY <1>1, <1>2, <1>3, <1>4, <1>5, <1>6

---------------------------------------------------------------------------
(* A step takes the first item and puts others in its place.               *)

LEMMA Here ==
  ASSUME CompilersOK, compilers # <<>>
  PROVE  /\ Len(compilers) \in Nat \ {0} /\ current = compilers[Len(compilers)]
         /\ Good(current) /\ current.type \in FunctionTypes /\ Put(current) = compilers
<1>1. Len(compilers) \in Nat \ {0}
  BY EmptySeq DEF CompilersOK
<1>2. current = compilers[Len(compilers)]
  BY DEF current, Last
<1>3. Good(current)
  BY <1>1, <1>2 DEF CompilersOK
<1>4. current.type \in FunctionTypes
  BY <1>3 DEF Good, CompilerType, FunctionTypes
<1>5. Put(current) = compilers
  BY <1>1, <1>2 DEF Put, CompilersOK
<1> QED
  BY <1>1, <1>2, <1>3, <1>4, <1>5

LEMMA Acts ==
  ASSUME NEW x, NEW p, NEW q, Effect(x, p, q)
  PROVE  Active(p)
BY DEF Effect, Ready

LEMMA Begins ==
  ASSUME IInv, NEW f, Doing(f)
  PROVE  /\ compilers # <<>> /\ Good(current) /\ current.type \in FunctionTypes
         /\ text \in Texts /\ ParserOK /\ CompilersOK /\ MadeOK /\ classes \in Seq(BOOLEAN)
         /\ todo[1][1] = f /\ Arguments(todo[1]) /\ IsList(Tail(todo))
         /\ \E o, s, r : /\ FitsOuter(o) /\ Fits(s, current)
                         /\ Effect(todo[1], At(o, s, classes), r) /\ Runs(Tail(todo), r, End)
<1>1. todo # <<>> /\ todo[1][1] = f
  BY DEF Doing
<1>2. /\ text \in Texts /\ ParserOK /\ CompilersOK /\ MadeOK /\ classes \in Seq(BOOLEAN)
      /\ IsList(todo)
  BY Parts DEF Whole
<1>3. PICK p : IsPlace(p) /\ Runs(todo, p, End)
  BY Parts DEF Whole
<1>4. /\ IsList(Tail(todo)) /\ Arguments(todo[1])
      /\ \E r : Effect(todo[1], p, r) /\ Runs(Tail(todo), r, End)
  BY <1>1, <1>2, <1>3, First
<1>5. compilers # <<>>
  <2>1. ASSUME compilers = <<>> PROVE FALSE
    <3>1. p = At(<<>>, NoShape, classes)
      BY <1>3, <2>1 DEF IsPlace
    <3>2. p.in.type = "none"
      BY <3>1 DEF At, NoShape
    <3> QED
      BY <1>4, <3>2, Acts DEF Active
  <2> QED
    BY <2>1
<1>6. \E o, s : FitsOuter(o) /\ Fits(s, current) /\ p = At(o, s, classes)
  BY <1>3, <1>5 DEF IsPlace
<1> QED
  BY <1>1, <1>2, <1>4, <1>5, <1>6, Here

LEMMA Continues ==
  ASSUME text' \in Texts, ParserOK', CompilersOK', MadeOK', classes' \in Seq(BOOLEAN),
         compilers' # <<>>, NEW o, NEW s, NEW k, k = classes', FitsOuter(o)', Fits(s, current)',
         NEW items, IsList(items), NEW r, Runs(items, At(o, s, k), r),
         IsList(Tail(todo)), Runs(Tail(todo), r, End), Do(items)
  PROVE  IInv'
<1>1. PICK K, p : K = Tail(todo) /\ p = At(o, s, k)
  OBVIOUS
<1>2. IsList(items \o K) /\ Runs(items \o K, p, End)
  BY <1>1, RunsJoined
<1>3. IsList(todo') /\ Runs(todo', p, End)
  BY <1>1, <1>2 DEF Do
<1>4. IsPlace(p)'
  BY <1>1 DEF IsPlace
<1> QED
  BY <1>3, <1>4, PartsNext DEF Whole

LEMMA Puts ==
  ASSUME CompilersOK, compilers # <<>>, NEW c, Good(c), compilers' = Put(c)
  PROVE  /\ CompilersOK' /\ compilers' # <<>> /\ current' = c
         /\ \A o : FitsOuter(o) => FitsOuter(o)'
<1>1. PICK n : n = Len(compilers)
  OBVIOUS
<1>2. n \in Nat \ {0} /\ n \in 1..n
  BY <1>1, Here
<1>3. /\ compilers' \in Seq(CompilerType) /\ Len(compilers') = n
      /\ \A i \in 1..n : compilers'[i] = IF i = n THEN c ELSE compilers[i]
  BY <1>1, <1>2, ExceptSeq DEF CompilersOK, Good, Put
<1>4. CompilersOK'
  BY <1>1, <1>3 DEF CompilersOK
<1>5. compilers' # <<>>
  BY <1>2, <1>3
<1>6. current' = c
  BY <1>2, <1>3 DEF current, Last
<1>7. ASSUME NEW o, FitsOuter(o) PROVE FitsOuter(o)'
  <2>1. IsList(o) /\ Len(o) + 1 = n /\ \A i \in 1..Len(o) : Fits(o[i], compilers[i])
    BY <1>1, <1>7 DEF FitsOuter
  <2>2. Len(o) \in Nat
    BY <2>1, TodoIs
  <2>3. \A i \in 1..Len(o) : compilers'[i] = compilers[i]
    BY <1>2, <1>3, <2>1, <2>2
  <2>4. \A i \in 1..Len(o) : Fits(o[i], compilers'[i])
    BY <2>1, <2>3
  <2> QED
    BY <1>3, <2>1, <2>4 DEF FitsOuter
<1> QED
  BY <1>4, <1>5, <1>6, <1>7

(* Only the innermost compiler changes, to c.                              *)
LEMMA Proceeds ==
  ASSUME IInv, NEW f, Doing(f), NEW c, Good(c), compilers' = Put(c),
         UNCHANGED <<text, classes, made>>, ParserOK',
         NEW o, NEW s, FitsOuter(o), Fits(s, c),
         NEW items, IsList(items), NEW r, Runs(items, At(o, s, classes), r),
         Runs(Tail(todo), r, End), Do(items)
  PROVE  IInv'
<1>1. /\ compilers # <<>> /\ text \in Texts /\ CompilersOK /\ MadeOK
      /\ classes \in Seq(BOOLEAN) /\ IsList(Tail(todo))
  BY Begins
<1>2. CompilersOK' /\ compilers' # <<>> /\ current' = c /\ FitsOuter(o)'
  BY <1>1, Puts
<1>3. Fits(s, current)'
  BY <1>2
<1>4. text' \in Texts /\ MadeOK' /\ classes' \in Seq(BOOLEAN) /\ classes' = classes
  BY <1>1 DEF MadeOK
<1> QED
  BY <1>1, <1>2, <1>3, <1>4, Continues

---------------------------------------------------------------------------
(* Lists of items of a kind.                                               *)

Ok(x, S)    == x[1] \in S /\ Arguments(x)
Level(K, S) == IsList(K) /\ \A i \in 1..Len(K) : Ok(K[i], S)
Beside == Inside \cup Around

LEMMA Wider ==
  /\ \A x : Ok(x, Inside) => Ok(x, Beside)
  /\ \A K : Level(K, Inside) => Level(K, Beside)
BY DEF Ok, Level, Beside

LEMMA Levels ==
  ASSUME NEW S
  PROVE  /\ Level(<<>>, S)
         /\ \A a : Ok(a, S) => Level(<<a>>, S)
         /\ \A a, b : Ok(a, S) /\ Ok(b, S) => Level(<<a, b>>, S)
         /\ \A a, b, c : Ok(a, S) /\ Ok(b, S) /\ Ok(c, S) => Level(<<a, b, c>>, S)
         /\ \A a, b, c, d : Ok(a, S) /\ Ok(b, S) /\ Ok(c, S) /\ Ok(d, S) =>
              Level(<<a, b, c, d>>, S)
         /\ \A a, b, c, d, e : Ok(a, S) /\ Ok(b, S) /\ Ok(c, S) /\ Ok(d, S) /\ Ok(e, S) =>
              Level(<<a, b, c, d, e>>, S)
<1>1. Level(<<>>, S)
  <2>1. \A i \in 1..Len(<<>>) : FALSE
    OBVIOUS
  <2> QED
    BY <2>1, Tuples DEF Level
<1>2. ASSUME NEW a, Ok(a, S) PROVE Level(<<a>>, S)
  <2>1. PICK K : K = <<a>>
    OBVIOUS
  <2>2. \A i \in 1..Len(K) : K[i] = a
    BY <2>1
  <2>3. IsList(K)
    BY <2>1, Tuples
  <2> QED
    BY <1>2, <2>1, <2>2, <2>3 DEF Level
<1>3. ASSUME NEW a, NEW b, Ok(a, S), Ok(b, S) PROVE Level(<<a, b>>, S)
  <2>1. PICK K : K = <<a, b>>
    OBVIOUS
  <2>2. \A i \in 1..Len(K) : K[i] = a \/ K[i] = b
    BY <2>1
  <2>3. IsList(K)
    BY <2>1, Tuples
  <2> QED
    BY <1>3, <2>1, <2>2, <2>3 DEF Level
<1>4. ASSUME NEW a, NEW b, NEW c, Ok(a, S), Ok(b, S), Ok(c, S) PROVE Level(<<a, b, c>>, S)
  <2>1. PICK K : K = <<a, b, c>>
    OBVIOUS
  <2>2. \A i \in 1..Len(K) : K[i] = a \/ K[i] = b \/ K[i] = c
    BY <2>1
  <2>3. IsList(K)
    BY <2>1, Tuples
  <2> QED
    BY <1>4, <2>1, <2>2, <2>3 DEF Level
<1>5. ASSUME NEW a, NEW b, NEW c, NEW d, Ok(a, S), Ok(b, S), Ok(c, S), Ok(d, S)
      PROVE  Level(<<a, b, c, d>>, S)
  <2>1. PICK K : K = <<a, b, c, d>>
    OBVIOUS
  <2>2. \A i \in 1..Len(K) : K[i] = a \/ K[i] = b \/ K[i] = c \/ K[i] = d
    BY <2>1
  <2>3. IsList(K)
    BY <2>1, Tuples
  <2> QED
    BY <1>5, <2>1, <2>2, <2>3 DEF Level
<1>6. ASSUME NEW a, NEW b, NEW c, NEW d, NEW e,
             Ok(a, S), Ok(b, S), Ok(c, S), Ok(d, S), Ok(e, S)
      PROVE  Level(<<a, b, c, d, e>>, S)
  <2>1. PICK K : K = <<a, b, c, d, e>>
    OBVIOUS
  <2>2. \A i \in 1..Len(K) : K[i] = a \/ K[i] = b \/ K[i] = c \/ K[i] = d \/ K[i] = e
    BY <2>1
  <2>3. IsList(K)
    BY <2>1, Tuples
  <2> QED
    BY <1>6, <2>1, <2>2, <2>3 DEF Level
<1> QED
  BY <1>1, <1>2, <1>3, <1>4, <1>5, <1>6

LEMMA LevelsJoined ==
  ASSUME NEW S, NEW K, NEW L, Level(K, S), Level(L, S)
  PROVE  Level(K \o L, S)
<1>1. PICK R : R = Range(K) \cup Range(L)
  OBVIOUS
<1>2. K \in Seq(R) /\ L \in Seq(R)
  BY <1>1, SeqMonotonic DEF Level, IsList
<1>3. PICK M, k, l : M = K \o L /\ k = Len(K) /\ l = Len(L)
  OBVIOUS
<1>4. /\ M \in Seq(R) /\ Len(M) = k + l
      /\ \A i \in 1..(k + l) : M[i] = IF i <= k THEN K[i] ELSE L[i - k]
  BY <1>2, <1>3, ConcatProperties
<1>5. k \in Nat /\ l \in Nat
  BY <1>2, <1>3, LenProperties
<1>6. ASSUME NEW i \in 1..(k + l) PROVE Ok(M[i], S)
  <2>1. CASE i <= k
    <3>1. i \in 1..k /\ M[i] = K[i]
      BY <1>4, <1>5, <2>1
    <3> QED
      BY <1>3, <3>1 DEF Level
  <2>2. CASE ~(i <= k)
    <3>1. PICK j : j = i - k
      OBVIOUS
    <3>2. j \in 1..l /\ M[i] = L[j]
      BY <1>4, <1>5, <2>2, <3>1
    <3> QED
      BY <1>3, <3>2 DEF Level
  <2> QED
    BY <2>1, <2>2
<1> QED
  BY <1>3, <1>4, <1>6, IsListIf DEF Level

LEMMA RunsSame ==
  ASSUME NEW K, IsList(K), NEW p, \A i \in 1..Len(K) : Arguments(K[i]) /\ Effect(K[i], p, p)
  PROVE  Runs(K, p, p)
<1>1. PICK n : n = Len(K)
  OBVIOUS
<1>2. n \in Nat
  BY <1>1, TodoIs
<1>3. PICK P : P = [i \in 1..(n + 1) |-> p]
  OBVIOUS
<1>4. P[1] = p /\ P[n + 1] = p
  BY <1>2, <1>3
<1>5. \A i \in 1..n : P[i] = p /\ P[i + 1] = p
  BY <1>2, <1>3
<1> QED
  BY <1>1, <1>4, <1>5 DEF Runs

LEMMA RunsInside ==
  ASSUME NEW K, Level(K, Inside), NEW o, NEW s, NEW k, s.type # "none"
  PROVE  Runs(K, At(o, s, k), At(o, s, k))
<1>1. PICK p : p = At(o, s, k)
  OBVIOUS
<1>2. Active(p)
  BY <1>1 DEF At, Active
<1>3. \A i \in 1..Len(K) : Arguments(K[i]) /\ Effect(K[i], p, p)
  BY <1>2, InsideDoes DEF Level, Ok
<1> QED
  BY <1>1, <1>3, RunsSame DEF Level

LEMMA RunsBeside ==
  ASSUME NEW K, Level(K, Beside), NEW o, NEW s, NEW d, NEW k, s.type # "none"
  PROVE  Runs(K, At(o, Rest(s, d), k), At(o, Rest(s, d), k))
<1>1. PICK z : z = Rest(s, d)
  OBVIOUS
<1>2. z.type # "none" /\ ~z.pending /\ Rest(z, z.scopeDepth) = z
  BY <1>1, RestIs
<1>3. PICK p : p = At(o, z, k)
  OBVIOUS
<1>4. Active(p)
  BY <1>2, <1>3 DEF At, Active
<1>5. ASSUME NEW i \in 1..Len(K) PROVE Arguments(K[i]) /\ Effect(K[i], p, p)
  <2>1. PICK x : x = K[i]
    OBVIOUS
  <2>2. Arguments(x) /\ (x[1] \in Inside \/ x[1] \in Around)
    BY <2>1 DEF Level, Ok, Beside
  <2>3. CASE x[1] \in Inside
    BY <1>4, <2>1, <2>2, <2>3, InsideDoes
  <2>4. CASE x[1] \in Around
    BY <1>2, <1>3, <2>1, <2>2, <2>4, AroundDoes
  <2> QED
    BY <2>2, <2>3, <2>4
<1> QED
  BY <1>1, <1>3, <1>5, RunsSame DEF Level

(* The items inside an expression keep the shape.                          *)
LEMMA InsideStep ==
  ASSUME IInv, NEW f \in Inside, Doing(f), NEW c, Good(c), Shape(c) = Shape(current),
         compilers' = Put(c), UNCHANGED <<text, classes, made>>, ParserOK',
         NEW items, Level(items, Inside), Do(items)
  PROVE  IInv'
<1>1. PICK o, s, r : /\ FitsOuter(o) /\ Fits(s, current)
                     /\ Effect(todo[1], At(o, s, classes), r) /\ Runs(Tail(todo), r, End)
  BY Begins
<1>2. todo[1][1] = f /\ current.type \in FunctionTypes
  BY Begins
<1>3. PICK p : p = At(o, s, classes)
  OBVIOUS
<1>4. r = p
  BY <1>1, <1>2, <1>3, InsideDoes
<1>5. s.type # "none" /\ Fits(s, c)
  BY <1>1, <1>2, FitsIs DEF FunctionTypes
<1>6. Runs(items, p, r)
  BY <1>3, <1>4, <1>5, RunsInside
<1> QED
  BY <1>1, <1>3, <1>5, <1>6, Proceeds DEF Level

(* Those around them may declare variables.                                *)
LEMMA AroundStep ==
  ASSUME IInv, NEW f \in Around, Doing(f), NEW c, Good(c), Shape(c) = Shape(current),
         compilers' = Put(c), UNCHANGED <<text, classes, made>>, ParserOK',
         NEW items, Level(items, Beside), Do(items)
  PROVE  IInv'
<1>1. PICK o, s, r : /\ FitsOuter(o) /\ Fits(s, current)
                     /\ Effect(todo[1], At(o, s, classes), r) /\ Runs(Tail(todo), r, End)
  BY Begins
<1>2. todo[1][1] = f /\ current.type \in FunctionTypes
  BY Begins
<1>3. PICK z : z = Rest(s, s.scopeDepth)
  OBVIOUS
<1>4. PICK p : p = At(o, z, classes)
  OBVIOUS
<1>5. s.type # "none" /\ ~s.pending /\ r = p
  BY <1>1, <1>2, <1>3, <1>4, AroundDoes
<1>6. Fits(z, current)
  BY <1>1, <1>3, <1>5, FitsIs
<1>7. Fits(z, c)
  BY <1>6, FitsIs
<1>8. Runs(items, p, r)
  BY <1>3, <1>4, <1>5, RunsBeside
<1> QED
  BY <1>1, <1>4, <1>7, <1>8, Proceeds DEF Level

---------------------------------------------------------------------------
(* The parser's two tokens.                                                *)

LEMMA Errors ==
  ASSUME NEW p \in [current : Spellings, previous : Spellings, hadError : BOOLEAN,
                    panicMode : BOOLEAN], NEW wrong
  PROVE  /\ ErrorIf(wrong, p) \in [current : Spellings, previous : Spellings,
                                   hadError : BOOLEAN, panicMode : BOOLEAN]
         /\ ErrorIf(wrong, p).current = p.current
         /\ (p.panicMode => p.hadError) =>
              /\ ErrorIf(wrong, p).panicMode => ErrorIf(wrong, p).hadError
              /\ wrong => ErrorIf(wrong, p).hadError
BY DEF ErrorIf, errorAt

LEMMA Stays ==
  ASSUME ParserOK, NEW wrong, Stay(wrong)
  PROVE  ParserOK' /\ (wrong => parser'.hadError)
BY Errors DEF Stay, ParserOK

LEMMA Spelt ==
  /\ "" \in Spellings /\ "this" \in Spellings /\ "super" \in Spellings
  /\ "?" \in Spellings /\ "eof" \in Spellings
  /\ \A t \in Texts : \A k \in 1..Len(t) : t[k] \subseteq Spellings
<1>1. ASSUME NEW t \in Texts, NEW k \in 1..Len(t) PROVE t[k] \subseteq Spellings
  <2>1. t \in Seq(SUBSET STRING)
    BY CompilerAssumption
  <2>2. t[k] \in Range(t)
    BY <2>1, LenProperties DEF Range
  <2>3. t[k] \subseteq UNION Range(t)
    BY <2>2
  <2>4. UNION Range(t) \subseteq UNION {UNION Range(u) : u \in Texts}
    OBVIOUS
  <2> QED
    BY <2>3, <2>4 DEF Spellings
<1> QED
  BY <1>1 DEF Spellings

LEMMA Scanning ==
  ASSUME text \in Texts, source \in Seq(Spellings), NEW new \in Scans
  PROVE  new \in Seq(Spellings) /\ Last(<<"eof">> \o new) \in Spellings
<1>1. Len(source) + 1 \in Nat \ {0} /\ (Len(source) + 1) + 1 \in Nat \ {0}
  BY LenProperties
<1>2. Len(text) \in Nat
  <2>1. text \in Seq(SUBSET STRING)
    BY CompilerAssumption
  <2> QED
    BY <2>1, LenProperties
<1>3. ASSUME NEW k \in Nat \ {0}, NEW t \in IF k <= Len(text) THEN text[k] ELSE {"eof"}
      PROVE  t \in Spellings
  <2>1. CASE k <= Len(text)
    <3>1. k \in 1..Len(text)
      BY <1>2, <2>1
    <3>2. text[k] \subseteq Spellings
      BY <3>1, Spelt
    <3> QED
      BY <2>1, <3>2
  <2>2. CASE ~(k <= Len(text))
    BY <2>2, Spelt
  <2> QED
    BY <2>1, <2>2
<1>4. \/ new = <<>>
      \/ \E t \in Spellings : new = <<t>>
      \/ \E t \in Spellings : new = <<"?", t>>
  BY <1>1, <1>3 DEF Scans
<1>5. CASE new = <<>>
  <2>1. PICK u : u = <<"eof">> \o new
    OBVIOUS
  <2>2. u = <<"eof">>
    BY <1>5, <2>1
  <2>3. Len(u) = 1 /\ u[1] = "eof"
    BY <2>2
  <2>4. Last(u) = "eof"
    BY <2>3 DEF Last
  <2>5. new \in Seq(Spellings)
    BY <1>5
  <2> QED
    BY <2>1, <2>4, <2>5, Spelt
<1>6. CASE \E t \in Spellings : new = <<t>>
  <2>1. PICK t \in Spellings : new = <<t>>
    BY <1>6
  <2>2. PICK u : u = <<"eof">> \o new
    OBVIOUS
  <2>3. Len(u) = 2 /\ u[2] = t
    BY <2>1, <2>2
  <2>4. Last(u) = t
    BY <2>3 DEF Last
  <2> QED
    BY <2>1, <2>2, <2>4
<1>7. CASE \E t \in Spellings : new = <<"?", t>>
  <2>1. PICK t \in Spellings : new = <<"?", t>>
    BY <1>7
  <2>2. PICK u : u = <<"eof">> \o new
    OBVIOUS
  <2>3. Len(u) = 3 /\ u[3] = t
    BY <2>1, <2>2
  <2>4. Last(u) = t
    BY <2>3 DEF Last
  <2>5. PICK e : e = "?"
    OBVIOUS
  <2>6. e \in Spellings
    BY <2>5, Spelt
  <2>7. <<e, t>> \in Seq(Spellings)
    BY <2>6
  <2> QED
    BY <2>1, <2>2, <2>4, <2>5, <2>7
<1> QED
  BY <1>4, <1>5, <1>6, <1>7

LEMMA Advances ==
  ASSUME text \in Texts, ParserOK, NEW wrong, advance(wrong)
  PROVE  ParserOK' /\ (wrong => parser'.hadError)
<1> DEFINE Parsers == [current : Spellings, previous : Spellings, hadError : BOOLEAN,
                       panicMode : BOOLEAN]
<1>1. PICK new \in Scans :
        /\ source' = source \o new
        /\ parser' = ErrorIf(wrong, [ErrorIf(Len(new) > 1, parser)
                       EXCEPT !.previous = parser.current,
                              !.current  = Last(<<"eof">> \o new)])
  BY DEF advance
<1>2. new \in Seq(Spellings) /\ Last(<<"eof">> \o new) \in Spellings
  BY <1>1, Scanning DEF ParserOK
<1>3. source' \in Seq(Spellings)
  BY <1>1, <1>2, ConcatProperties DEF ParserOK
<1>4. PICK p, l : p = ErrorIf(Len(new) > 1, parser) /\ l = Last(<<"eof">> \o new)
  OBVIOUS
<1>5. parser \in Parsers /\ p \in Parsers /\ (p.panicMode => p.hadError)
  BY <1>4, Errors DEF ParserOK
<1>6. PICK q : q = [p EXCEPT !.previous = parser.current, !.current = l]
  OBVIOUS
<1>7. q \in Parsers /\ (q.panicMode => q.hadError)
  BY <1>2, <1>4, <1>5, <1>6
<1>8. parser' = ErrorIf(wrong, q)
  BY <1>1, <1>4, <1>6
<1>9. /\ parser' \in Parsers /\ (parser'.panicMode => parser'.hadError)
      /\ wrong => parser'.hadError
  BY <1>7, <1>8, Errors
<1> QED
  BY <1>3, <1>9 DEF ParserOK

LEMMA Matches ==
  ASSUME text \in Texts, ParserOK, NEW kind, NEW wrong, NEW yes, NEW no,
         Match(kind, wrong, yes, no)
  PROVE  ParserOK' /\ (Do(yes) \/ Do(no))
BY Stays, Advances DEF Match

---------------------------------------------------------------------------
(* The items of expressions.                                               *)

NoArguments ==
  {"constant", "and_", "or_", "this_", "super_", "superName", "methods", "method",
   "recover", "synchronize", "advance", "return", "varDeclaration", "funDeclaration",
   "class", "statement", "declaration", "block", "then", "while", "forInitializer",
   "forCondition", "parameterList", "parameter", "parameterName", "endFunction",
   "endClass", "beginScope", "endScope", "script", "endCompiler"}

(* Items whose arguments stand behind the name of the function.            *)
LEMMA Simple ==
  ASSUME NEW f \in NoArguments
  PROVE  /\ Arguments(<<f>>)
         /\ \A S : f \in S => Ok(<<f>>, S)
<1>1. PICK x : x = <<f>>
  OBVIOUS
<1>2. x[1] = f
  BY <1>1
<1>3. Arguments(x)
  BY <1>2 DEF Arguments, NoArguments
<1> QED
  BY <1>1, <1>2, <1>3 DEF Ok

LEMMA SimpleItems ==
  /\ Ok(<<"constant">>, Inside)
  /\ Ok(<<"and_">>, Inside)
  /\ Ok(<<"or_">>, Inside)
  /\ Ok(<<"this_">>, Inside)
  /\ Ok(<<"super_">>, Inside)
  /\ Ok(<<"superName">>, Inside)
  /\ Ok(<<"methods">>, Inside)
  /\ Ok(<<"method">>, Inside)
  /\ Ok(<<"recover">>, Inside)
  /\ Ok(<<"synchronize">>, Inside)
  /\ Ok(<<"advance">>, Inside)
  /\ Ok(<<"return">>, Inside)
  /\ Ok(<<"varDeclaration">>, Beside)
  /\ Ok(<<"funDeclaration">>, Beside)
  /\ Ok(<<"class">>, Beside)
  /\ Ok(<<"statement">>, Beside)
  /\ Ok(<<"declaration">>, Beside)
  /\ Ok(<<"block">>, Beside)
  /\ Ok(<<"then">>, Beside)
  /\ Ok(<<"while">>, Beside)
  /\ Ok(<<"forInitializer">>, Beside)
  /\ Ok(<<"forCondition">>, Beside)
<1>1. \A f \in Inside \cap NoArguments : Ok(<<f>>, Inside)
  BY Simple
<1>2. \A f \in Around \cap NoArguments : Ok(<<f>>, Beside)
  BY Simple DEF Beside
<1>3. {"constant", "and_", "or_", "this_", "super_", "superName",
       "methods", "method", "recover", "synchronize", "advance", "return"} \subseteq Inside \cap NoArguments
  BY DEF Inside, NoArguments
<1>4. {"varDeclaration", "funDeclaration", "class", "statement", "declaration",
       "block", "then", "while", "forInitializer", "forCondition"} \subseteq Around \cap NoArguments
  BY DEF Around, NoArguments
<1> QED
  BY <1>1, <1>2, <1>3, <1>4

LEMMA Items ==
  /\ \A k : Ok(Consume(k), Inside)
  /\ \A n \in Nat \ {0} : Ok(<<"parsePrecedence", n>>, Inside) /\ Ok(<<"infix", n>>, Inside)
  /\ Ok(expression, Inside)
  /\ \A t \in Spellings, b \in BOOLEAN : Ok(Name(t, b), Inside)
  /\ \A bytes \in Seq(Bytes) : Ok(<<"emit", bytes>>, Inside)
  /\ \A n \in Nat : Ok(<<"patchJump", n>>, Inside) /\ Ok(<<"superCall", n>>, Inside)
  /\ \A a : IsAfter(a) => Ok(<<"argumentList", a>>, Inside)
  /\ \A a : IsAfter(a) => \A n \in 0..ByteMax : Ok(<<"argument", a, n>>, Inside)
  /\ \A b \in BOOLEAN : Ok(<<"dot", b>>, Inside)
  /\ \A t \in FunctionTypes : Ok(<<"function", t>>, Inside)
  /\ \A m \in Nat, n \in Nat \cup {NoExit} : Ok(<<"endLoop", m, n>>, Inside)
<1>1. ASSUME NEW k PROVE Ok(Consume(k), Inside)
  <2>1. PICK x : x = Consume(k)
    OBVIOUS
  <2>2. x[1] = "consume"
    BY <2>1 DEF Consume
  <2> QED
    BY <2>1, <2>2 DEF Ok, Inside, Arguments
<1>2. ASSUME NEW n \in Nat, NEW f \in {"parsePrecedence", "infix", "patchJump", "superCall"},
             n # 0 \/ f \in {"patchJump", "superCall"}
      PROVE  Ok(<<f, n>>, Inside)
  <2>1. PICK x : x = <<f, n>>
    OBVIOUS
  <2>2. x[1] = f /\ x[2] = n
    BY <2>1
  <2> QED
    BY <1>2, <2>1, <2>2 DEF Ok, Inside, Arguments
<1>3. ASSUME NEW t \in Spellings, NEW b \in BOOLEAN PROVE Ok(Name(t, b), Inside)
  <2>1. PICK x : x = Name(t, b)
    OBVIOUS
  <2>2. x[1] = "namedVariable" /\ x[2] = t /\ x[3] = b
    BY <2>1 DEF Name
  <2> QED
    BY <2>1, <2>2 DEF Ok, Inside, Arguments
<1>4. ASSUME NEW bytes \in Seq(Bytes) PROVE Ok(<<"emit", bytes>>, Inside)
  <2>1. PICK x : x = <<"emit", bytes>>
    OBVIOUS
  <2>2. x[1] = "emit" /\ x[2] = bytes
    BY <2>1
  <2> QED
    BY <2>1, <2>2 DEF Ok, Inside, Arguments
<1>5. ASSUME NEW a, IsAfter(a) PROVE Ok(<<"argumentList", a>>, Inside)
  <2>1. PICK x : x = <<"argumentList", a>>
    OBVIOUS
  <2>2. x[1] = "argumentList" /\ x[2] = a
    BY <2>1
  <2> QED
    BY <1>5, <2>1, <2>2 DEF Ok, Inside, Arguments
<1>6. ASSUME NEW a, IsAfter(a), NEW n \in 0..ByteMax PROVE Ok(<<"argument", a, n>>, Inside)
  <2>1. PICK x : x = <<"argument", a, n>>
    OBVIOUS
  <2>2. x[1] = "argument" /\ x[2] = a /\ x[3] = n
    BY <2>1
  <2> QED
    BY <1>6, <2>1, <2>2 DEF Ok, Inside, Arguments
<1>7. ASSUME NEW b \in BOOLEAN PROVE Ok(<<"dot", b>>, Inside)
  <2>1. PICK x : x = <<"dot", b>>
    OBVIOUS
  <2>2. x[1] = "dot" /\ x[2] = b
    BY <2>1
  <2> QED
    BY <2>1, <2>2 DEF Ok, Inside, Arguments
<1>8. ASSUME NEW t \in FunctionTypes PROVE Ok(<<"function", t>>, Inside)
  <2>1. PICK x : x = <<"function", t>>
    OBVIOUS
  <2>2. x[1] = "function" /\ x[2] = t
    BY <2>1
  <2> QED
    BY <2>1, <2>2 DEF Ok, Inside, Arguments
<1>9. ASSUME NEW m \in Nat, NEW n \in Nat \cup {NoExit} PROVE Ok(<<"endLoop", m, n>>, Inside)
  <2>1. PICK x : x = <<"endLoop", m, n>>
    OBVIOUS
  <2>2. x[1] = "endLoop" /\ x[2] = m /\ x[3] = n
    BY <2>1
  <2> QED
    BY <2>1, <2>2 DEF Ok, Inside, Arguments
<1>10. Ok(expression, Inside)
  <2>1. \A n \in Nat \ {0} : Ok(<<"parsePrecedence", n>>, Inside)
    BY <1>2
  <2> QED
    BY <2>1 DEF expression
<1> QED
  BY <1>1, <1>2, <1>3, <1>4, <1>5, <1>6, <1>7, <1>8, <1>9, <1>10

LEMMA Emitting ==
  /\ \A op \in OpCode : <<Opcode(op)>> \in Seq(Bytes) /\ Ok(Emits(op), Inside)
  /\ \A op \in OpCode, n \in Int :
       <<Opcode(op), Byte(n)>> \in Seq(Bytes) /\ Ok(EmitsArg(op, n), Inside)
<1>1. ASSUME NEW op \in OpCode PROVE <<Opcode(op)>> \in Seq(Bytes) /\ Ok(Emits(op), Inside)
  <2>1. PICK b : b = Opcode(op)
    OBVIOUS
  <2>2. b \in Bytes
    BY <2>1, BytesAre
  <2>3. <<b>> \in Seq(Bytes)
    BY <2>2
  <2> QED
    BY <2>1, <2>3, Items DEF Emits
<1>2. ASSUME NEW op \in OpCode, NEW n \in Int
      PROVE  <<Opcode(op), Byte(n)>> \in Seq(Bytes) /\ Ok(EmitsArg(op, n), Inside)
  <2>1. PICK b, d : b = Opcode(op) /\ d = Byte(n)
    OBVIOUS
  <2>2. b \in Bytes /\ d \in Bytes
    BY <2>1, BytesAre
  <2>3. <<b, d>> \in Seq(Bytes)
    BY <2>2
  <2> QED
    BY <2>1, <2>3, Items DEF EmitsArg
<1> QED
  BY <1>1, <1>2

---------------------------------------------------------------------------
(* Expressions.                                                            *)

LEMMA Unchanged ==
  ASSUME IInv, NEW f, Doing(f), UNCHANGED <<source, parser>>
  PROVE  ParserOK'
BY Begins DEF ParserOK

LEMMA QuietInside ==
  ASSUME IInv, NEW f \in Inside, Doing(f), UNCHANGED <<text, compilers, classes, made>>, ParserOK',
         NEW items, Level(items, Inside), Do(items)
  PROVE  IInv'
<1>1. Good(current) /\ compilers' = Put(current)
  BY Begins, Here
<1>2. PICK c : c = current
  OBVIOUS
<1>3. Good(c) /\ Shape(c) = Shape(current) /\ compilers' = Put(c)
  BY <1>1, <1>2
<1> QED
  BY <1>3, InsideStep

LEMMA QuietAround ==
  ASSUME IInv, NEW f \in Around, Doing(f), UNCHANGED <<text, compilers, classes, made>>, ParserOK',
         NEW items, Level(items, Beside), Do(items)
  PROVE  IInv'
<1>1. Good(current) /\ compilers' = Put(current)
  BY Begins, Here
<1>2. PICK c : c = current
  OBVIOUS
<1>3. Good(c) /\ Shape(c) = Shape(current) /\ compilers' = Put(c)
  BY <1>1, <1>2
<1> QED
  BY <1>3, AroundStep

LEMMA ConsumeKeeps ==
  ASSUME IInv, consume
  PROVE  IInv'
<1>1. Doing("consume") /\ Do(<<>>) /\ UNCHANGED <<text, compilers, classes, made>>
  BY DEF consume
<1>2. ParserOK'
  BY <1>1, Begins, Stays, Advances DEF consume
<1> QED
  BY <1>1, <1>2, QuietInside, Levels DEF Inside

LEMMA EmitKeeps ==
  ASSUME IInv, emit
  PROVE  IInv'
<1>1. /\ Doing("emit") /\ Do(<<>>) /\ compilers' = Put(Emit(current, todo[1][2]))
      /\ UNCHANGED <<text, source, parser, classes, made>>
  BY DEF emit
<1>2. Good(current) /\ todo[1][2] \in Seq(Bytes)
  BY <1>1, Begins DEF Arguments
<1>3. PICK c : c = Emit(current, todo[1][2])
  OBVIOUS
<1>4. Good(c) /\ Shape(c) = Shape(current)
  BY <1>2, <1>3, Emitted
<1>5. ParserOK'
  BY <1>1, Unchanged
<1> QED
  BY <1>1, <1>3, <1>4, <1>5, InsideStep, Levels DEF Inside

LEMMA BinaryRules ==
  ASSUME NEW t \in DOMAIN Binary
  PROVE  Level(BinaryRule(t), Inside)
<1>1. PICK b : b = Binary[t]
  OBVIOUS
<1>2. \/ \E n \in Nat, x \in OpCode : b = <<n, <<x>> >>
      \/ \E n \in Nat, x, y \in OpCode : b = <<n, <<x, y>> >>
  BY <1>1 DEF Binary, OpCode
<1>3. PICK ops : ops = b[2]
  OBVIOUS
<1>4. b[1] \in Nat /\ Len(ops) \in Nat /\ \A i \in 1..Len(ops) : ops[i] \in OpCode
  <2>1. CASE \E n \in Nat, x \in OpCode : b = <<n, <<x>> >>
    BY <1>3, <2>1
  <2>2. CASE \E n \in Nat, x, y \in OpCode : b = <<n, <<x, y>> >>
    <3>1. PICK n \in Nat, x \in OpCode, y \in OpCode : b = <<n, <<x, y>> >>
      BY <2>2
    <3>2. ops = <<x, y>> /\ b[1] = n
      BY <1>3, <3>1
    <3>3. Len(ops) = 2 /\ ops[1] = x /\ ops[2] = y
      BY <3>2
    <3>4. \A i \in 1..Len(ops) : ops[i] = x \/ ops[i] = y
      BY <3>3
    <3> QED
      BY <3>2, <3>3, <3>4
  <2> QED
    BY <1>2, <2>1, <2>2
<1>5. PICK bytes : bytes = [i \in 1..Len(ops) |-> Opcode(ops[i])]
  OBVIOUS
<1>6. bytes \in Seq(Bytes)
  <2>1. \A i \in 1..Len(ops) : Opcode(ops[i]) \in Bytes
    BY <1>4, BytesAre
  <2>2. bytes \in [1..Len(ops) -> Bytes]
    BY <1>5, <2>1
  <2> QED
    BY <1>4, <2>2
<1>7. PICK m : m = b[1] + 1
  OBVIOUS
<1>8. m \in Nat \ {0}
  BY <1>4, <1>7
<1>9. Ok(<<"parsePrecedence", m>>, Inside) /\ Ok(<<"emit", bytes>>, Inside)
  BY <1>6, <1>8, Items
<1>10. BinaryRule(t) = <<<<"parsePrecedence", m>>, <<"emit", bytes>> >>
  BY <1>1, <1>3, <1>5, <1>7 DEF BinaryRule
<1> QED
  BY <1>9, <1>10, Levels

LEMMA PrefixRules ==
  ASSUME NEW t \in PrefixTokens, t \in Spellings, NEW b \in BOOLEAN
  PROVE  Level(PrefixRule(t, b), Inside)
<1>1. Level(<<expression, Consume(")")>>, Inside)
  BY Items, Levels
<1>2. /\ Level(<<<<"parsePrecedence", 8>>, Emits("NEGATE")>>, Inside)
      /\ Level(<<<<"parsePrecedence", 8>>, Emits("NOT")>>, Inside)
  <2>1. Ok(<<"parsePrecedence", 8>>, Inside)
    <3>1. \A n \in Nat \ {0} : Ok(<<"parsePrecedence", n>>, Inside)
      BY Items
    <3> QED
      BY <3>1
  <2>2. Ok(Emits("NEGATE"), Inside) /\ Ok(Emits("NOT"), Inside)
    BY Emitting DEF OpCode
  <2> QED
    BY <2>1, <2>2, Levels
<1>3. ASSUME t \in DOMAIN Literal PROVE Level(<<Emits(Literal[t])>>, Inside)
  <2>1. Literal[t] \in OpCode
    BY <1>3 DEF Literal, OpCode
  <2> QED
    BY <2>1, Emitting, Levels
<1>4. /\ Level(<<<<"constant">>>>, Inside) /\ Level(<<<<"this_">>>>, Inside)
      /\ Level(<<<<"super_">>>>, Inside)
  BY SimpleItems, Levels
<1>5. Level(<<Name(t, b)>>, Inside)
  BY Items, Levels
<1>6. CASE t = "("
  BY <1>1, <1>6 DEF PrefixRule, Literal
<1>7. CASE t = "-" \/ t = "!"
  BY <1>2, <1>7 DEF PrefixRule, Literal
<1>8. CASE t \in DOMAIN Literal
  BY <1>3, <1>8 DEF PrefixRule, Literal
<1>9. CASE t \in {"number", "string", "this", "super"}
  BY <1>4, <1>9 DEF PrefixRule, Literal
<1>10. CASE t \notin {"(", "-", "!", "number", "string", "this", "super"} \cup DOMAIN Literal
  BY <1>5, <1>10 DEF PrefixRule
<1> QED
  BY <1>6, <1>7, <1>8, <1>9, <1>10

LEMMA InfixRules ==
  ASSUME NEW t, Precedence(t) > 0, NEW b \in BOOLEAN
  PROVE  Level(InfixRule(t, b), Inside)
<1>1. t \in {"(", ".", "and", "or"} \cup DOMAIN Binary
  BY DEF Precedence
<1>2. CASE t = "("
  <2>1. PICK a : a = <<"CALL">>
    OBVIOUS
  <2>2. IsAfter(a)
    BY <2>1 DEF IsAfter
  <2>3. Level(<<<<"argumentList", a>> >>, Inside)
    BY <2>2, Items, Levels
  <2> QED
    BY <1>2, <2>1, <2>3 DEF InfixRule
<1>3. CASE t = "."
  <2>1. Level(<<Consume("identifier"), <<"dot", b>> >>, Inside)
    BY Items, Levels
  <2> QED
    BY <1>3, <2>1 DEF InfixRule
<1>4. CASE t = "and"
  BY <1>4, SimpleItems, Levels DEF InfixRule
<1>5. CASE t = "or"
  BY <1>5, SimpleItems, Levels DEF InfixRule
<1>6. CASE t \in DOMAIN Binary
  <2>1. InfixRule(t, b) = BinaryRule(t)
    BY <1>6 DEF InfixRule, Binary
  <2> QED
    BY <1>6, <2>1, BinaryRules
<1> QED
  BY <1>1, <1>2, <1>3, <1>4, <1>5, <1>6

LEMMA Jumped ==
  ASSUME NEW c, Good(c), NEW op \in OpCode
  PROVE  /\ Good(emitJump(c, op)) /\ Shape(emitJump(c, op)) = Shape(c)
         /\ Good(Emit(emitJump(c, op), <<Opcode("POP")>>))
         /\ Shape(Emit(emitJump(c, op), <<Opcode("POP")>>)) = Shape(c)
         /\ JumpFrom(c) \in Nat
<1>1. PICK b, d : b = Opcode(op) /\ d = Byte(ByteMax)
  OBVIOUS
<1>2. b \in Bytes /\ d \in Bytes
  BY <1>1, BytesAre, Count
<1>3. <<b, d, d>> \in Seq(Bytes)
  BY <1>2
<1>4. emitJump(c, op) = Emit(c, <<b, d, d>>)
  BY <1>1 DEF emitJump
<1>5. Good(emitJump(c, op)) /\ Shape(emitJump(c, op)) = Shape(c)
  BY <1>3, <1>4, Emitted
<1>6. <<Opcode("POP")>> \in Seq(Bytes)
  BY Emitting DEF OpCode
<1>7. PICK j : j = emitJump(c, op)
  OBVIOUS
<1>8. Good(Emit(j, <<Opcode("POP")>>)) /\ Shape(Emit(j, <<Opcode("POP")>>)) = Shape(j)
  BY <1>5, <1>6, <1>7, Emitted
<1>9. JumpFrom(c) \in Nat
  BY Fields DEF JumpFrom, Good
<1> QED
  BY <1>5, <1>7, <1>8, <1>9

LEMMA Looped ==
  ASSUME NEW c, Good(c), NEW start \in Int
  PROVE  Good(emitLoop(c, start)) /\ Shape(emitLoop(c, start)) = Shape(c)
<1>1. BackTo(c, start) \in Int /\ BackTo(c, start) \div UINT8_COUNT \in Int
  <2>1. BackTo(c, start) \in Int
    BY Fields DEF BackTo, Good
  <2> QED
    BY <2>1, Count
<1>2. PICK a, b, d : /\ a = Opcode("LOOP") /\ b = Byte(BackTo(c, start) \div UINT8_COUNT)
                     /\ d = Byte(BackTo(c, start))
  OBVIOUS
<1>3. a \in Bytes /\ b \in Bytes /\ d \in Bytes
  <2>1. "LOOP" \in OpCode
    BY DEF OpCode, Jumps
  <2> QED
    BY <1>1, <1>2, <2>1, BytesAre
<1>4. <<a, b, d>> \in Seq(Bytes)
  BY <1>3
<1>5. emitLoop(c, start) = Emit(c, <<a, b, d>>)
  BY <1>2 DEF emitLoop
<1> QED
  BY <1>4, <1>5, Emitted

LEMMA Returned ==
  ASSUME NEW c, Good(c)
  PROVE  /\ Good(emitReturn(c)) /\ Shape(emitReturn(c)) = Shape(c)
         /\ emitReturn(c).locals = c.locals
<1>1. PICK a, b, d, e : a = Opcode("GET_LOCAL") /\ b = Byte(0) /\ d = Opcode("RETURN") /\ e = Opcode("NIL")
  OBVIOUS
<1>2. a \in Bytes /\ b \in Bytes /\ d \in Bytes /\ e \in Bytes
  BY <1>1, BytesAre DEF OpCode, ByteInstructions
<1>3. <<a, b, d>> \in Seq(Bytes) /\ <<e, d>> \in Seq(Bytes)
  BY <1>2
<1>4. emitReturn(c) = Emit(c, <<a, b, d>>) \/ emitReturn(c) = Emit(c, <<e, d>>)
  BY <1>1 DEF emitReturn
<1>5. \A bytes : Emit(c, bytes).locals = c.locals
  BY Fields DEF Emit, Good
<1> QED
  BY <1>3, <1>4, <1>5, Emitted

LEMMA ParsePrecedenceKeeps ==
  ASSUME IInv, parsePrecedence
  PROVE  IInv'
<1>1. Doing("parsePrecedence") /\ UNCHANGED <<text, compilers, classes, made>>
  BY DEF parsePrecedence
<1>2. PICK n, t : n = todo[1][2] /\ t = parser.current
  OBVIOUS
<1>3. /\ n \in Nat \ {0} /\ t \in Spellings /\ (n <= 1) \in BOOLEAN
      /\ ParserOK /\ text \in Texts
  BY <1>1, <1>2, Begins DEF Arguments, ParserOK
<1>4. CASE t \in PrefixTokens
  <2>1. advance(FALSE) /\ Do(PrefixRule(t, n <= 1) \o <<<<"infix", n>>>>)
    BY <1>2, <1>4 DEF parsePrecedence
  <2>2. PICK items, b : items = PrefixRule(t, b) \o <<<<"infix", n>>>> /\ b = (n <= 1)
    OBVIOUS
  <2>3. Level(PrefixRule(t, b), Inside)
    BY <1>3, <1>4, <2>2, PrefixRules
  <2>4. Level(<<<<"infix", n>>>>, Inside)
    BY <1>3, Items, Levels
  <2>5. Level(items, Inside)
    BY <2>2, <2>3, <2>4, LevelsJoined
  <2>6. ParserOK'
    BY <1>3, <2>1, Advances
  <2>7. Do(items)
    BY <2>1, <2>2
  <2> QED
    BY <1>1, <2>5, <2>6, <2>7, QuietInside DEF Inside
<1>5. CASE t \notin PrefixTokens
  <2>1. advance(TRUE) /\ Do(<<>>)
    BY <1>2, <1>5 DEF parsePrecedence
  <2>2. ParserOK'
    BY <1>3, <2>1, Advances
  <2> QED
    BY <1>1, <2>1, <2>2, QuietInside, Levels DEF Inside
<1> QED
  BY <1>4, <1>5

LEMMA InfixKeeps ==
  ASSUME IInv, infix
  PROVE  IInv'
<1>1. Doing("infix") /\ UNCHANGED <<text, compilers, classes, made>>
  BY DEF infix
<1>2. PICK n, t : n = todo[1][2] /\ t = parser.current
  OBVIOUS
<1>3. /\ n \in Nat \ {0} /\ t \in Spellings /\ (n <= 1) \in BOOLEAN
      /\ ParserOK /\ text \in Texts
  BY <1>1, <1>2, Begins DEF Arguments, ParserOK
<1>4. CASE n <= Precedence(t)
  <2>1. advance(FALSE) /\ Do(InfixRule(t, n <= 1) \o <<<<"infix", n>>>>)
    BY <1>2, <1>4 DEF infix
  <2>2. PICK items, b : items = InfixRule(t, b) \o <<<<"infix", n>>>> /\ b = (n <= 1)
    OBVIOUS
  <2>3. Precedence(t) \in Nat
    BY DEF Precedence, Binary
  <2>4. Precedence(t) > 0
    BY <1>3, <1>4, <2>3
  <2>5. Level(InfixRule(t, b), Inside)
    BY <1>3, <2>2, <2>4, InfixRules
  <2>6. Level(<<<<"infix", n>>>>, Inside)
    BY <1>3, Items, Levels
  <2>7. Level(items, Inside)
    BY <2>2, <2>5, <2>6, LevelsJoined
  <2>8. ParserOK'
    BY <1>3, <2>1, Advances
  <2>9. Do(items)
    BY <2>1, <2>2
  <2> QED
    BY <1>1, <2>7, <2>8, <2>9, QuietInside DEF Inside
<1>5. CASE ~(n <= Precedence(t))
  <2>1. (advance(TRUE) \/ Stay(FALSE)) /\ Do(<<>>)
    BY <1>2, <1>5 DEF infix
  <2>2. ParserOK'
    BY <1>3, <2>1, Advances, Stays
  <2> QED
    BY <1>1, <2>1, <2>2, QuietInside, Levels DEF Inside
<1> QED
  BY <1>4, <1>5

(* A constant is added; what it is does not matter to the code.            *)
LEMMA ConstantAdded ==
  ASSUME IInv, NEW f, Doing(f)
  PROVE  \E c : /\ c = AddConstant(current, Constant(parser.previous))
                /\ Good(c) /\ Shape(c) = Shape(current) /\ NextConstant(current) \in Nat
<1>1. /\ Good(current) /\ current \in CompilerType /\ parser.previous \in Spellings
  BY Begins DEF ParserOK, Good
<1>2. PICK v : v = Constant(parser.previous)
  OBVIOUS
<1>3. v \in [name : Spellings, upvalueCount : Nat] /\ NextConstant(current) \in Nat
  BY <1>1, <1>2, ConstantsAre
<1>4. Good(AddConstant(current, v)) /\ Shape(AddConstant(current, v)) = Shape(current)
  BY <1>1, <1>3, Added
<1> QED
  BY <1>2, <1>3, <1>4

LEMMA ConstantKeeps ==
  ASSUME IInv, constant
  PROVE  IInv'
<1>1. /\ Doing("constant") /\ UNCHANGED <<text, classes, made>>
      /\ compilers' = Put(AddConstant(current, Constant(parser.previous)))
      /\ Stay(TooManyConstants(current))
      /\ Do(<<EmitsArg("CONSTANT", NextConstant(current))>>)
  BY DEF constant
<1>2. PICK c : /\ c = AddConstant(current, Constant(parser.previous))
               /\ Good(c) /\ Shape(c) = Shape(current) /\ NextConstant(current) \in Nat
  BY <1>1, ConstantAdded
<1>3. ParserOK'
  BY <1>1, Begins, Stays
<1>4. PICK n : n = NextConstant(current)
  OBVIOUS
<1>5. Ok(EmitsArg("CONSTANT", n), Inside)
  BY <1>2, <1>4, Emitting DEF OpCode, ByteInstructions
<1>6. Level(<<EmitsArg("CONSTANT", n)>>, Inside)
  BY <1>5, Levels
<1> QED
  BY <1>1, <1>2, <1>3, <1>4, <1>6, InsideStep DEF Inside

LEMMA AndKeeps ==
  ASSUME IInv, and_
  PROVE  IInv'
<1>1. /\ Doing("and_") /\ UNCHANGED <<text, source, parser, classes, made>>
      /\ compilers' = Put(Emit(emitJump(current, "JUMP_IF_FALSE"), <<Opcode("POP")>>))
      /\ Do(<<<<"parsePrecedence", 3>>, <<"patchJump", JumpFrom(current)>>>>)
  BY DEF and_
<1>2. Good(current) /\ ParserOK'
  BY <1>1, Begins, Unchanged
<1>3. PICK c, n : /\ c = Emit(emitJump(current, "JUMP_IF_FALSE"), <<Opcode("POP")>>)
                  /\ n = JumpFrom(current)
  OBVIOUS
<1>4. "JUMP_IF_FALSE" \in OpCode
  BY DEF OpCode, Jumps
<1>5. Good(c) /\ Shape(c) = Shape(current) /\ n \in Nat
  BY <1>2, <1>3, <1>4, Jumped
<1>6. Level(<<<<"parsePrecedence", 3>>, <<"patchJump", n>>>>, Inside)
  <2>1. \A m \in Nat \ {0} : Ok(<<"parsePrecedence", m>>, Inside)
    BY Items
  <2>2. Ok(<<"parsePrecedence", 3>>, Inside)
    BY <2>1
  <2> QED
    BY <1>5, <2>2, Items, Levels
<1> QED
  BY <1>1, <1>2, <1>3, <1>5, <1>6, InsideStep DEF Inside

LEMMA OrKeeps ==
  ASSUME IInv, or_
  PROVE  IInv'
<1>1. PICK f, e : f = emitJump(current, "JUMP_IF_FALSE") /\ e = emitJump(f, "JUMP")
  OBVIOUS
<1>2. /\ Doing("or_") /\ UNCHANGED <<text, classes, made>>
      /\ compilers' = Put(Emit(patchJump(e, JumpFrom(current)), <<Opcode("POP")>>))
      /\ Stay(Distance(e, JumpFrom(current)) > UINT16_MAX)
      /\ Do(<<<<"parsePrecedence", 2>>, <<"patchJump", JumpFrom(f)>>>>)
  BY <1>1 DEF or_
<1>3. Good(current) /\ ParserOK'
  BY <1>2, Begins, Stays
<1>4. "JUMP_IF_FALSE" \in OpCode /\ "JUMP" \in OpCode /\ "POP" \in OpCode
  BY DEF OpCode, Jumps
<1>5. Good(f) /\ Shape(f) = Shape(current) /\ JumpFrom(current) \in Nat
  BY <1>1, <1>3, <1>4, Jumped
<1>6. Good(e) /\ Shape(e) = Shape(f) /\ JumpFrom(f) \in Nat
  BY <1>1, <1>4, <1>5, Jumped
<1>7. PICK d, c, n : /\ d = patchJump(e, JumpFrom(current)) /\ c = Emit(d, <<Opcode("POP")>>)
                     /\ n = JumpFrom(f)
  OBVIOUS
<1>8. Good(d) /\ Shape(d) = Shape(e)
  BY <1>5, <1>6, <1>7, Patched
<1>9. Good(c) /\ Shape(c) = Shape(d)
  BY <1>4, <1>7, <1>8, Emitting, Emitted
<1>10. Level(<<<<"parsePrecedence", 2>>, <<"patchJump", n>>>>, Inside)
  <2>1. \A m \in Nat \ {0} : Ok(<<"parsePrecedence", m>>, Inside)
    BY Items
  <2>2. Ok(<<"parsePrecedence", 2>>, Inside)
    BY <2>1
  <2> QED
    BY <1>6, <1>7, <2>2, Items, Levels
<1>11. Shape(c) = Shape(current)
  BY <1>5, <1>6, <1>8, <1>9
<1> QED
  BY <1>2, <1>3, <1>7, <1>9, <1>10, <1>11, InsideStep DEF Inside

LEMMA EndJumpKeeps ==
  ASSUME IInv, endJump
  PROVE  IInv'
<1>1. /\ Doing("patchJump") /\ UNCHANGED <<text, classes, made>> /\ Do(<<>>)
      /\ compilers' = Put(patchJump(current, todo[1][2]))
      /\ Stay(Distance(current, todo[1][2]) > UINT16_MAX)
  BY DEF endJump
<1>2. Good(current) /\ ParserOK' /\ todo[1][2] \in Nat
  BY <1>1, Begins, Stays DEF Arguments
<1>3. PICK c : c = patchJump(current, todo[1][2])
  OBVIOUS
<1>4. Good(c) /\ Shape(c) = Shape(current)
  BY <1>2, <1>3, Patched
<1> QED
  BY <1>1, <1>2, <1>3, <1>4, InsideStep, Levels DEF Inside

LEMMA Calls ==
  ASSUME NEW a, IsAfter(a), NEW n \in Int
  PROVE  Level(Call(a, n), Inside)
<1>1. PICK M, op : M = [i \in 1..(Len(a) - 1) |-> Byte(a[i + 1])] /\ op = a[1]
  OBVIOUS
<1>2. M \in Seq(Bytes) /\ op \in OpCode
  <2>1. CASE a = <<"CALL">>
    <3>1. Len(a) = 1 /\ a[1] = "CALL"
      BY <2>1
    <3>2. M \in [1..0 -> Bytes]
      BY <1>1, <3>1
    <3> QED
      BY <1>1, <3>1, <3>2 DEF OpCode, ByteInstructions
  <2>2. CASE \E m \in Nat : a = <<"INVOKE", m>> \/ a = <<"SUPER_INVOKE", m>>
    <3>1. PICK m \in Nat : a = <<"INVOKE", m>> \/ a = <<"SUPER_INVOKE", m>>
      BY <2>2
    <3>2. Len(a) = 2 /\ a[2] = m /\ (a[1] = "INVOKE" \/ a[1] = "SUPER_INVOKE")
      BY <3>1
    <3>3. PICK b : b = Byte(m)
      OBVIOUS
    <3>4. b \in Bytes
      BY <3>3, BytesAre
    <3>5. \A i \in 1..1 : a[i + 1] = m
      BY <3>2
    <3>6. M = [i \in 1..1 |-> b]
      BY <1>1, <3>2, <3>3, <3>5
    <3>7. M \in [1..1 -> Bytes]
      BY <3>4, <3>6
    <3> QED
      BY <1>1, <3>2, <3>7 DEF OpCode, Invocations
  <2> QED
    BY <2>1, <2>2 DEF IsAfter
<1>3. PICK x, y : x = Opcode(op) /\ y = Byte(n)
  OBVIOUS
<1>4. x \in Bytes /\ y \in Bytes
  BY <1>2, <1>3, BytesAre
<1>5. <<x>> \in Seq(Bytes) /\ <<y>> \in Seq(Bytes)
  BY <1>4
<1>6. (<<x>> \o M) \o <<y>> \in Seq(Bytes)
  BY <1>2, <1>5, ConcatProperties
<1>7. PICK e : e = <<"emit", (<<x>> \o M) \o <<y>> >>
  OBVIOUS
<1>8. Level(<<e>>, Inside)
  BY <1>6, <1>7, Items, Levels
<1>9. Level(<<Consume(")")>>, Inside)
  BY Items, Levels
<1>10. PICK s : s = IF op = "SUPER_INVOKE" THEN <<Name("super", FALSE)>> ELSE <<>>
  OBVIOUS
<1>11. Level(s, Inside)
  <2>1. Level(<<>>, Inside) /\ Level(<<Name("super", FALSE)>>, Inside)
    BY Items, Levels, Spelt
  <2> QED
    BY <1>10, <2>1
<1>12. Level((<<Consume(")")>> \o s) \o <<e>>, Inside)
  BY <1>8, <1>9, <1>11, LevelsJoined
<1>13. Call(a, n) = (<<Consume(")")>> \o s) \o <<e>>
  BY <1>1, <1>3, <1>7, <1>10 DEF Call
<1> QED
  BY <1>12, <1>13

LEMMA ArgumentListKeeps ==
  ASSUME IInv, argumentList
  PROVE  IInv'
<1>1. Doing("argumentList") /\ UNCHANGED <<text, source, parser, compilers, classes, made>>
  BY DEF argumentList
<1>2. PICK a : a = todo[1][2]
  OBVIOUS
<1>3. IsAfter(a) /\ ParserOK'
  BY <1>1, <1>2, Begins, Unchanged DEF Arguments
<1>4. Level(Call(a, 0), Inside)
  BY <1>3, Calls
<1>5. Level(<<expression, <<"argument", a, 0>>>>, Inside)
  <2>1. 0 \in 0..ByteMax
    BY Count
  <2>2. Ok(<<"argument", a, 0>>, Inside) /\ Ok(expression, Inside)
    BY <1>3, <2>1, Items
  <2> QED
    BY <2>2, Levels
<1>6. Do(Call(a, 0)) \/ Do(<<expression, <<"argument", a, 0>>>>)
  BY <1>2 DEF argumentList
<1> QED
  BY <1>1, <1>3, <1>4, <1>5, <1>6, QuietInside DEF Inside

LEMMA ArgumentKeeps ==
  ASSUME IInv, argument
  PROVE  IInv'
<1>1. Doing("argument") /\ UNCHANGED <<text, compilers, classes, made>>
  BY DEF argument
<1>2. PICK a, n : a = todo[1][2] /\ n = (todo[1][3] + 1) % UINT8_COUNT
  OBVIOUS
<1>3. Match(",", todo[1][3] = ByteMax, <<expression, <<"argument", a, n>>>>, Call(a, n))
  BY <1>2 DEF argument
<1>4. IsAfter(a) /\ todo[1][3] \in 0..ByteMax /\ text \in Texts /\ ParserOK
  BY <1>1, <1>2, Begins DEF Arguments
<1>5. n \in 0..ByteMax
  BY <1>2, <1>4, Count
<1>6. /\ ParserOK'
      /\ Do(<<expression, <<"argument", a, n>>>>) \/ Do(Call(a, n))
  BY <1>3, <1>4, Matches
<1>7. Level(<<expression, <<"argument", a, n>>>>, Inside)
  BY <1>4, <1>5, Items, Levels
<1>8. Level(Call(a, n), Inside)
  BY <1>4, <1>5, Calls
<1> QED
  BY <1>1, <1>6, <1>7, <1>8, QuietInside DEF Inside

LEMMA DotKeeps ==
  ASSUME IInv, dot
  PROVE  IInv'
<1>1. PICK n, full : n = NextConstant(current) /\ full = TooManyConstants(current)
  OBVIOUS
<1>2. /\ Doing("dot") /\ UNCHANGED <<text, classes, made>>
      /\ compilers' = Put(AddConstant(current, Constant(parser.previous)))
      /\ \/ advance(full) /\ Do(<<expression, EmitsArg("SET_PROPERTY", n)>>)
         \/ Match("(", full, <<<<"argumentList", <<"INVOKE", n>> >> >>,
                  <<EmitsArg("GET_PROPERTY", n)>>)
  BY <1>1 DEF dot
<1>3. PICK c : /\ c = AddConstant(current, Constant(parser.previous))
               /\ Good(c) /\ Shape(c) = Shape(current) /\ n \in Nat
  BY <1>1, <1>2, ConstantAdded
<1>4. text \in Texts /\ ParserOK
  BY <1>2, Begins
<1>5. PICK a : a = <<"INVOKE", n>>
  OBVIOUS
<1>6. IsAfter(a)
  BY <1>3, <1>5 DEF IsAfter
<1>7. "SET_PROPERTY" \in OpCode /\ "GET_PROPERTY" \in OpCode
  BY DEF OpCode, ByteInstructions
<1>8. /\ Level(<<expression, EmitsArg("SET_PROPERTY", n)>>, Inside)
      /\ Level(<<<<"argumentList", a>> >>, Inside)
      /\ Level(<<EmitsArg("GET_PROPERTY", n)>>, Inside)
  BY <1>3, <1>6, <1>7, Items, Emitting, Levels, SMTT(30)
<1>9. /\ ParserOK'
      /\ \/ Do(<<expression, EmitsArg("SET_PROPERTY", n)>>)
         \/ Do(<<<<"argumentList", a>> >>)
         \/ Do(<<EmitsArg("GET_PROPERTY", n)>>)
  BY <1>2, <1>4, <1>5, Matches, Advances
<1> QED
  BY <1>2, <1>3, <1>8, <1>9, InsideStep DEF Inside

LEMMA ThisKeeps ==
  ASSUME IInv, this_
  PROVE  IInv'
<1>1. /\ Doing("this_") /\ UNCHANGED <<text, compilers, classes, made>>
      /\ Stay(classes = <<>>) /\ (Do(<<>>) \/ Do(<<Name("this", FALSE)>>))
  BY DEF this_
<1>2. ParserOK'
  BY <1>1, Begins, Stays
<1>3. Level(<<>>, Inside) /\ Level(<<Name("this", FALSE)>>, Inside)
  BY Items, Levels, Spelt
<1> QED
  BY <1>1, <1>2, <1>3, QuietInside DEF Inside

LEMMA SuperKeeps ==
  ASSUME IInv, super_
  PROVE  IInv'
<1>1. /\ Doing("super_") /\ UNCHANGED <<text, compilers, classes, made>>
      /\ Stay(classes = <<>> \/ ~Last(<<FALSE>> \o classes))
      /\ Do(<<Consume("."), Consume("identifier"), <<"superName">>>>)
  BY DEF super_
<1>2. ParserOK'
  BY <1>1, Begins, Stays
<1>3. Level(<<Consume("."), Consume("identifier"), <<"superName">>>>, Inside)
  BY Items, SimpleItems, Levels
<1> QED
  BY <1>1, <1>2, <1>3, QuietInside DEF Inside

LEMMA SuperNameKeeps ==
  ASSUME IInv, superName
  PROVE  IInv'
<1>1. /\ Doing("superName") /\ UNCHANGED <<text, classes, made>>
      /\ compilers' = Put(AddConstant(current, Constant(parser.previous)))
      /\ Stay(TooManyConstants(current))
      /\ Do(<<Name("this", FALSE), <<"superCall", NextConstant(current)>>>>)
  BY DEF superName
<1>2. PICK c, n : /\ c = AddConstant(current, Constant(parser.previous))
                  /\ Good(c) /\ Shape(c) = Shape(current)
                  /\ n = NextConstant(current) /\ n \in Nat
  BY <1>1, ConstantAdded
<1>3. ParserOK'
  BY <1>1, Begins, Stays
<1>4. Level(<<Name("this", FALSE), <<"superCall", n>>>>, Inside)
  BY <1>2, Items, Levels, Spelt
<1> QED
  BY <1>1, <1>2, <1>3, <1>4, InsideStep DEF Inside

LEMMA SuperCallKeeps ==
  ASSUME IInv, superCall
  PROVE  IInv'
<1>1. PICK n : n = todo[1][2]
  OBVIOUS
<1>2. /\ Doing("superCall") /\ UNCHANGED <<text, compilers, classes, made>>
      /\ Match("(", FALSE, <<<<"argumentList", <<"SUPER_INVOKE", n>> >> >>,
               <<Name("super", FALSE), EmitsArg("GET_SUPER", n)>>)
  BY <1>1 DEF superCall
<1>3. n \in Nat /\ text \in Texts /\ ParserOK
  BY <1>1, <1>2, Begins DEF Arguments
<1>4. PICK a : a = <<"SUPER_INVOKE", n>>
  OBVIOUS
<1>5. IsAfter(a)
  BY <1>3, <1>4 DEF IsAfter
<1>6. "GET_SUPER" \in OpCode
  BY DEF OpCode, ByteInstructions
<1>7. /\ Level(<<<<"argumentList", a>> >>, Inside)
      /\ Level(<<Name("super", FALSE), EmitsArg("GET_SUPER", n)>>, Inside)
  <2>1. Ok(<<"argumentList", a>>, Inside)
    BY <1>5, Items
  <2>2. Ok(Name("super", FALSE), Inside)
    BY Items, Spelt
  <2>3. Ok(EmitsArg("GET_SUPER", n), Inside)
    BY <1>3, <1>6, Emitting
  <2> QED
    BY <2>1, <2>2, <2>3, Levels
<1>8. /\ ParserOK'
      /\ \/ Do(<<<<"argumentList", a>> >>)
         \/ Do(<<Name("super", FALSE), EmitsArg("GET_SUPER", n)>>)
  BY <1>2, <1>3, <1>4, Matches
<1> QED
  BY <1>2, <1>7, <1>8, QuietInside DEF Inside

---------------------------------------------------------------------------
(* Statements.                                                             *)

LEMMA MethodsKeeps ==
  ASSUME IInv, methods
  PROVE  IInv'
<1>1. /\ Doing("methods") /\ UNCHANGED <<text, source, parser, compilers, classes, made>>
      /\ Do(<<>>) \/ Do(<<Consume("identifier"), <<"method">>, <<"methods">>>>)
  BY DEF methods
<1>2. ParserOK'
  BY <1>1, Unchanged
<1>3. Level(<<>>, Inside) /\ Level(<<Consume("identifier"), <<"method">>, <<"methods">>>>, Inside)
  BY Items, SimpleItems, Levels
<1> QED
  BY <1>1, <1>2, <1>3, QuietInside DEF Inside

LEMMA MethodKeeps ==
  ASSUME IInv, method
  PROVE  IInv'
<1>1. PICK t, n : /\ t = (IF parser.previous = "init" THEN "initializer" ELSE "method")
                  /\ n = NextConstant(current)
  OBVIOUS
<1>2. /\ Doing("method") /\ UNCHANGED <<text, classes, made>>
      /\ compilers' = Put(AddConstant(current, Constant(parser.previous)))
      /\ Stay(TooManyConstants(current))
      /\ Do(<<<<"function", t>>, EmitsArg("METHOD", n)>>)
  BY <1>1 DEF method
<1>3. PICK c : /\ c = AddConstant(current, Constant(parser.previous))
               /\ Good(c) /\ Shape(c) = Shape(current) /\ n \in Nat
  BY <1>1, <1>2, ConstantAdded
<1>4. ParserOK'
  BY <1>2, Begins, Stays
<1>5. Ok(<<"function", t>>, Inside)
  BY <1>1, Items DEF FunctionTypes
<1>6. Ok(EmitsArg("METHOD", n), Inside)
  BY <1>3, Emitting DEF OpCode, ByteInstructions
<1>7. Level(<<<<"function", t>>, EmitsArg("METHOD", n)>>, Inside)
  BY <1>5, <1>6, Levels
<1> QED
  BY <1>2, <1>3, <1>4, <1>7, InsideStep DEF Inside

LEMMA RecoverKeeps ==
  ASSUME IInv, recover
  PROVE  IInv'
<1>1. /\ Doing("recover") /\ UNCHANGED <<text, source, compilers, classes, made>>
      /\ parser' = [parser EXCEPT !.panicMode = FALSE]
      /\ Do(<<<<"synchronize">>>>) \/ Do(<<>>)
  BY DEF recover
<1>2. ParserOK
  BY <1>1, Begins
<1>3. ParserOK'
  BY <1>1, <1>2 DEF ParserOK
<1>4. Level(<<>>, Inside) /\ Level(<<<<"synchronize">>>>, Inside)
  BY SimpleItems, Levels
<1> QED
  BY <1>1, <1>3, <1>4, QuietInside DEF Inside

LEMMA SynchronizeKeeps ==
  ASSUME IInv, synchronize
  PROVE  IInv'
<1>1. /\ Doing("synchronize") /\ UNCHANGED <<text, compilers, classes, made>>
      /\ (Stay(FALSE) /\ Do(<<>>)) \/ (advance(FALSE) /\ UNCHANGED todo)
  BY DEF synchronize
<1>2. ParserOK'
  BY <1>1, Begins, Stays, Advances
<1>3. CASE Do(<<>>)
  BY <1>1, <1>2, <1>3, QuietInside, Levels DEF Inside
<1>4. CASE UNCHANGED todo
  <2>1. Whole
    BY Parts
  <2>2. \A p : IsPlace(p) => IsPlace(p)'
    BY <1>1 DEF IsPlace, FitsOuter, current
  <2>3. Whole'
    BY <1>1, <1>2, <1>4, <2>1, <2>2 DEF Whole, CompilersOK, MadeOK
  <2> QED
    BY <2>3, PartsNext
<1> QED
  BY <1>1, <1>3, <1>4

LEMMA FirstTokenKeeps ==
  ASSUME IInv, firstToken
  PROVE  IInv'
<1>1. /\ Doing("advance") /\ UNCHANGED <<text, compilers, classes, made>>
      /\ advance(FALSE) /\ Do(<<>>)
  BY DEF firstToken
<1>2. ParserOK'
  BY <1>1, Begins, Advances
<1> QED
  BY <1>1, <1>2, QuietInside, Levels DEF Inside

LEMMA EndLoopKeeps ==
  ASSUME IInv, endLoop
  PROVE  IInv'
<1>1. PICK start, exit, l, d : /\ start = todo[1][2] /\ exit = todo[1][3]
                               /\ l = emitLoop(current, start) /\ d = patchJump(l, exit)
  OBVIOUS
<1>2. PICK c : c = IF exit = NoExit THEN l ELSE Emit(d, <<Opcode("POP")>>)
  OBVIOUS
<1>3. PICK wrong : wrong = (\/ BackTo(current, start) > UINT16_MAX
                            \/ exit # NoExit /\ Distance(l, exit) > UINT16_MAX)
  OBVIOUS
<1>4. /\ Doing("endLoop") /\ UNCHANGED <<text, classes, made>>
      /\ compilers' = Put(c) /\ Stay(wrong) /\ Do(<<>>)
  BY <1>1, <1>2, <1>3 DEF endLoop
<1>5. Good(current) /\ ParserOK' /\ start \in Nat /\ exit \in Nat \cup {NoExit}
  BY <1>1, <1>4, Begins, Stays DEF Arguments
<1>6. Good(l) /\ Shape(l) = Shape(current)
  BY <1>1, <1>5, Looped
<1>7. exit \in Int
  BY <1>5 DEF NoExit
<1>8. Good(d) /\ Shape(d) = Shape(l)
  BY <1>1, <1>6, <1>7, Patched
<1>9. Good(c) /\ Shape(c) = Shape(current)
  <2>1. <<Opcode("POP")>> \in Seq(Bytes)
    BY Emitting DEF OpCode
  <2> QED
    BY <1>2, <1>6, <1>8, <2>1, Emitted
<1> QED
  BY <1>4, <1>5, <1>9, InsideStep, Levels DEF Inside

LEMMA ReturnKeeps ==
  ASSUME IInv, return
  PROVE  IInv'
<1>1. Doing("return") /\ UNCHANGED <<text, classes, made>>
  BY DEF return
<1>2. Good(current) /\ ParserOK /\ text \in Texts
  BY <1>1, Begins
<1>3. CASE Check(";")
  <2>1. /\ compilers' = Put(emitReturn(current)) /\ Do(<<>>)
        /\ advance(current.type = "script")
    BY <1>3 DEF return
  <2>2. ParserOK'
    BY <1>2, <2>1, Advances
  <2>3. PICK c : c = emitReturn(current)
    OBVIOUS
  <2>4. Good(c) /\ Shape(c) = Shape(current)
    BY <1>2, <2>3, Returned
  <2> QED
    BY <1>1, <2>1, <2>2, <2>3, <2>4, InsideStep, Levels DEF Inside
<1>4. CASE ~Check(";")
  <2>1. /\ Stay(current.type = "script" \/ current.type = "initializer")
        /\ Do(<<expression, Consume(";"), Emits("RETURN")>>)
        /\ UNCHANGED compilers
    BY <1>4 DEF return
  <2>2. ParserOK'
    BY <1>2, <2>1, Stays
  <2>3. Ok(Emits("RETURN"), Inside)
    BY Emitting DEF OpCode
  <2>4. Level(<<expression, Consume(";"), Emits("RETURN")>>, Inside)
    BY <2>3, Items, Levels
  <2> QED
    BY <1>1, <2>1, <2>2, <2>4, QuietInside DEF Inside
<1> QED
  BY <1>3, <1>4

(* The items around expressions.                                           *)
LEMMA ItemsAround ==
  /\ \A n \in Nat : /\ Ok(<<"else", n>>, Beside) /\ Ok(<<"whileBody", n>>, Beside)
                    /\ Ok(<<"forExit", n>>, Beside)
  /\ \A m \in Nat, n \in Nat \cup {NoExit} :
       Ok(<<"endLoop", m, n>>, Beside) /\ Ok(<<"forIncrement", m, n>>, Beside)
  /\ \A m \in Nat, n \in Nat \cup {NoExit}, i \in Nat, j \in Nat :
       Ok(<<"forBody", m, n, i, j>>, Beside)
<1>1. ASSUME NEW n \in Nat, NEW f \in {"else", "whileBody", "forExit"}
      PROVE  Ok(<<f, n>>, Beside)
  <2>1. PICK x : x = <<f, n>>
    OBVIOUS
  <2>2. x[1] = f /\ x[2] = n
    BY <2>1
  <2> QED
    BY <2>1, <2>2 DEF Ok, Beside, Around, Arguments
<1>2. ASSUME NEW m \in Nat, NEW n \in Nat \cup {NoExit}, NEW f \in {"endLoop", "forIncrement"}
      PROVE  Ok(<<f, m, n>>, Beside)
  <2>1. PICK x : x = <<f, m, n>>
    OBVIOUS
  <2>2. x[1] = f /\ x[2] = m /\ x[3] = n
    BY <2>1
  <2> QED
    BY <2>1, <2>2 DEF Ok, Beside, Inside, Around, Arguments
<1>3. ASSUME NEW m \in Nat, NEW n \in Nat \cup {NoExit}, NEW i \in Nat, NEW j \in Nat
      PROVE  Ok(<<"forBody", m, n, i, j>>, Beside)
  <2>1. PICK x : x = <<"forBody", m, n, i, j>>
    OBVIOUS
  <2>2. x[1] = "forBody" /\ x[2] = m /\ x[3] = n /\ x[4] = i /\ x[5] = j
    BY <2>1
  <2> QED
    BY <2>1, <2>2 DEF Ok, Beside, Around, Arguments
<1> QED
  BY <1>1, <1>2, <1>3

LEMMA LevelsAround ==
  /\ Level(expressionStatement, Beside) /\ Level(varDeclaration, Beside)
  /\ Level(funDeclaration, Beside)
<1>1. Ok(Emits("POP"), Inside)
  BY Emitting DEF OpCode
<1>2. Level(expressionStatement, Inside)
  BY <1>1, Items, Levels DEF expressionStatement
<1>3. /\ Ok(Consume("identifier"), Beside) /\ Ok(<<"varDeclaration">>, Beside)
      /\ Ok(<<"funDeclaration">>, Beside)
  BY Items, SimpleItems, Wider
<1> QED
  BY <1>2, <1>3, Wider, Levels DEF varDeclaration, funDeclaration

LEMMA AroundRuns ==
  ASSUME IInv, NEW f \in Around, Doing(f), UNCHANGED <<text, compilers, classes, made>>, ParserOK',
         NEW items, IsList(items), Do(items),
         \A o, s, k : s.type # "none" /\ s.scopeDepth \in Nat =>
           Runs(items, At(o, Rest(s, s.scopeDepth), k), At(o, Rest(s, s.scopeDepth), k))
  PROVE  IInv'
<1>1. PICK o, s, r : /\ FitsOuter(o) /\ Fits(s, current)
                     /\ Effect(todo[1], At(o, s, classes), r) /\ Runs(Tail(todo), r, End)
  BY Begins
<1>2. /\ todo[1][1] = f /\ current.type \in FunctionTypes /\ Good(current)
      /\ compilers' = Put(current)
  BY Begins, Here
<1>3. PICK p, c : p = At(o, Rest(s, s.scopeDepth), classes) /\ c = current
  OBVIOUS
<1>4. s.type # "none" /\ ~s.pending /\ r = p
  BY <1>1, <1>2, <1>3, AroundDoes
<1>5. Fits(Rest(s, s.scopeDepth), c)
  BY <1>1, <1>3, <1>4, FitsIs
<1>6. s.scopeDepth \in Nat
  <2>1. current.scopeDepth \in Nat
    BY <1>2, Fields DEF Good
  <2> QED
    BY <1>1, <2>1, FitsIs
<1>7. Runs(items, p, r)
  BY <1>3, <1>4, <1>6
<1> QED
  BY <1>1, <1>2, <1>3, <1>5, <1>7, Proceeds

LEMMA ScopedRuns ==
  ASSUME NEW K, Level(K, Beside), NEW o, NEW s, s.type # "none", NEW d \in Nat, NEW k
  PROVE  /\ IsList(scoped(K))
         /\ Runs(scoped(K), At(o, Rest(s, d), k), At(o, Rest(s, d), k))
<1>1. PICK z, y, b, e : /\ z = Rest(s, d) /\ y = Rest(s, d + 1)
                        /\ b = <<"beginScope">> /\ e = <<"endScope">>
  OBVIOUS
<1>2. /\ z.type = s.type /\ z.scopeDepth = d /\ ~z.pending
      /\ y.type = s.type /\ y.scopeDepth = d + 1 /\ ~y.pending
      /\ Rest(z, d + 1) = y /\ Rest(y, (d + 1) - 1) = z
  BY <1>1, RestIs
<1>3. PICK p, q : p = At(o, z, k) /\ q = At(o, y, k)
  OBVIOUS
<1>4. b[1] = "beginScope" /\ e[1] = "endScope" /\ Arguments(b) /\ Arguments(e)
  BY <1>1, Simple DEF NoArguments
<1>5. Effect(b, p, q)
  BY <1>2, <1>3, <1>4, ScopeDoes
<1>6. Effect(e, q, p)
  BY <1>2, <1>3, <1>4, ScopeDoes
<1>7. IsList(<<b>>) /\ Runs(<<b>>, p, q) /\ IsList(<<e>>) /\ Runs(<<e>>, q, p)
  BY <1>4, <1>5, <1>6, RunsOne
<1>8. IsList(K) /\ Runs(K, q, q)
  BY <1>1, <1>3, RunsBeside DEF Level
<1>9. IsList(<<b>> \o K) /\ Runs(<<b>> \o K, p, q)
  BY <1>7, <1>8, RunsJoined
<1>10. IsList((<<b>> \o K) \o <<e>>) /\ Runs((<<b>> \o K) \o <<e>>, p, p)
  BY <1>7, <1>9, RunsJoined
<1> QED
  BY <1>1, <1>3, <1>10 DEF scoped

LEMMA StatementKeeps ==
  ASSUME IInv, statement
  PROVE  IInv'
<1>1. Doing("statement") /\ UNCHANGED <<text, compilers, classes, made>>
  BY DEF statement
<1>2. PICK t : t = parser.current
  OBVIOUS
<1>3. \/ t \in DOMAIN StatementRule /\ advance(FALSE) /\ Do(StatementRule[t])
      \/ Stay(FALSE) /\ Do(expressionStatement)
  BY <1>2 DEF statement
<1>4. ParserOK'
  BY <1>1, <1>3, Begins, Stays, Advances
<1>5. CASE Do(expressionStatement)
  BY <1>1, <1>4, <1>5, QuietAround, LevelsAround DEF Around
<1>6. CASE t \in {"print", "if", "return", "while"} /\ Do(StatementRule[t])
  <2>1. Level(<<expression, Consume(";"), Emits("PRINT")>>, Beside)
    <3>1. Ok(Emits("PRINT"), Inside)
      BY Emitting DEF OpCode
    <3> QED
      BY <3>1, Items, Levels, Wider
  <2>2. Level(<<Consume("("), expression, Consume(")"), <<"then">>>>, Beside)
    <3>1. Ok(Consume("("), Beside) /\ Ok(expression, Beside) /\ Ok(Consume(")"), Beside)
      BY Items, Wider
    <3> QED
      BY <3>1, SimpleItems, Levels
  <2>3. Level(<<<<"return">>>>, Beside) /\ Level(<<<<"while">>>>, Beside)
    BY SimpleItems, Levels, Wider
  <2>4. Level(StatementRule[t], Beside)
    BY <1>6, <2>1, <2>2, <2>3 DEF StatementRule
  <2> QED
    BY <1>1, <1>4, <1>6, <2>4, QuietAround DEF Around
<1>7. CASE t \in {"for", "{"} /\ Do(StatementRule[t])
  <2>1. Level(<<Consume("("), <<"forInitializer">>>>, Beside) /\ Level(<<<<"block">>>>, Beside)
    BY Items, SimpleItems, Levels, Wider
  <2>2. \E K : Level(K, Beside) /\ StatementRule[t] = scoped(K)
    BY <1>7, <2>1 DEF StatementRule
  <2>3. PICK K : Level(K, Beside) /\ StatementRule[t] = scoped(K)
    BY <2>2
  <2>4. PICK items : items = scoped(K)
    OBVIOUS
  <2>5. IsList(items)
    <3>1. PICK s : s = Rest([type |-> "script"], 0)
      OBVIOUS
    <3>2. s.type # "none"
      BY <3>1 DEF Rest
    <3> QED
      BY <2>3, <2>4, <3>2, ScopedRuns
  <2>6. \A o, s, k : s.type # "none" /\ s.scopeDepth \in Nat =>
          Runs(items, At(o, Rest(s, s.scopeDepth), k), At(o, Rest(s, s.scopeDepth), k))
    BY <2>3, <2>4, ScopedRuns
  <2> QED
    BY <1>1, <1>4, <1>7, <2>3, <2>4, <2>5, <2>6, AroundRuns DEF Around
<1> QED
  BY <1>3, <1>5, <1>6, <1>7 DEF StatementRule

LEMMA DeclarationKeeps ==
  ASSUME IInv, declaration
  PROVE  IInv'
<1>1. Doing("declaration") /\ UNCHANGED <<text, compilers, classes, made>>
  BY DEF declaration
<1>2. PICK t : t = parser.current
  OBVIOUS
<1>3. \/ /\ t \in DOMAIN DeclarationRule /\ advance(FALSE)
         /\ Do(DeclarationRule[t] \o <<<<"recover">>>>)
      \/ Stay(FALSE) /\ Do(<<<<"statement">>, <<"recover">>>>)
  BY <1>2 DEF declaration
<1>4. ParserOK'
  BY <1>1, <1>3, Begins, Stays, Advances
<1>5. Ok(<<"recover">>, Beside) /\ Ok(<<"statement">>, Beside)
  BY SimpleItems, Wider
<1>6. CASE Do(<<<<"statement">>, <<"recover">>>>)
  BY <1>1, <1>4, <1>5, <1>6, QuietAround, Levels DEF Around
<1>7. CASE t \in DOMAIN DeclarationRule /\ Do(DeclarationRule[t] \o <<<<"recover">>>>)
  <2>1. Level(<<Consume("identifier"), <<"class">>>>, Beside)
    BY Items, SimpleItems, Levels, Wider
  <2>2. Level(DeclarationRule[t], Beside)
    BY <1>7, <2>1, LevelsAround DEF DeclarationRule
  <2>3. PICK items : items = DeclarationRule[t] \o <<<<"recover">>>>
    OBVIOUS
  <2>4. Level(items, Beside)
    BY <1>5, <2>2, <2>3, Levels, LevelsJoined
  <2> QED
    BY <1>1, <1>4, <1>7, <2>3, <2>4, QuietAround DEF Around
<1> QED
  BY <1>3, <1>6, <1>7

LEMMA BlockKeeps ==
  ASSUME IInv, block
  PROVE  IInv'
<1>1. /\ Doing("block") /\ UNCHANGED <<text, source, parser, compilers, classes, made>>
      /\ Do(<<Consume("}")>>) \/ Do(<<<<"declaration">>, <<"block">>>>)
  BY DEF block
<1>2. ParserOK'
  BY <1>1, Unchanged
<1>3. Level(<<Consume("}")>>, Beside) /\ Level(<<<<"declaration">>, <<"block">>>>, Beside)
  BY Items, SimpleItems, Levels, Wider
<1> QED
  BY <1>1, <1>2, <1>3, QuietAround DEF Around

LEMMA ThenKeeps ==
  ASSUME IInv, then
  PROVE  IInv'
<1>1. PICK c, n : /\ c = Emit(emitJump(current, "JUMP_IF_FALSE"), <<Opcode("POP")>>)
                  /\ n = JumpFrom(current)
  OBVIOUS
<1>2. /\ Doing("then") /\ UNCHANGED <<text, source, parser, classes, made>>
      /\ compilers' = Put(c) /\ Do(<<<<"statement">>, <<"else", n>>>>)
  BY <1>1 DEF then
<1>3. Good(current) /\ ParserOK'
  BY <1>2, Begins, Unchanged
<1>4. "JUMP_IF_FALSE" \in OpCode
  BY DEF OpCode, Jumps
<1>5. Good(c) /\ Shape(c) = Shape(current) /\ n \in Nat
  BY <1>1, <1>3, <1>4, Jumped
<1>6. Level(<<<<"statement">>, <<"else", n>>>>, Beside)
  BY <1>5, SimpleItems, ItemsAround, Levels
<1> QED
  BY <1>2, <1>3, <1>5, <1>6, AroundStep DEF Around

LEMMA ElseKeeps ==
  ASSUME IInv, else
  PROVE  IInv'
<1>1. PICK j, d, c, n : /\ j = emitJump(current, "JUMP") /\ d = patchJump(j, todo[1][2])
                        /\ c = Emit(d, <<Opcode("POP")>>) /\ n = JumpFrom(current)
  OBVIOUS
<1>2. PICK end : end = <<<<"patchJump", n>>>>
  OBVIOUS
<1>3. PICK w : w = (Distance(j, todo[1][2]) > UINT16_MAX)
  OBVIOUS
<1>4. /\ Doing("else") /\ UNCHANGED <<text, classes, made>>
      /\ compilers' = Put(c) /\ Match("else", w, <<<<"statement">>>> \o end, end)
  BY <1>1, <1>2, <1>3 DEF else
<1>5. Good(current) /\ ParserOK /\ text \in Texts /\ todo[1][2] \in Nat
  BY <1>4, Begins DEF Arguments
<1>6. "JUMP" \in OpCode /\ "POP" \in OpCode
  BY DEF OpCode, Jumps
<1>7. Good(j) /\ Shape(j) = Shape(current) /\ n \in Nat
  BY <1>1, <1>5, <1>6, Jumped
<1>8. Good(d) /\ Shape(d) = Shape(j)
  BY <1>1, <1>5, <1>7, Patched
<1>9. Good(c) /\ Shape(c) = Shape(d)
  BY <1>1, <1>6, <1>8, Emitting, Emitted
<1>10. PICK more : more = <<<<"statement">>>> \o end
  OBVIOUS
<1>11. Level(end, Beside)
  BY <1>2, <1>7, Items, Levels, Wider
<1>12. Level(<<<<"statement">>>>, Beside)
  BY SimpleItems, Levels
<1>13. Level(more, Beside)
  BY <1>10, <1>11, <1>12, LevelsJoined
<1>14. ParserOK' /\ (Do(more) \/ Do(end))
  BY <1>4, <1>5, <1>10, Matches
<1>15. Shape(c) = Shape(current)
  BY <1>7, <1>8, <1>9
<1> QED
  BY <1>4, <1>9, <1>11, <1>13, <1>14, <1>15, AroundStep DEF Around

LEMMA WhileKeeps ==
  ASSUME IInv, while
  PROVE  IInv'
<1>1. PICK n : n = Len(current.code)
  OBVIOUS
<1>2. /\ Doing("while") /\ UNCHANGED <<text, source, parser, compilers, classes, made>>
      /\ Do(<<Consume("("), expression, Consume(")"), <<"whileBody", n>>>>)
  BY <1>1 DEF while
<1>3. ParserOK' /\ Good(current)
  BY <1>2, Unchanged, Begins
<1>4. n \in Nat
  BY <1>1, <1>3, Fields DEF Good
<1>5. /\ Ok(Consume("("), Beside) /\ Ok(expression, Beside) /\ Ok(Consume(")"), Beside)
      /\ Ok(<<"whileBody", n>>, Beside)
  BY <1>4, Items, ItemsAround, Wider
<1>6. Level(<<Consume("("), expression, Consume(")"), <<"whileBody", n>>>>, Beside)
  BY <1>5, Levels
<1> QED
  BY <1>2, <1>3, <1>6, QuietAround DEF Around

LEMMA WhileBodyKeeps ==
  ASSUME IInv, whileBody
  PROVE  IInv'
<1>1. PICK c, n, m : /\ c = Emit(emitJump(current, "JUMP_IF_FALSE"), <<Opcode("POP")>>)
                     /\ n = JumpFrom(current) /\ m = todo[1][2]
  OBVIOUS
<1>2. /\ Doing("whileBody") /\ UNCHANGED <<text, source, parser, classes, made>>
      /\ compilers' = Put(c) /\ Do(<<<<"statement">>, <<"endLoop", m, n>>>>)
  BY <1>1 DEF whileBody
<1>3. Good(current) /\ ParserOK' /\ m \in Nat
  BY <1>1, <1>2, Begins, Unchanged DEF Arguments
<1>4. "JUMP_IF_FALSE" \in OpCode
  BY DEF OpCode, Jumps
<1>5. Good(c) /\ Shape(c) = Shape(current) /\ n \in Nat
  BY <1>1, <1>3, <1>4, Jumped
<1>6. Level(<<<<"statement">>, <<"endLoop", m, n>>>>, Beside)
  BY <1>3, <1>5, SimpleItems, ItemsAround, Levels
<1> QED
  BY <1>2, <1>3, <1>5, <1>6, AroundStep DEF Around

LEMMA ForInitializerKeeps ==
  ASSUME IInv, forInitializer
  PROVE  IInv'
<1>1. PICK next, var, none : /\ next = <<<<"forCondition">>>> /\ var = varDeclaration \o next
                             /\ none = expressionStatement \o next
  OBVIOUS
<1>2. /\ Doing("forInitializer") /\ UNCHANGED <<text, compilers, classes, made>>
      /\ (advance(FALSE) /\ Do(var)) \/ Match(";", FALSE, next, none)
  BY <1>1 DEF forInitializer
<1>3. ParserOK /\ text \in Texts
  BY <1>2, Begins
<1>4. Level(next, Beside)
  BY <1>1, SimpleItems, Levels
<1>5. Level(var, Beside) /\ Level(none, Beside)
  BY <1>1, <1>4, LevelsAround, LevelsJoined
<1>6. ParserOK' /\ (Do(var) \/ Do(next) \/ Do(none))
  BY <1>2, <1>3, Matches, Advances
<1> QED
  BY <1>2, <1>4, <1>5, <1>6, QuietAround DEF Around

LEMMA ForConditionKeeps ==
  ASSUME IInv, forCondition
  PROVE  IInv'
<1>1. PICK n, yes, no : /\ n = Len(current.code) /\ yes = <<<<"forIncrement", n, NoExit>>>>
                        /\ no = <<expression, Consume(";"), <<"forExit", n>>>>
  OBVIOUS
<1>2. /\ Doing("forCondition") /\ UNCHANGED <<text, compilers, classes, made>>
      /\ Match(";", FALSE, yes, no)
  BY <1>1 DEF forCondition
<1>3. ParserOK /\ text \in Texts /\ Good(current)
  BY <1>2, Begins
<1>4. n \in Nat
  BY <1>1, <1>3, Fields DEF Good
<1>5. Level(yes, Beside)
  BY <1>1, <1>4, ItemsAround, Levels
<1>6. Level(no, Beside)
  BY <1>1, <1>4, Items, ItemsAround, Levels, Wider
<1>7. ParserOK' /\ (Do(yes) \/ Do(no))
  BY <1>2, <1>3, Matches
<1> QED
  BY <1>2, <1>5, <1>6, <1>7, QuietAround DEF Around

LEMMA ForExitKeeps ==
  ASSUME IInv, forExit
  PROVE  IInv'
<1>1. PICK c, n, m : /\ c = Emit(emitJump(current, "JUMP_IF_FALSE"), <<Opcode("POP")>>)
                     /\ n = JumpFrom(current) /\ m = todo[1][2]
  OBVIOUS
<1>2. /\ Doing("forExit") /\ UNCHANGED <<text, source, parser, classes, made>>
      /\ compilers' = Put(c) /\ Do(<<<<"forIncrement", m, n>>>>)
  BY <1>1 DEF forExit
<1>3. Good(current) /\ ParserOK' /\ m \in Nat
  BY <1>1, <1>2, Begins, Unchanged DEF Arguments
<1>4. "JUMP_IF_FALSE" \in OpCode
  BY DEF OpCode, Jumps
<1>5. Good(c) /\ Shape(c) = Shape(current) /\ n \in Nat
  BY <1>1, <1>3, <1>4, Jumped
<1>6. Level(<<<<"forIncrement", m, n>>>>, Beside)
  BY <1>3, <1>5, ItemsAround, Levels
<1> QED
  BY <1>2, <1>3, <1>5, <1>6, AroundStep DEF Around

LEMMA ForIncrementKeeps ==
  ASSUME IInv, forIncrement
  PROVE  IInv'
<1>1. PICK start, exit, c, n, l : /\ start = todo[1][2] /\ exit = todo[1][3]
                                  /\ c = emitJump(current, "JUMP")
                                  /\ n = JumpFrom(current) /\ l = Len(c.code)
  OBVIOUS
<1>2. PICK yes, no : /\ yes = <<<<"statement">>, <<"endLoop", start, exit>>>>
                     /\ no = <<expression, Emits("POP"), Consume(")"),
                               <<"forBody", start, exit, n, l>>>>
  OBVIOUS
<1>3. /\ Doing("forIncrement") /\ UNCHANGED <<text, classes, made>>
      /\ \/ advance(FALSE) /\ UNCHANGED compilers /\ Do(yes)
         \/ compilers' = Put(c) /\ Stay(FALSE) /\ Do(no)
  BY <1>1, <1>2 DEF forIncrement
<1>4. /\ ParserOK /\ text \in Texts /\ Good(current)
      /\ start \in Nat /\ exit \in Nat \cup {NoExit}
  BY <1>1, <1>3, Begins DEF Arguments
<1>5. "JUMP" \in OpCode
  BY DEF OpCode, Jumps
<1>6. Good(c) /\ Shape(c) = Shape(current) /\ n \in Nat
  BY <1>1, <1>4, <1>5, Jumped
<1>7. l \in Nat
  BY <1>1, <1>6, Fields DEF Good
<1>8. Level(yes, Beside)
  BY <1>2, <1>4, SimpleItems, ItemsAround, Levels
<1>9. Level(no, Beside)
  <2>1. Ok(Emits("POP"), Beside)
    BY Emitting, Wider DEF OpCode
  <2>2. Ok(expression, Beside) /\ Ok(Consume(")"), Beside)
    BY Items, Wider
  <2>3. Ok(<<"forBody", start, exit, n, l>>, Beside)
    BY <1>4, <1>6, <1>7, ItemsAround
  <2> QED
    BY <1>2, <2>1, <2>2, <2>3, Levels
<1>10. ParserOK'
  BY <1>3, <1>4, Stays, Advances
<1>11. CASE UNCHANGED compilers /\ Do(yes)
  BY <1>3, <1>8, <1>10, <1>11, QuietAround DEF Around
<1>12. CASE compilers' = Put(c) /\ Do(no)
  BY <1>3, <1>6, <1>9, <1>10, <1>12, AroundStep DEF Around
<1> QED
  BY <1>3, <1>11, <1>12

LEMMA ForBodyKeeps ==
  ASSUME IInv, forBody
  PROVE  IInv'
<1>1. PICK start, jump, l, c, m, exit :
        /\ start = todo[1][2] /\ jump = todo[1][4] /\ l = emitLoop(current, start)
        /\ c = patchJump(l, jump) /\ m = todo[1][5] /\ exit = todo[1][3]
  OBVIOUS
<1>2. PICK w : w = (\/ BackTo(current, start) > UINT16_MAX \/ Distance(l, jump) > UINT16_MAX)
  OBVIOUS
<1>3. /\ Doing("forBody") /\ UNCHANGED <<text, classes, made>>
      /\ compilers' = Put(c) /\ Stay(w)
      /\ Do(<<<<"statement">>, <<"endLoop", m, exit>>>>)
  BY <1>1, <1>2 DEF forBody
<1>4. /\ ParserOK' /\ Good(current) /\ start \in Nat /\ jump \in Nat /\ m \in Nat
      /\ exit \in Nat \cup {NoExit}
  BY <1>1, <1>3, Begins, Stays DEF Arguments
<1>5. Good(l) /\ Shape(l) = Shape(current)
  BY <1>1, <1>4, Looped, SMTT(30)
<1>6. Good(c) /\ Shape(c) = Shape(l)
  BY <1>1, <1>4, <1>5, Patched
<1>7. Level(<<<<"statement">>, <<"endLoop", m, exit>>>>, Beside)
  BY <1>4, SimpleItems, ItemsAround, Levels
<1>8. Shape(c) = Shape(current)
  BY <1>5, <1>6
<1> QED
  BY <1>3, <1>4, <1>6, <1>7, <1>8, AroundStep DEF Around

---------------------------------------------------------------------------
(* Scopes and variables.                                                   *)

LocalType == [name : Spellings, depth : Nat \cup {-1}, isCaptured : BOOLEAN]

LEMMA Greatest ==
  ASSUME NEW n \in Nat, NEW S, S \subseteq 1..n, S # {}
  PROVE  Max(S) \in S /\ \A i \in S : i <= Max(S)
<1>1. PICK T : T = {n - i : i \in S}
  OBVIOUS
<1>2. T \subseteq Nat /\ T # {}
  <2>1. T \subseteq Nat
    BY <1>1
  <2>2. PICK i : i \in S
    OBVIOUS
  <2>3. n - i \in T
    BY <1>1, <2>2
  <2> QED
    BY <2>1, <2>3
<1>3. PICK t \in T : \A u \in T : <<u, t>> \notin OpToRel(<, Nat)
  BY <1>2, WFMin, NatLessThanWellFounded
<1>4. \A u \in T : ~(u < t)
  BY <1>2, <1>3 DEF OpToRel
<1>5. PICK m \in S : t = n - m
  BY <1>1
<1>6. \A i \in S : m >= i
  <2>1. ASSUME NEW i \in S PROVE m >= i
    <3>1. n - i \in T
      BY <1>1
    <3>2. ~(n - i < n - m)
      BY <1>4, <1>5, <3>1
    <3> QED
      BY <3>2
  <2> QED
    BY <2>1
<1>7. Max(S) \in S /\ \A i \in S : Max(S) >= i
  BY <1>6 DEF Max
<1> QED
  BY <1>7

LEMMA GoodIs ==
  ASSUME NEW c, Good(c)
  PROVE  /\ c \in CompilerType /\ c.locals \in Seq(LocalType) /\ c.scopeDepth \in Nat
         /\ Ordered(c.locals, c.scopeDepth)
         /\ \A i \in 1..Len(c.locals) : c.locals[i] \in LocalType
<1>1. c \in CompilerType /\ c.locals \in Seq(LocalType) /\ c.scopeDepth \in Nat
  BY Fields DEF Good, LocalType
<1>2. \A i \in 1..Len(c.locals) : c.locals[i] \in LocalType
  BY <1>1, ElementOfSeq
<1> QED
  BY <1>1, <1>2 DEF Good, Scoped

(* c with other locals.                                                    *)
With(c, n, L) == [c EXCEPT !.scopeDepth = n, !.locals = L]

LEMMA Relocated ==
  ASSUME NEW c, Good(c), NEW L \in Seq(LocalType), NEW n \in Nat, Ordered(L, n)
  PROVE  /\ Good(With(c, n, L)) /\ With(c, n, L).type = c.type
         /\ With(c, n, L).scopeDepth = n /\ With(c, n, L).locals = L
<1>1. c \in CompilerType /\ Len(c.upvalues) <= UINT8_COUNT
  BY DEF Good
<1>2. PICK e : e = With(c, n, L)
  OBVIOUS
<1>3. /\ e \in CompilerType /\ e.type = c.type /\ e.scopeDepth = n /\ e.locals = L
      /\ e.upvalues = c.upvalues
  BY <1>1, <1>2 DEF CompilerType, LocalType, With
<1>4. Good(e)
  BY <1>1, <1>3 DEF Good, Scoped
<1> QED
  BY <1>2, <1>3, <1>4

LEMMA Entered ==
  ASSUME NEW c, Good(c), ~Shape(c).pending
  PROVE  /\ Good(beginScope(c)) /\ beginScope(c).type = c.type
         /\ beginScope(c).scopeDepth = c.scopeDepth + 1 /\ beginScope(c).locals = c.locals
         /\ ~Shape(beginScope(c)).pending
<1>1. PICK L, n, m, e : L = c.locals /\ n = c.scopeDepth /\ m = n + 1 /\ e = beginScope(c)
  OBVIOUS
<1>2. L \in Seq(LocalType) /\ n \in Nat /\ Ordered(L, n) /\ c \in CompilerType
  BY <1>1, GoodIs
<1>3. m \in Nat /\ 1..n \subseteq 1..m
  BY <1>1, <1>2
<1>4. Ordered(L, m)
  BY <1>2, <1>3 DEF Ordered
<1>5. e = With(c, m, L)
  BY <1>1, <1>2 DEF beginScope, CompilerType, With
<1>6. Good(e) /\ e.type = c.type /\ e.scopeDepth = m /\ e.locals = L
  BY <1>2, <1>3, <1>4, <1>5, Relocated
<1> QED
  BY <1>1, <1>6, ShapeIs

LEMMA LocalAdded ==
  ASSUME NEW c, Good(c), ~Shape(c).pending, NEW name \in Spellings
  PROVE  /\ Good(addLocal(c, name)) /\ addLocal(c, name).type = c.type
         /\ addLocal(c, name).scopeDepth = c.scopeDepth
         /\ Len(addLocal(c, name).locals) > 1
<1>1. PICK L, d, e, n, x : /\ L = c.locals /\ d = c.scopeDepth /\ e = addLocal(c, name)
                           /\ n = Len(c.locals)
                           /\ x = [name |-> name, depth |-> -1, isCaptured |-> FALSE]
  OBVIOUS
<1>2. /\ L \in Seq(LocalType) /\ d \in Nat /\ n = Len(L) /\ n \in 1..UINT8_COUNT /\ L[1].depth = 0
      /\ \A i \in 2..n : L[i].depth \in 1..d \/ (L[i].depth = -1 /\ i = n)
      /\ \A i, j \in 1..n : i < j => L[i].depth <= L[j].depth \/ L[j].depth = -1
      /\ L[n].depth # -1
  <2>1. L \in Seq(LocalType) /\ d \in Nat /\ n = Len(L) /\ Ordered(L, d)
    BY <1>1, GoodIs
  <2>2. L[n].depth # -1
    BY <1>1, ShapeIs
  <2> QED
    BY <2>1, <2>2 DEF Ordered
<1>3. CASE TooManyLocals(c)
  <2>1. e = c /\ n = UINT8_COUNT
    BY <1>1, <1>3 DEF addLocal, TooManyLocals
  <2> QED
    BY <1>1, <2>1, Count
<1>4. CASE ~TooManyLocals(c)
  <2>1. PICK M : M = Append(L, x)
    OBVIOUS
  <2>2. n < UINT8_COUNT
    BY <1>1, <1>2, <1>4, Count DEF TooManyLocals
  <2>3. x \in LocalType /\ x.depth = -1
    BY <1>1 DEF LocalType
  <2>4. /\ M \in Seq(LocalType) /\ Len(M) = n + 1 /\ M[n + 1] = x
        /\ \A i \in 1..n : M[i] = L[i]
    BY <1>2, <2>1, <2>3, AppendProperties
  <2>5. Len(M) \in 1..UINT8_COUNT /\ M[1].depth = 0
    BY <1>2, <2>2, <2>4, Count
  <2>6. \A i \in 2..Len(M) : M[i].depth \in 1..d \/ (M[i].depth = -1 /\ i = Len(M))
    BY <1>2, <2>3, <2>4
  <2>7. \A i, j \in 1..Len(M) : i < j => M[i].depth <= M[j].depth \/ M[j].depth = -1
    BY <1>2, <2>3, <2>4
  <2>8. e = With(c, d, M)
    <3>1. c \in CompilerType
      BY GoodIs
    <3>2. e = [c EXCEPT !.locals = M]
      BY <1>1, <1>4, <2>1 DEF addLocal
    <3> QED
      BY <1>1, <3>1, <3>2 DEF CompilerType, With
  <2>9. Ordered(M, d)
    BY <2>5, <2>6, <2>7 DEF Ordered
  <2>10. Good(e) /\ e.type = c.type /\ e.scopeDepth = d /\ e.locals = M
    BY <1>2, <2>4, <2>8, <2>9, Relocated
  <2> QED
    BY <1>1, <1>2, <2>4, <2>10
<1> QED
  BY <1>3, <1>4

LEMMA Marked ==
  ASSUME NEW c, Good(c), c.scopeDepth > 0 => Len(c.locals) > 1
  PROVE  /\ Good(markInitialized(c)) /\ markInitialized(c).type = c.type
         /\ markInitialized(c).scopeDepth = c.scopeDepth
         /\ Len(markInitialized(c).locals) = Len(c.locals)
         /\ c.scopeDepth > 0 => ~Shape(markInitialized(c)).pending
         /\ c.scopeDepth = 0 => markInitialized(c) = c
<1>1. CASE c.scopeDepth = 0
  BY <1>1 DEF markInitialized
<1>2. CASE c.scopeDepth # 0
  <2>1. PICK L, d, e, n : /\ L = c.locals /\ d = c.scopeDepth /\ e = markInitialized(c)
                          /\ n = Len(c.locals)
    OBVIOUS
  <2>2. /\ L \in Seq(LocalType) /\ d \in Nat /\ n = Len(L) /\ n \in 1..UINT8_COUNT /\ L[1].depth = 0
        /\ \A i \in 1..n : L[i] \in LocalType
        /\ \A i \in 2..n : L[i].depth \in 1..d \/ (L[i].depth = -1 /\ i = n)
        /\ \A i, j \in 1..n : i < j => L[i].depth <= L[j].depth \/ L[j].depth = -1
    BY <2>1, GoodIs DEF Ordered
  <2>3. d > 0 /\ n > 1
    BY <1>2, <2>1, <2>2
  <2>4. PICK x : x = [L[n] EXCEPT !.depth = d]
    OBVIOUS
  <2>5. x \in LocalType /\ x.depth = d
    BY <2>2, <2>4 DEF LocalType
  <2>6. PICK M : M = [L EXCEPT ![n] = x]
    OBVIOUS
  <2>7. /\ M \in Seq(LocalType) /\ Len(M) = n /\ M[n] = x
        /\ \A i \in 1..n : i # n => M[i] = L[i]
    BY <2>2, <2>5, <2>6, ExceptSeq
  <2>8. Len(M) \in 1..UINT8_COUNT /\ M[1].depth = 0
    BY <2>2, <2>3, <2>7
  <2>9. \A i \in 2..Len(M) : M[i].depth \in 1..d \/ (M[i].depth = -1 /\ i = Len(M))
    BY <2>2, <2>3, <2>5, <2>7
  <2>10. \A i, j \in 1..Len(M) : i < j => M[i].depth <= M[j].depth \/ M[j].depth = -1
    <3>1. ASSUME NEW i \in 1..n, NEW j \in 1..n, i < j
          PROVE  M[i].depth <= M[j].depth \/ M[j].depth = -1
      <4>1. i # n /\ M[i] = L[i]
        BY <2>2, <2>7, <3>1
      <4>2. CASE j # n
        BY <2>2, <2>7, <3>1, <4>1, <4>2
      <4>3. CASE j = n
        <5>1. L[i].depth <= d
          BY <2>2, <2>3, <3>1, <4>1
        <5> QED
          BY <2>5, <2>7, <4>1, <4>3, <5>1
      <4> QED
        BY <4>2, <4>3
    <3> QED
      BY <2>7, <3>1
  <2>11. e = With(c, d, M)
    <3>1. c \in CompilerType
      BY GoodIs
    <3>2. e = [c EXCEPT !.locals = [c.locals EXCEPT ![n] = [c.locals[n] EXCEPT !.depth = d]]]
      BY <1>2, <2>1 DEF markInitialized
    <3>3. e = [c EXCEPT !.locals = M]
      BY <2>1, <2>4, <2>6, <3>2
    <3> QED
      BY <2>1, <3>1, <3>3 DEF CompilerType, With
  <2>12. Ordered(M, d)
    BY <2>8, <2>9, <2>10 DEF Ordered
  <2>13. Good(e) /\ e.type = c.type /\ e.scopeDepth = d /\ e.locals = M
    BY <2>2, <2>7, <2>11, <2>12, Relocated
  <2>14. ~Shape(e).pending
    BY <2>3, <2>5, <2>7, <2>13, ShapeIs
  <2> QED
    BY <1>2, <2>1, <2>7, <2>13, <2>14
<1> QED
  BY <1>1, <1>2

(* The end of a scope keeps the locals of the scopes around it.            *)
LEMMA Left ==
  ASSUME NEW c, Good(c), ~Shape(c).pending, c.scopeDepth > 0
  PROVE  /\ Good(endScope(c)) /\ endScope(c).type = c.type
         /\ endScope(c).scopeDepth = c.scopeDepth - 1
         /\ ~Shape(endScope(c)).pending
<1>1. PICK L, d, e, n : /\ L = c.locals /\ d = c.scopeDepth - 1 /\ e = endScope(c)
                        /\ n = Len(c.locals)
  OBVIOUS
<1>2. /\ L \in Seq(LocalType) /\ d \in Nat /\ n = Len(L) /\ n \in 1..UINT8_COUNT /\ L[1].depth = 0
      /\ \A i \in 1..n : L[i] \in LocalType
      /\ \A i \in 2..n : L[i].depth \in 1..(d + 1) \/ (L[i].depth = -1 /\ i = n)
      /\ \A i, j \in 1..n : i < j => L[i].depth <= L[j].depth \/ L[j].depth = -1
      /\ L[n].depth # -1 /\ c \in CompilerType
  <2>1. /\ L \in Seq(LocalType) /\ d \in Nat /\ n = Len(L) /\ Ordered(L, d + 1)
        /\ \A i \in 1..n : L[i] \in LocalType
    BY <1>1, GoodIs
  <2>2. L[n].depth # -1
    BY <1>1, ShapeIs
  <2> QED
    BY <2>1, <2>2, GoodIs DEF Ordered
<1>3. \A i \in 1..n : L[i].depth \in 0..(d + 1)
  BY <1>2
<1>4. PICK I, keep : I = {i \in 1..n : L[i].depth <= d} /\ keep = Max(I)
  OBVIOUS
<1>5. 1 \in I /\ I \subseteq 1..n /\ n \in Nat
  BY <1>2, <1>4, Count
<1>6. keep \in I /\ \A i \in I : i <= keep
  BY <1>4, <1>5, Greatest
<1>7. keep \in 1..n /\ L[keep].depth <= d
  BY <1>4, <1>6
<1>8. PICK M : M = SubSeq(L, 1, keep)
  OBVIOUS
<1>9. M \in Seq(LocalType) /\ Len(M) = keep /\ \A i \in 1..keep : M[i] = L[i]
  <2>1. 1 \in Int /\ keep \in Int /\ \A i \in 1..keep : L[i] \in LocalType
    BY <1>2, <1>7
  <2>2. /\ M \in Seq(LocalType) /\ Len(M) = IF 1 <= keep THEN keep - 1 + 1 ELSE 0
        /\ \A i \in 1..(keep - 1 + 1) : M[i] = L[1 + i - 1]
    BY <1>8, <2>1, SubSeqProperties
  <2> QED
    BY <1>2, <1>7, <2>2
<1>10. Len(M) \in 1..UINT8_COUNT /\ M[1].depth = 0
  BY <1>2, <1>7, <1>9, Count
<1>11. \A i \in 1..keep : L[i].depth <= d
  <2>1. ASSUME NEW i \in 1..keep PROVE L[i].depth <= d
    <3>1. CASE i = keep
      BY <1>7, <3>1
    <3>2. CASE i # keep
      <4>1. i \in 1..n /\ i < keep
        BY <1>2, <1>7, <3>2
      <4>2. L[i].depth <= L[keep].depth
        BY <1>2, <1>3, <1>7, <4>1
      <4> QED
        BY <1>2, <1>3, <1>7, <4>1, <4>2
    <3> QED
      BY <3>1, <3>2
  <2> QED
    BY <2>1
<1>12. \A i \in 2..Len(M) : M[i].depth \in 1..d \/ (M[i].depth = -1 /\ i = Len(M))
  <2>1. ASSUME NEW i \in 2..keep PROVE M[i].depth \in 1..d
    <3>1. i \in 2..n /\ i \in 1..n /\ i \in 1..keep
      BY <1>2, <1>7
    <3>2. M[i] = L[i] /\ L[i].depth <= d /\ L[i].depth \in 1..(d + 1)
      BY <1>2, <1>3, <1>9, <1>11, <3>1
    <3> QED
      BY <1>2, <3>2
  <2> QED
    BY <1>9, <2>1
<1>13. \A i, j \in 1..Len(M) : i < j => M[i].depth <= M[j].depth \/ M[j].depth = -1
  <2>1. ASSUME NEW i \in 1..keep, NEW j \in 1..keep, i < j PROVE M[i].depth <= M[j].depth
    <3>1. i \in 1..n /\ j \in 1..n
      BY <1>2, <1>7
    <3> QED
      BY <1>2, <1>3, <1>9, <2>1, <3>1
  <2> QED
    BY <1>9, <2>1
<1>14. PICK Drop : Drop = [i \in 1..(Len(c.locals) - keep) |->
                             IF c.locals[Len(c.locals) + 1 - i].isCaptured
                             THEN Opcode("CLOSE_UPVALUE") ELSE Opcode("POP")]
  OBVIOUS
<1>15. Drop \in Seq(Bytes)
  <2>1. Opcode("CLOSE_UPVALUE") \in Bytes /\ Opcode("POP") \in Bytes
    BY BytesAre DEF OpCode
  <2>2. Drop \in [1..(n - keep) -> Bytes]
    BY <1>1, <1>14, <2>1
  <2>3. n - keep \in Nat
    BY <1>2, <1>7
  <2> QED
    BY <2>2, <2>3
<1>16. keep = SelectLastInSeq(c.locals, LAMBDA l : l.depth <= c.scopeDepth - 1)
  BY <1>1, <1>4, <1>5 DEF SelectLastInSeq
<1>17. PICK b : b = Emit(c, Drop)
  OBVIOUS
<1>18. e = [b EXCEPT !.scopeDepth = d, !.locals = SubSeq(@, 1, keep)]
  BY <1>1, <1>14, <1>16, <1>17 DEF endScope
<1>19. Good(b) /\ b.type = c.type /\ b.locals = L /\ b \in CompilerType
  <2>1. Good(b)
    BY <1>15, <1>17, Emitted
  <2>2. b.type = c.type /\ b.locals = L
    BY <1>1, <1>2, <1>17 DEF Emit, CompilerType
  <2> QED
    BY <2>1, <2>2 DEF Good
<1>20. e = With(b, d, M)
  BY <1>8, <1>18, <1>19 DEF CompilerType, With
<1>21. Good(e) /\ e.type = c.type /\ e.scopeDepth = d /\ e.locals = M
  <2>1. Ordered(M, d)
    BY <1>10, <1>12, <1>13 DEF Ordered
  <2>2. Good(e) /\ e.type = b.type /\ e.scopeDepth = d /\ e.locals = M
    BY <1>2, <1>9, <1>19, <1>20, <2>1, Relocated
  <2> QED
    BY <1>19, <2>2
<1>22. ~Shape(e).pending
  <2>1. M[keep].depth # -1
    BY <1>3, <1>7, <1>9
  <2> QED
    BY <1>9, <1>21, <2>1, ShapeIs
<1> QED
  BY <1>1, <1>21, <1>22

LEMMA Concatenated ==
  /\ \A a, b : <<a>> \o <<b>> = <<a, b>>
  /\ \A a, b, c : <<a>> \o <<b, c>> = <<a, b, c>> /\ <<a, b>> \o <<c>> = <<a, b, c>>
  /\ \A a, b, c, d : <<a, b, c>> \o <<d>> = <<a, b, c, d>>
  /\ \A a, b, c, d, e, f : <<a, b, c, d, e>> \o <<f>> = <<a, b, c, d, e, f>>
<1>1. ASSUME NEW a, NEW b PROVE <<a>> \o <<b>> = <<a, b>>
  <2>1. PICK S, K, L, M, J : /\ S = {a, b} /\ K = <<a>> /\ L = <<b>> /\ M = <<a, b>> /\ J = K \o L
    OBVIOUS
  <2>2. /\ K \in Seq(S) /\ L \in Seq(S) /\ M \in Seq(S)
        /\ Len(K) = 1 /\ Len(L) = 1 /\ Len(M) = 2 /\ K[1] = a /\ L[1] = b /\ M[1] = a /\ M[2] = b
    BY <2>1
  <2>3. /\ J \in Seq(S) /\ Len(J) = 2
        /\ \A i \in 1..2 : J[i] = IF i <= 1 THEN K[i] ELSE L[i - 1]
    BY <2>1, <2>2, ConcatProperties
  <2>4. \A i \in 1..2 : J[i] = M[i]
    BY <2>2, <2>3
  <2> QED
    BY <2>1, <2>2, <2>3, <2>4, SeqEqual
<1>2. ASSUME NEW a, NEW b, NEW c PROVE <<a>> \o <<b, c>> = <<a, b, c>>
  <2>1. PICK S, K, L, M, J : /\ S = {a, b, c} /\ K = <<a>> /\ L = <<b, c>> /\ M = <<a, b, c>>
                             /\ J = K \o L
    OBVIOUS
  <2>2. /\ K \in Seq(S) /\ L \in Seq(S) /\ M \in Seq(S)
        /\ Len(K) = 1 /\ Len(L) = 2 /\ Len(M) = 3
        /\ K[1] = a /\ L[1] = b /\ L[2] = c /\ M[1] = a /\ M[2] = b /\ M[3] = c
    BY <2>1
  <2>3. /\ J \in Seq(S) /\ Len(J) = 3
        /\ \A i \in 1..3 : J[i] = IF i <= 1 THEN K[i] ELSE L[i - 1]
    BY <2>1, <2>2, ConcatProperties
  <2>4. \A i \in 1..3 : J[i] = M[i]
    BY <2>2, <2>3
  <2> QED
    BY <2>1, <2>2, <2>3, <2>4, SeqEqual
<1>3. ASSUME NEW a, NEW b, NEW c PROVE <<a, b>> \o <<c>> = <<a, b, c>>
  <2>1. PICK S, K, L, M, J : /\ S = {a, b, c} /\ K = <<a, b>> /\ L = <<c>> /\ M = <<a, b, c>>
                             /\ J = K \o L
    OBVIOUS
  <2>2. /\ K \in Seq(S) /\ L \in Seq(S) /\ M \in Seq(S)
        /\ Len(K) = 2 /\ Len(L) = 1 /\ Len(M) = 3
        /\ K[1] = a /\ K[2] = b /\ L[1] = c /\ M[1] = a /\ M[2] = b /\ M[3] = c
    BY <2>1
  <2>3. /\ J \in Seq(S) /\ Len(J) = 3
        /\ \A i \in 1..3 : J[i] = IF i <= 2 THEN K[i] ELSE L[i - 2]
    BY <2>1, <2>2, ConcatProperties
  <2>4. \A i \in 1..3 : J[i] = M[i]
    BY <2>2, <2>3
  <2> QED
    BY <2>1, <2>2, <2>3, <2>4, SeqEqual
<1>4. ASSUME NEW a, NEW b, NEW c, NEW d PROVE <<a, b, c>> \o <<d>> = <<a, b, c, d>>
  <2>1. PICK S, K, L, M, J : /\ S = {a, b, c, d} /\ K = <<a, b, c>> /\ L = <<d>>
                             /\ M = <<a, b, c, d>> /\ J = K \o L
    OBVIOUS
  <2>2. /\ K \in Seq(S) /\ L \in Seq(S) /\ M \in Seq(S)
        /\ Len(K) = 3 /\ Len(L) = 1 /\ Len(M) = 4
        /\ K[1] = a /\ K[2] = b /\ K[3] = c /\ L[1] = d
        /\ M[1] = a /\ M[2] = b /\ M[3] = c /\ M[4] = d
    BY <2>1
  <2>3. /\ J \in Seq(S) /\ Len(J) = 4
        /\ \A i \in 1..4 : J[i] = IF i <= 3 THEN K[i] ELSE L[i - 3]
    BY <2>1, <2>2, ConcatProperties
  <2>4. \A i \in 1..4 : J[i] = M[i]
    BY <2>2, <2>3
  <2> QED
    BY <2>1, <2>2, <2>3, <2>4, SeqEqual
<1>5. ASSUME NEW a, NEW b, NEW c, NEW d, NEW e, NEW f
      PROVE  <<a, b, c, d, e>> \o <<f>> = <<a, b, c, d, e, f>>
  <2>1. PICK S, K, L, M, J : /\ S = {a, b, c, d, e, f} /\ K = <<a, b, c, d, e>> /\ L = <<f>>
                             /\ M = <<a, b, c, d, e, f>> /\ J = K \o L
    OBVIOUS
  <2>2. /\ K \in Seq(S) /\ L \in Seq(S) /\ M \in Seq(S)
        /\ Len(K) = 5 /\ Len(L) = 1 /\ Len(M) = 6
    BY <2>1
  <2>3. /\ K[1] = a /\ K[2] = b /\ K[3] = c /\ K[4] = d /\ K[5] = e /\ L[1] = f
        /\ M[1] = a /\ M[2] = b /\ M[3] = c /\ M[4] = d /\ M[5] = e /\ M[6] = f
    BY <2>1
  <2>4. /\ J \in Seq(S) /\ Len(J) = 6
        /\ \A i \in 1..6 : J[i] = IF i <= 5 THEN K[i] ELSE L[i - 5]
    BY <2>1, <2>2, ConcatProperties
  <2>5. \A i \in 1..6 : J[i] = M[i]
    BY <2>3, <2>4
  <2> QED
    BY <2>1, <2>2, <2>4, <2>5, SeqEqual
<1> QED
  BY <1>1, <1>2, <1>3, <1>4, <1>5

(* No variable is being declared where these items begin.                  *)
LEMMA AtRest ==
  ASSUME IInv, NEW f, f \in Around \cup OfFunction \cup OfClass, Doing(f)
  PROVE  ~Shape(current).pending
<1>1. PICK o, s, r : /\ FitsOuter(o) /\ Fits(s, current)
                     /\ Effect(todo[1], At(o, s, classes), r) /\ todo[1][1] = f
  BY Begins
<1>2. ~s.pending
  BY <1>1, AroundDoes, OfFunctionDoes, OfClassDoes
<1> QED
  BY <1>1, <1>2, FitsIs, ShapeIs

LEMMA Parsed ==
  ASSUME NEW c, Good(c), ~Shape(c).pending, NEW name \in Spellings
  PROVE  \E v : /\ v = ParsedVariable(c, name) /\ Good(v.compiler) /\ v.global \in Nat
                /\ v.compiler.type = c.type /\ v.compiler.scopeDepth = c.scopeDepth
                /\ c.scopeDepth > 0 => Len(v.compiler.locals) > 1
                /\ c.scopeDepth = 0 => ~Shape(v.compiler).pending
<1>1. PICK v : v = ParsedVariable(c, name)
  OBVIOUS
<1>2. c \in CompilerType /\ c.scopeDepth \in Nat
  BY GoodIs
<1>3. CASE c.scopeDepth > 0
  <2>1. v.compiler = addLocal(c, name) /\ v.global = 0
    BY <1>1, <1>2, <1>3 DEF ParsedVariable, declareVariable
  <2>2. /\ Good(v.compiler) /\ v.compiler.type = c.type /\ v.compiler.scopeDepth = c.scopeDepth
        /\ Len(v.compiler.locals) > 1
    BY <2>1, LocalAdded
  <2> QED
    BY <1>1, <1>3, <2>1, <2>2
<1>4. CASE c.scopeDepth = 0
  <2>1. PICK k, e : k = Constant(name) /\ e = AddConstant(c, k)
    OBVIOUS
  <2>2. v.compiler = e /\ v.global = NextConstant(c)
    BY <1>1, <1>4, <2>1 DEF ParsedVariable
  <2>3. k \in [name : Spellings, upvalueCount : Nat] /\ v.global \in Nat
    BY <1>2, <2>1, <2>2, ConstantsAre
  <2>4. Good(e) /\ Shape(e) = Shape(c)
    BY <2>1, <2>3, Added
  <2>5. e.type = c.type /\ e.scopeDepth = c.scopeDepth
    BY <2>4, ShapeIs
  <2> QED
    BY <1>1, <1>4, <2>2, <2>3, <2>4, <2>5
<1> QED
  BY <1>2, <1>3, <1>4

(* Those around expressions that declare a variable.                       *)
LEMMA Declares ==
  ASSUME IInv, NEW f \in Around, Doing(f), NEW c, Good(c), c.type = current.type,
         c.scopeDepth = current.scopeDepth,
         compilers' = Put(c), UNCHANGED <<text, classes, made>>, ParserOK',
         NEW items, IsList(items), Do(items),
         \A o : Runs(items, At(o, Shape(c), classes), At(o, Rest(Shape(c), c.scopeDepth), classes))
  PROVE  IInv'
<1>1. PICK o, s, r : /\ FitsOuter(o) /\ Fits(s, current)
                     /\ Effect(todo[1], At(o, s, classes), r) /\ Runs(Tail(todo), r, End)
  BY Begins
<1>2. todo[1][1] = f
  BY Begins
<1>3. PICK z : z = Shape(c)
  OBVIOUS
<1>4. r = At(o, Rest(s, s.scopeDepth), classes)
  BY <1>1, <1>2, AroundDoes
<1>5. s.type = current.type /\ s.scopeDepth = current.scopeDepth
  BY <1>1, FitsIs
<1>6. Rest(s, s.scopeDepth) = Rest(z, c.scopeDepth)
  BY <1>3, <1>5, ShapeIs DEF Rest
<1>7. Fits(z, c)
  BY <1>3 DEF Fits
<1>8. Runs(items, At(o, z, classes), r)
  BY <1>3, <1>4, <1>6
<1> QED
  BY <1>1, <1>7, <1>8, Proceeds

LEMMA DefineRuns ==
  ASSUME NEW c, c.type \in FunctionTypes,
         IF c.scopeDepth > 0 THEN Len(c.locals) > 1 ELSE ~Shape(c).pending,
         NEW n \in Nat, NEW K, Level(K, Inside), NEW k
  PROVE  /\ IsList(K \o <<<<"defineVariable", n>>>>)
         /\ \A o : Runs(K \o <<<<"defineVariable", n>>>>,
                        At(o, Shape(c), k), At(o, Rest(Shape(c), c.scopeDepth), k))
<1>1. PICK x, s : x = <<"defineVariable", n>> /\ s = Shape(c)
  OBVIOUS
<1>2. s.type # "none" /\ s.scopeDepth = c.scopeDepth
      /\ IF s.scopeDepth > 0 THEN s.more ELSE ~s.pending
  BY <1>1, ShapeIs DEF FunctionTypes
<1>3. x[1] = "defineVariable" /\ x[2] = n
  BY <1>1
<1>4. Arguments(x)
  BY <1>3 DEF Arguments
<1>5. IsList(K)
  BY DEF Level
<1>6. ASSUME NEW o
      PROVE  /\ IsList(K \o <<x>>)
             /\ Runs(K \o <<x>>, At(o, s, k), At(o, Rest(s, c.scopeDepth), k))
  <2>1. PICK p, q : p = At(o, s, k) /\ q = At(o, Rest(s, c.scopeDepth), k)
    OBVIOUS
  <2>2. Effect(x, p, q)
    BY <1>2, <1>3, <2>1, DefineDoes
  <2>3. IsList(<<x>>) /\ Runs(<<x>>, p, q)
    BY <1>4, <2>2, RunsOne
  <2>4. Runs(K, p, p)
    BY <1>2, <2>1, RunsInside
  <2> QED
    BY <1>5, <2>1, <2>3, <2>4, RunsJoined
<1> QED
  BY <1>1, <1>6

LEMMA VariableDeclarationKeeps ==
  ASSUME IInv, variableDeclaration
  PROVE  IInv'
<1>1. Doing("varDeclaration") /\ UNCHANGED <<text, classes, made>>
  BY DEF variableDeclaration
<1>2. /\ Good(current) /\ current.type \in FunctionTypes /\ text \in Texts /\ ParserOK
      /\ parser.previous \in Spellings /\ current.scopeDepth \in Nat
  BY <1>1, Begins, GoodIs DEF ParserOK
<1>3. ~Shape(current).pending
  BY <1>1, AtRest DEF Around
<1>4. PICK v : /\ v = ParsedVariable(current, parser.previous) /\ Good(v.compiler)
               /\ v.global \in Nat
               /\ v.compiler.type = current.type /\ v.compiler.scopeDepth = current.scopeDepth
               /\ current.scopeDepth > 0 => Len(v.compiler.locals) > 1
               /\ current.scopeDepth = 0 => ~Shape(v.compiler).pending
  BY <1>2, <1>3, Parsed
<1>5. PICK c, end : c = v.compiler /\ end = <<Consume(";"), <<"defineVariable", v.global>>>>
  OBVIOUS
<1>6. PICK yes, no : yes = <<expression>> \o end /\ no = <<Emits("NIL")>> \o end
  OBVIOUS
<1>7. compilers' = Put(c) /\ Match("=", v.wrong, yes, no)
  BY <1>4, <1>5, <1>6 DEF variableDeclaration
<1>8. PICK n : n = v.global
  OBVIOUS
<1>9. \E x : Ok(x, Inside) /\ Do(<<x>> \o end)
  <2>1. Ok(expression, Inside) /\ Ok(Emits("NIL"), Inside)
    BY Items, Emitting DEF OpCode, ByteInstructions
  <2> QED
    BY <1>2, <1>6, <1>7, <2>1, Matches
<1>10. PICK x : Ok(x, Inside) /\ Do(<<x>> \o end)
  BY <1>9
<1>11. PICK K, L, d : K = <<x, Consume(";")>> /\ d = <<"defineVariable", n>> /\ L = K \o <<d>>
  OBVIOUS
<1>12. Level(K, Inside)
  BY <1>10, <1>11, Items, Levels
<1>13. L = <<x>> \o end
  <2>1. end = <<Consume(";"), d>> /\ L = <<x, Consume(";")>> \o <<d>>
    BY <1>5, <1>8, <1>11
  <2>2. <<x>> \o <<Consume(";"), d>> = <<x, Consume(";"), d>>
    BY Concatenated
  <2>3. <<x, Consume(";")>> \o <<d>> = <<x, Consume(";"), d>>
    BY Concatenated
  <2> QED
    BY <2>1, <2>2, <2>3
<1>14. /\ IsList(L)
       /\ \A o : Runs(L, At(o, Shape(c), classes), At(o, Rest(Shape(c), c.scopeDepth), classes))
  <2>1. /\ c.type \in FunctionTypes /\ n \in Nat
        /\ IF c.scopeDepth > 0 THEN Len(c.locals) > 1 ELSE ~Shape(c).pending
    <3>1. PICK m : m = current.scopeDepth
      OBVIOUS
    <3>2. c.scopeDepth = m /\ m \in Nat /\ (m > 0 => Len(c.locals) > 1) /\ (m = 0 => ~Shape(c).pending)
      BY <1>2, <1>4, <1>5, <3>1
    <3>3. m > 0 \/ m = 0
      BY <3>2
    <3> QED
      BY <1>2, <1>4, <1>5, <1>8, <3>2, <3>3
  <2> QED
    BY <1>11, <1>12, <2>1, DefineRuns
<1>15. ParserOK'
  BY <1>2, <1>7, Matches
<1> QED
  BY <1>1, <1>4, <1>5, <1>7, <1>10, <1>13, <1>14, <1>15, Declares DEF Around

LEMMA FunctionDeclarationKeeps ==
  ASSUME IInv, functionDeclaration
  PROVE  IInv'
<1>1. Doing("funDeclaration") /\ UNCHANGED <<text, classes, made>>
  BY DEF functionDeclaration
<1>2. /\ Good(current) /\ current.type \in FunctionTypes /\ text \in Texts /\ ParserOK
      /\ parser.previous \in Spellings /\ current.scopeDepth \in Nat
  BY <1>1, Begins, GoodIs DEF ParserOK
<1>3. ~Shape(current).pending
  BY <1>1, AtRest DEF Around
<1>4. PICK v : /\ v = ParsedVariable(current, parser.previous) /\ Good(v.compiler)
               /\ v.global \in Nat
               /\ v.compiler.type = current.type /\ v.compiler.scopeDepth = current.scopeDepth
               /\ current.scopeDepth > 0 => Len(v.compiler.locals) > 1
               /\ current.scopeDepth = 0 => ~Shape(v.compiler).pending
  BY <1>2, <1>3, Parsed
<1>5. PICK b, c, n : b = v.compiler /\ c = markInitialized(b) /\ n = v.global
  OBVIOUS
<1>6. PICK x, d : x = <<"function", "function">> /\ d = <<"defineVariable", n>>
  OBVIOUS
<1>7. compilers' = Put(c) /\ Stay(v.wrong) /\ Do(<<x, d>>)
  BY <1>4, <1>5, <1>6 DEF functionDeclaration
<1>8. /\ Good(c) /\ c.type = current.type /\ c.scopeDepth = current.scopeDepth
      /\ IF c.scopeDepth > 0 THEN Len(c.locals) > 1 ELSE ~Shape(c).pending
  <2>1. Good(b) /\ (b.scopeDepth > 0 => Len(b.locals) > 1)
    BY <1>4, <1>5
  <2> QED
    BY <1>2, <1>4, <1>5, <2>1, Marked
<1>9. Level(<<x>>, Inside)
  BY <1>6, Items, Levels DEF FunctionTypes
<1>10. PICK L : L = <<x>> \o <<d>>
  OBVIOUS
<1>11. /\ IsList(L)
       /\ \A o : Runs(L, At(o, Shape(c), classes), At(o, Rest(Shape(c), c.scopeDepth), classes))
  BY <1>2, <1>4, <1>5, <1>6, <1>8, <1>9, <1>10, DefineRuns
<1>12. Do(L)
  BY <1>7, <1>10, Concatenated
<1>13. ParserOK'
  BY <1>2, <1>7, Stays
<1> QED
  BY <1>1, <1>7, <1>8, <1>11, <1>12, <1>13, Declares DEF Around

LEMMA Defined ==
  ASSUME NEW b, Good(b), NEW n \in Nat,
         IF b.scopeDepth > 0 THEN Len(b.locals) > 1 ELSE ~Shape(b).pending
  PROVE  /\ Good(defineVariable(b, n)) /\ defineVariable(b, n).type = b.type
         /\ defineVariable(b, n).scopeDepth = b.scopeDepth
         /\ ~Shape(defineVariable(b, n)).pending
<1>1. PICK c : c = defineVariable(b, n)
  OBVIOUS
<1>2. b.scopeDepth \in Nat
  BY GoodIs
<1>3. CASE b.scopeDepth > 0
  <2>1. c = markInitialized(b)
    BY <1>1, <1>3 DEF defineVariable
  <2> QED
    BY <1>1, <1>3, <2>1, Marked
<1>4. CASE b.scopeDepth = 0
  <2>1. PICK bytes : bytes = <<Opcode("DEFINE_GLOBAL"), Byte(n)>>
    OBVIOUS
  <2>2. bytes \in Seq(Bytes)
    BY <2>1, Emitting DEF OpCode, ByteInstructions
  <2>3. c = Emit(b, bytes)
    BY <1>1, <1>4, <2>1 DEF defineVariable
  <2>4. Good(c) /\ Shape(c) = Shape(b)
    BY <2>2, <2>3, Emitted
  <2> QED
    BY <1>1, <1>4, <2>4, ShapeIs
<1> QED
  BY <1>2, <1>3, <1>4

LEMMA DefineAfterKeeps ==
  ASSUME IInv, defineAfter
  PROVE  IInv'
<1>1. /\ Doing("defineVariable") /\ UNCHANGED <<text, source, parser, classes, made>>
      /\ compilers' = Put(defineVariable(current, todo[1][2])) /\ Do(<<>>)
  BY DEF defineAfter
<1>2. PICK o, s, r : /\ FitsOuter(o) /\ Fits(s, current)
                     /\ Effect(todo[1], At(o, s, classes), r) /\ Runs(Tail(todo), r, End)
  BY <1>1, Begins
<1>3. /\ Good(current) /\ current.type \in FunctionTypes /\ todo[1][1] = "defineVariable"
      /\ todo[1][2] \in Nat /\ current.scopeDepth \in Nat
  BY <1>1, Begins, GoodIs DEF Arguments
<1>4. /\ IF s.scopeDepth > 0 THEN s.more ELSE ~s.pending
      /\ r = At(o, Rest(s, s.scopeDepth), classes)
  BY <1>2, <1>3, DefineDoes
<1>5. PICK b, n, c, z : /\ b = current /\ n = todo[1][2] /\ c = defineVariable(b, n)
                        /\ z = Rest(s, s.scopeDepth)
  OBVIOUS
<1>6. /\ s.type = b.type /\ s.scopeDepth = b.scopeDepth
      /\ (s.more => Len(b.locals) > 1) /\ (~s.pending => ~Shape(b).pending)
  BY <1>2, <1>5, FitsIs, ShapeIs
<1>7. Good(c) /\ c.type = b.type /\ c.scopeDepth = b.scopeDepth /\ ~Shape(c).pending
  BY <1>3, <1>4, <1>5, <1>6, Defined
<1>8. Fits(z, c)
  <2>1. z = Rest(Shape(c), c.scopeDepth)
    BY <1>5, <1>6, <1>7, ShapeIs DEF Rest
  <2> QED
    BY <1>7, <2>1 DEF Fits
<1>9. IsList(<<>>) /\ Runs(<<>>, At(o, z, classes), r)
  BY <1>4, <1>5, RunsNothing
<1>10. ParserOK'
  BY <1>1, Unchanged
<1> QED
  BY <1>1, <1>2, <1>5, <1>7, <1>8, <1>9, <1>10, Proceeds

LEMMA ScopeKeeps ==
  ASSUME IInv, scope
  PROVE  IInv'
<1>1. PICK f : /\ Doing(f)
               /\ \/ f = "beginScope" /\ compilers' = Put(beginScope(current))
                  \/ f = "endScope" /\ compilers' = Put(endScope(current))
               /\ UNCHANGED <<text, source, parser, classes, made>> /\ Do(<<>>)
  BY DEF scope
<1>2. PICK o, s, r : /\ FitsOuter(o) /\ Fits(s, current)
                     /\ Effect(todo[1], At(o, s, classes), r) /\ Runs(Tail(todo), r, End)
  BY <1>1, Begins
<1>3. Good(current) /\ todo[1][1] = f /\ current.scopeDepth \in Nat
  BY <1>1, Begins, GoodIs
<1>4. PICK b : b = current
  OBVIOUS
<1>5. s.type = b.type /\ s.scopeDepth = b.scopeDepth /\ (~s.pending => ~Shape(b).pending)
  BY <1>2, <1>4, FitsIs, ShapeIs
<1>6. \E c, z : /\ compilers' = Put(c) /\ Good(c) /\ r = At(o, z, classes)
                /\ c.type = b.type /\ ~Shape(c).pending /\ z = Rest(s, c.scopeDepth)
  <2>1. CASE f = "beginScope"
    <3>1. ~s.pending /\ r = At(o, Rest(s, s.scopeDepth + 1), classes)
      BY <1>2, <1>3, <2>1, ScopeDoes
    <3>2. PICK c : c = beginScope(b)
      OBVIOUS
    <3>3. Good(c) /\ c.type = b.type /\ ~Shape(c).pending /\ c.scopeDepth = s.scopeDepth + 1
      BY <1>3, <1>4, <1>5, <3>1, <3>2, Entered
    <3> QED
      BY <1>1, <1>4, <2>1, <3>1, <3>2, <3>3
  <2>2. CASE f = "endScope"
    <3>1. ~s.pending /\ s.scopeDepth > 0 /\ r = At(o, Rest(s, s.scopeDepth - 1), classes)
      BY <1>2, <1>3, <2>2, ScopeDoes
    <3>2. PICK c : c = endScope(b)
      OBVIOUS
    <3>3. Good(c) /\ c.type = b.type /\ ~Shape(c).pending /\ c.scopeDepth = s.scopeDepth - 1
      BY <1>3, <1>4, <1>5, <3>1, <3>2, Left
    <3> QED
      BY <1>1, <1>4, <2>2, <3>1, <3>2, <3>3
  <2> QED
    BY <1>1, <2>1, <2>2
<1>7. PICK c, z : /\ compilers' = Put(c) /\ Good(c) /\ r = At(o, z, classes)
                  /\ c.type = b.type /\ ~Shape(c).pending /\ z = Rest(s, c.scopeDepth)
  BY <1>6
<1>8. Fits(z, c)
  <2>1. z = Rest(Shape(c), c.scopeDepth)
    BY <1>5, <1>7, ShapeIs DEF Rest
  <2> QED
    BY <1>7, <2>1 DEF Fits
<1>9. IsList(<<>>) /\ Runs(<<>>, At(o, z, classes), r)
  BY <1>7, RunsNothing
<1>10. ParserOK'
  BY <1>1, Unchanged
<1> QED
  BY <1>1, <1>2, <1>7, <1>8, <1>9, <1>10, Proceeds

---------------------------------------------------------------------------
(* Classes.                                                                *)

(* The innermost compiler becomes c, and the classes may change.           *)
LEMMA Moves ==
  ASSUME IInv, NEW f, Doing(f), NEW c, Good(c), compilers' = Put(c),
         UNCHANGED <<text, made>>, ParserOK', NEW k \in Seq(BOOLEAN), classes' = k,
         NEW o, NEW s, FitsOuter(o), Fits(s, c),
         NEW items, IsList(items), NEW r, Runs(items, At(o, s, k), r),
         Runs(Tail(todo), r, End), Do(items)
  PROVE  IInv'
<1>1. /\ compilers # <<>> /\ text \in Texts /\ CompilersOK /\ MadeOK /\ IsList(Tail(todo))
  BY Begins
<1>2. CompilersOK' /\ compilers' # <<>> /\ current' = c /\ FitsOuter(o)'
  BY <1>1, Puts
<1>3. Fits(s, current)'
  BY <1>2
<1>4. text' \in Texts /\ MadeOK' /\ classes' \in Seq(BOOLEAN)
  BY <1>1 DEF MadeOK
<1> QED
  BY <1>1, <1>2, <1>3, <1>4, Continues

LEMMA AppendedIs ==
  ASSUME NEW S, NEW k \in Seq(S), NEW b \in S, NEW t \in S
  PROVE  /\ Append(k, b) \in Seq(S) /\ Last(Append(k, b)) = b
         /\ Front(Append(k, b)) = k /\ Append(k, b) # <<>>
         /\ [Append(k, b) EXCEPT ![Len(Append(k, b))] = t] = Append(k, t)
<1>1. PICK K, n : K = Append(k, b) /\ n = Len(k)
  OBVIOUS
<1>2. /\ K \in Seq(S) /\ Len(K) = n + 1 /\ K[n + 1] = b /\ n \in Nat
      /\ \A i \in 1..n : K[i] = k[i]
  BY <1>1, AppendProperties, LenProperties
<1>3. Last(K) = b /\ K # <<>>
  BY <1>2 DEF Last
<1>4. Front(K) = k
  <2>1. PICK F : F = SubSeq(K, 1, n)
    OBVIOUS
  <2>2. Front(K) = F
    BY <1>2, <2>1 DEF Front
  <2>3. 1 \in Int /\ n \in Int /\ \A i \in 1..n : K[i] \in S
    BY <1>1, <1>2, ElementOfSeq
  <2>4. /\ F \in Seq(S) /\ Len(F) = IF 1 <= n THEN n - 1 + 1 ELSE 0
        /\ \A i \in 1..(n - 1 + 1) : F[i] = K[1 + i - 1]
    BY <2>1, <2>3, SubSeqProperties
  <2>5. Len(F) = n /\ \A i \in 1..n : F[i] = k[i]
    BY <1>2, <2>4
  <2> QED
    BY <1>1, <2>2, <2>4, <2>5, SeqEqual
<1>5. [K EXCEPT ![Len(K)] = t] = Append(k, t)
  <2>1. PICK E, A : E = [K EXCEPT ![n + 1] = t] /\ A = Append(k, t)
    OBVIOUS
  <2>2. n + 1 \in 1..Len(K)
    BY <1>2
  <2>3. /\ E \in Seq(S) /\ Len(E) = n + 1
        /\ \A i \in 1..(n + 1) : E[i] = IF i = n + 1 THEN t ELSE K[i]
    BY <1>2, <2>1, <2>2, ExceptSeq
  <2>4. /\ A \in Seq(S) /\ Len(A) = n + 1 /\ A[n + 1] = t
        /\ \A i \in 1..n : A[i] = k[i]
    BY <1>1, <2>1, AppendProperties
  <2>5. \A i \in 1..Len(E) : E[i] = A[i]
    BY <1>2, <2>3, <2>4
  <2>6. E = A
    BY <2>3, <2>4, <2>5, SeqEqual
  <2> QED
    BY <1>2, <2>1, <2>6
<1> QED
  BY <1>1, <1>2, <1>3, <1>4, <1>5

LEMMA ClassesAre ==
  ASSUME NEW k \in Seq(BOOLEAN), NEW b \in BOOLEAN
  PROVE  /\ Append(k, b) \in Seq(BOOLEAN) /\ Last(Append(k, b)) = b
         /\ Front(Append(k, b)) = k /\ Append(k, b) # <<>>
         /\ [Append(k, b) EXCEPT ![Len(Append(k, b))] = TRUE] = Append(k, TRUE)
<1>1. PICK S, t : S = BOOLEAN /\ t = TRUE
  OBVIOUS
<1>2. k \in Seq(S) /\ b \in S /\ t \in S
  BY <1>1
<1>3. /\ Append(k, b) \in Seq(S) /\ Last(Append(k, b)) = b
      /\ Front(Append(k, b)) = k /\ Append(k, b) # <<>>
      /\ [Append(k, b) EXCEPT ![Len(Append(k, b))] = t] = Append(k, t)
  BY <1>2, AppendedIs
<1> QED
  BY <1>1, <1>3

(* What is left to do of a class leads out of it.                          *)
LEMMA ClassRuns ==
  ASSUME NEW K, Level(K, Inside), NEW x, x[1] \in OfClass, Arguments(x),
         NEW s, s.type # "none", NEW d \in Nat, NEW b \in BOOLEAN,
         x[1] \in {"superclass", "inherit"} => ~b, b => d > 0,
         NEW o, NEW k \in Seq(BOOLEAN)
  PROVE  /\ IsList(K \o <<x>>)
         /\ Runs(K \o <<x>>, At(o, Rest(s, d), Append(k, b)),
                 At(o, Rest(s, d - IF b THEN 1 ELSE 0), k))
<1>1. PICK z, a, e : z = Rest(s, d) /\ a = Append(k, b) /\ e = d - IF b THEN 1 ELSE 0
  OBVIOUS
<1>2. PICK p, q : p = At(o, z, a) /\ q = At(o, Rest(s, e), k)
  OBVIOUS
<1>3. z.type # "none" /\ ~z.pending /\ z.scopeDepth = d /\ Rest(z, e) = Rest(s, e)
  BY <1>1, RestIs
<1>4. Effect(x, p, q)
  <2>1. \E l \in Seq(BOOLEAN), c \in BOOLEAN :
          /\ a = Append(l, c)
          /\ x[1] \in {"superclass", "inherit"} => ~c
          /\ c => z.scopeDepth > 0
          /\ q = At(o, Rest(z, z.scopeDepth - IF c THEN 1 ELSE 0), l)
    BY <1>1, <1>2, <1>3
  <2>2. Effect(x, At(o, z, a), q) <=>
          /\ z.type # "none" /\ ~z.pending
          /\ \E l \in Seq(BOOLEAN), c \in BOOLEAN :
               /\ a = Append(l, c)
               /\ x[1] \in {"superclass", "inherit"} => ~c
               /\ c => z.scopeDepth > 0
               /\ q = At(o, Rest(z, z.scopeDepth - IF c THEN 1 ELSE 0), l)
    BY OfClassDoes
  <2> QED
    BY <1>2, <1>3, <2>1, <2>2
<1>5. IsList(<<x>>) /\ Runs(<<x>>, p, q)
  BY <1>4, RunsOne
<1>6. IsList(K) /\ Runs(K, p, p)
  BY <1>2, <1>3, RunsInside DEF Level
<1> QED
  BY <1>1, <1>2, <1>5, <1>6, RunsJoined

LEMMA InClass ==
  ASSUME IInv, NEW f \in OfClass, Doing(f)
  PROVE  \E o, s, k, b :
           /\ k \in Seq(BOOLEAN) /\ b \in BOOLEAN
           /\ FitsOuter(o) /\ classes = Append(k, b)
           /\ s = Shape(current) /\ s.type # "none" /\ ~s.pending /\ s.scopeDepth \in Nat
           /\ f \in {"superclass", "inherit"} => ~b
           /\ b => s.scopeDepth > 0
           /\ Runs(Tail(todo), At(o, Rest(s, s.scopeDepth - IF b THEN 1 ELSE 0), k), End)
<1>1. PICK o, s, r : /\ FitsOuter(o) /\ Fits(s, current)
                     /\ Effect(todo[1], At(o, s, classes), r) /\ Runs(Tail(todo), r, End)
  BY Begins
<1>2. todo[1][1] = f /\ Good(current) /\ current.type \in FunctionTypes
  BY Begins
<1>3. /\ ~s.pending
      /\ \E k \in Seq(BOOLEAN), b \in BOOLEAN :
           /\ classes = Append(k, b)
           /\ f \in {"superclass", "inherit"} => ~b
           /\ b => s.scopeDepth > 0
           /\ r = At(o, Rest(s, s.scopeDepth - IF b THEN 1 ELSE 0), k)
  BY <1>1, <1>2, OfClassDoes
<1>4. PICK k \in Seq(BOOLEAN), b \in BOOLEAN :
           /\ classes = Append(k, b)
           /\ f \in {"superclass", "inherit"} => ~b
           /\ b => s.scopeDepth > 0
           /\ r = At(o, Rest(s, s.scopeDepth - IF b THEN 1 ELSE 0), k)
  BY <1>3
<1>5. PICK c, z : c = current /\ z = Shape(c)
  OBVIOUS
<1>6. /\ s.type = c.type /\ s.scopeDepth = c.scopeDepth
      /\ z.type = c.type /\ z.scopeDepth = c.scopeDepth /\ ~z.pending
  BY <1>1, <1>3, <1>5, FitsIs, ShapeIs
<1>7. \A d : Rest(s, d) = Rest(z, d)
  BY <1>6 DEF Rest
<1>8. z.type # "none" /\ z.scopeDepth \in Nat
  BY <1>2, <1>5, <1>6, GoodIs DEF FunctionTypes
<1>9. b => z.scopeDepth > 0
  BY <1>4, <1>6
<1>10. Runs(Tail(todo), At(o, Rest(z, z.scopeDepth - IF b THEN 1 ELSE 0), k), End)
  BY <1>1, <1>4, <1>6, <1>7
<1> QED
  BY <1>1, <1>4, <1>5, <1>6, <1>8, <1>9, <1>10

LEMMA ClassItems ==
  ASSUME NEW name \in Spellings, NEW f \in {"superclass", "inherit", "classBody"},
         NEW x, x = <<f, name>>
  PROVE  x[1] = f /\ Arguments(x)
<1>1. x[1] = f /\ x[2] = name
  OBVIOUS
<1> QED
  BY <1>1 DEF Arguments

LEMMA SuperclassKeeps ==
  ASSUME IInv, superclass
  PROVE  IInv'
<1>1. PICK n, t : n = todo[1][2] /\ t = parser.previous
  OBVIOUS
<1>2. PICK x : x = <<"inherit", n>>
  OBVIOUS
<1>3. /\ Doing("superclass") /\ UNCHANGED <<text, source, parser, compilers, classes, made>>
      /\ Do(<<Name(t, FALSE), x>>)
  BY <1>1, <1>2 DEF superclass
<1>4. /\ todo[1][1] = "superclass" /\ Arguments(todo[1]) /\ ParserOK /\ CompilersOK
      /\ compilers # <<>> /\ Good(current)
  BY <1>3, Begins
<1>5. n \in Spellings /\ t \in Spellings
  BY <1>1, <1>4 DEF Arguments, ParserOK
<1>6. PICK o, s, k, b :
           /\ k \in Seq(BOOLEAN) /\ b \in BOOLEAN
           /\ FitsOuter(o) /\ classes = Append(k, b)
           /\ s = Shape(current) /\ s.type # "none" /\ ~s.pending /\ s.scopeDepth \in Nat
           /\ "superclass" \in {"superclass", "inherit"} => ~b
           /\ b => s.scopeDepth > 0
           /\ Runs(Tail(todo), At(o, Rest(s, s.scopeDepth - IF b THEN 1 ELSE 0), k), End)
  BY <1>3, InClass DEF OfClass
<1>7. PICK K, L, z, p, r : /\ K = <<Name(t, FALSE)>> /\ L = K \o <<x>>
                           /\ z = Rest(s, s.scopeDepth) /\ p = At(o, z, classes)
                           /\ r = At(o, Rest(s, s.scopeDepth - IF b THEN 1 ELSE 0), k)
  OBVIOUS
<1>8. Level(K, Inside)
  BY <1>5, <1>7, Items, Levels
<1>9. x[1] = "inherit" /\ Arguments(x)
  BY <1>2, <1>5, ClassItems
<1>10. IsList(L) /\ Runs(L, p, r)
  BY <1>6, <1>7, <1>8, <1>9, ClassRuns DEF OfClass
<1>11. Do(L)
  BY <1>3, <1>7, Concatenated
<1>12. Fits(z, current)
  BY <1>6, <1>7, ShapeIs DEF Fits
<1>13. ParserOK' /\ compilers' = Put(current)
  BY <1>3, <1>4, Unchanged, Here
<1> QED
  BY <1>3, <1>4, <1>6, <1>7, <1>10, <1>11, <1>12, <1>13, Proceeds

LEMMA InheritKeeps ==
  ASSUME IInv, inheritFrom
  PROVE  IInv'
<1>1. PICK name, b, c, e : /\ name = todo[1][2] /\ b = current
                           /\ c = addLocal(beginScope(b), "super") /\ e = markInitialized(c)
  OBVIOUS
<1>2. PICK x : x = <<"classBody", name>>
  OBVIOUS
<1>3. /\ Doing("inherit") /\ UNCHANGED <<text, made>>
      /\ compilers' = Put(e)
      /\ classes' = [classes EXCEPT ![Len(classes)] = TRUE]
      /\ Do(<<Name(name, FALSE), Emits("INHERIT"), x>>)
  BY <1>1, <1>2 DEF inheritFrom
<1>4. ParserOK'
  <2>1. \E wrong : Stay(wrong)
    BY DEF inheritFrom
  <2> QED
    BY <1>3, <2>1, Begins, Stays
<1>5. todo[1][1] = "inherit" /\ Arguments(todo[1]) /\ Good(b) /\ b.scopeDepth \in Nat
  BY <1>1, <1>3, Begins, GoodIs
<1>6. name \in Spellings
  BY <1>1, <1>5 DEF Arguments
<1>7. PICK o, s, k, i :
           /\ k \in Seq(BOOLEAN) /\ i \in BOOLEAN
           /\ FitsOuter(o) /\ classes = Append(k, i)
           /\ s = Shape(current) /\ s.type # "none" /\ ~s.pending /\ s.scopeDepth \in Nat
           /\ "inherit" \in {"superclass", "inherit"} => ~i
           /\ i => s.scopeDepth > 0
           /\ Runs(Tail(todo), At(o, Rest(s, s.scopeDepth - IF i THEN 1 ELSE 0), k), End)
  BY <1>3, InClass DEF OfClass
<1>8. /\ Good(beginScope(b)) /\ beginScope(b).type = b.type
      /\ beginScope(b).scopeDepth = b.scopeDepth + 1 /\ ~Shape(beginScope(b)).pending
  BY <1>1, <1>5, <1>7, Entered
<1>9. Good(c) /\ c.type = b.type /\ c.scopeDepth = b.scopeDepth + 1 /\ Len(c.locals) > 1
  BY <1>1, <1>8, LocalAdded, Spelt
<1>10. Good(e) /\ e.type = b.type /\ e.scopeDepth = b.scopeDepth + 1 /\ ~Shape(e).pending
  <2>1. /\ Good(e) /\ e.type = c.type /\ e.scopeDepth = c.scopeDepth
        /\ c.scopeDepth > 0 => ~Shape(e).pending
    BY <1>1, <1>9, Marked
  <2> QED
    BY <1>5, <1>9, <2>1
<1>11. PICK d, t, a, K, L : /\ d = s.scopeDepth + 1 /\ t = TRUE /\ a = Append(k, t)
                            /\ K = <<Name(name, FALSE), Emits("INHERIT")>> /\ L = K \o <<x>>
  OBVIOUS
<1>12. s.type = b.type /\ s.scopeDepth = b.scopeDepth
  BY <1>1, <1>7, ShapeIs
<1>13. classes' = a /\ a \in Seq(BOOLEAN) /\ t \in BOOLEAN
  BY <1>3, <1>7, <1>11, ClassesAre
<1>14. Level(K, Inside)
  <2>1. Ok(Emits("INHERIT"), Inside)
    BY Emitting DEF OpCode, ByteInstructions
  <2> QED
    BY <1>6, <1>11, <2>1, Items, Levels
<1>15. x[1] = "classBody" /\ Arguments(x)
  BY <1>2, <1>6, ClassItems
<1>16. d \in Nat /\ d > 0
  BY <1>7, <1>11
<1>17. PICK p, r : p = At(o, Rest(s, d), a) /\ r = At(o, Rest(s, d - IF t THEN 1 ELSE 0), k)
  OBVIOUS
<1>18. IsList(L) /\ Runs(L, p, r)
  <2>1. x[1] \in OfClass /\ ~(x[1] \in {"superclass", "inherit"})
    BY <1>15 DEF OfClass
  <2> QED
    BY <1>7, <1>11, <1>13, <1>14, <1>15, <1>16, <1>17, <2>1, ClassRuns
<1>19. Runs(Tail(todo), r, End)
  <2>1. d - (IF t THEN 1 ELSE 0) = s.scopeDepth - (IF i THEN 1 ELSE 0)
    BY <1>7, <1>11
  <2> QED
    BY <1>7, <1>17, <2>1
<1>20. Fits(Rest(s, d), e)
  <2>1. Rest(s, d) = Rest(Shape(e), e.scopeDepth)
    BY <1>10, <1>11, <1>12, ShapeIs DEF Rest
  <2> QED
    BY <1>10, <2>1 DEF Fits
<1>21. Do(L)
  <2>1. L = <<Name(name, FALSE), Emits("INHERIT"), x>>
    BY <1>11, Concatenated
  <2> QED
    BY <1>3, <2>1
<1> QED
  BY <1>3, <1>4, <1>7, <1>10, <1>13, <1>17, <1>18, <1>19, <1>20, <1>21, Moves

LEMMA ClassBodyKeeps ==
  ASSUME IInv, classBody
  PROVE  IInv'
<1>1. PICK n : n = todo[1][2]
  OBVIOUS
<1>2. PICK x, K, L : /\ x = <<"endClass">>
                     /\ K = <<Name(n, FALSE), Consume("{"), <<"methods">>, Consume("}"), Emits("POP")>>
                     /\ L = K \o <<x>>
  OBVIOUS
<1>3. /\ Doing("classBody") /\ UNCHANGED <<text, source, parser, compilers, classes, made>>
      /\ Do(<<Name(n, FALSE), Consume("{"), <<"methods">>, Consume("}"), Emits("POP"), x>>)
  BY <1>1, <1>2 DEF classBody
<1>4. /\ todo[1][1] = "classBody" /\ Arguments(todo[1]) /\ CompilersOK
      /\ compilers # <<>> /\ Good(current)
  BY <1>3, Begins
<1>5. n \in Spellings
  BY <1>1, <1>4 DEF Arguments
<1>6. PICK o, s, k, b :
           /\ k \in Seq(BOOLEAN) /\ b \in BOOLEAN
           /\ FitsOuter(o) /\ classes = Append(k, b)
           /\ s = Shape(current) /\ s.type # "none" /\ ~s.pending /\ s.scopeDepth \in Nat
           /\ "classBody" \in {"superclass", "inherit"} => ~b
           /\ b => s.scopeDepth > 0
           /\ Runs(Tail(todo), At(o, Rest(s, s.scopeDepth - IF b THEN 1 ELSE 0), k), End)
  BY <1>3, InClass DEF OfClass
<1>7. PICK z, p, r : /\ z = Rest(s, s.scopeDepth) /\ p = At(o, z, classes)
                     /\ r = At(o, Rest(s, s.scopeDepth - IF b THEN 1 ELSE 0), k)
  OBVIOUS
<1>8. Level(K, Inside)
  <2>1. /\ Ok(Name(n, FALSE), Inside) /\ Ok(Consume("{"), Inside) /\ Ok(<<"methods">>, Inside)
        /\ Ok(Consume("}"), Inside) /\ Ok(Emits("POP"), Inside)
    BY <1>5, Items, SimpleItems, Emitting DEF OpCode, ByteInstructions
  <2> QED
    BY <1>2, <2>1, Levels
<1>9. x[1] = "endClass" /\ Arguments(x)
  BY <1>2, Simple DEF NoArguments
<1>10. IsList(L) /\ Runs(L, p, r)
  <2>1. x[1] \in OfClass /\ ~(x[1] \in {"superclass", "inherit"})
    BY <1>9 DEF OfClass
  <2> QED
    BY <1>2, <1>6, <1>7, <1>8, <1>9, <2>1, ClassRuns
<1>11. Do(L)
  <2>1. PICK i1, i2, i3, i4, i5 : /\ i1 = Name(n, FALSE) /\ i2 = Consume("{")
                                  /\ i3 = <<"methods">> /\ i4 = Consume("}")
                                  /\ i5 = Emits("POP")
    OBVIOUS
  <2>2. K = <<i1, i2, i3, i4, i5>> /\ Do(<<i1, i2, i3, i4, i5, x>>)
    BY <1>2, <1>3, <2>1
  <2>3. <<i1, i2, i3, i4, i5>> \o <<x>> = <<i1, i2, i3, i4, i5, x>>
    BY Concatenated
  <2> QED
    BY <1>2, <2>2, <2>3
<1>12. Fits(z, current)
  BY <1>6, <1>7, ShapeIs DEF Fits
<1>13. ParserOK' /\ compilers' = Put(current)
  BY <1>3, <1>4, Unchanged, Here
<1> QED
  BY <1>3, <1>4, <1>6, <1>7, <1>10, <1>11, <1>12, <1>13, Proceeds

LEMMA EndClassKeeps ==
  ASSUME IInv, endClass
  PROVE  IInv'
<1>1. /\ Doing("endClass") /\ UNCHANGED <<text, source, parser, made>> /\ Do(<<>>)
      /\ compilers' = (IF Last(classes) THEN Put(endScope(current)) ELSE compilers)
      /\ classes' = Front(classes)
  BY DEF endClass
<1>2. Good(current) /\ CompilersOK /\ compilers # <<>>
  BY <1>1, Begins
<1>3. PICK o, s, k, b :
           /\ k \in Seq(BOOLEAN) /\ b \in BOOLEAN
           /\ FitsOuter(o) /\ classes = Append(k, b)
           /\ s = Shape(current) /\ s.type # "none" /\ ~s.pending /\ s.scopeDepth \in Nat
           /\ "endClass" \in {"superclass", "inherit"} => ~b
           /\ b => s.scopeDepth > 0
           /\ Runs(Tail(todo), At(o, Rest(s, s.scopeDepth - IF b THEN 1 ELSE 0), k), End)
  BY <1>1, InClass DEF OfClass
<1>4. Last(classes) = b /\ classes' = k
  BY <1>1, <1>3, ClassesAre
<1>5. PICK c, z, r : /\ c = (IF b THEN endScope(current) ELSE current)
                     /\ z = Rest(s, s.scopeDepth - IF b THEN 1 ELSE 0)
                     /\ r = At(o, z, k)
  OBVIOUS
<1>6. compilers' = Put(c)
  BY <1>1, <1>2, <1>4, <1>5, Here
<1>7. s.type = current.type /\ s.scopeDepth = current.scopeDepth
  BY <1>3, ShapeIs
<1>8. Good(c) /\ ~Shape(c).pending /\ c.type = s.type /\ z = Rest(s, c.scopeDepth)
  <2>1. CASE b
    <3>1. /\ Good(endScope(current)) /\ endScope(current).type = current.type
          /\ endScope(current).scopeDepth = current.scopeDepth - 1
          /\ ~Shape(endScope(current)).pending
      BY <1>2, <1>3, <1>7, <2>1, Left
    <3> QED
      BY <1>5, <1>7, <2>1, <3>1
  <2>2. CASE ~b
    <3>1. c = current /\ s.scopeDepth - (IF b THEN 1 ELSE 0) = s.scopeDepth
      BY <1>3, <1>5, <2>2
    <3> QED
      BY <1>2, <1>3, <1>5, <1>7, <3>1
  <2> QED
    BY <2>1, <2>2
<1>9. Fits(z, c)
  <2>1. z = Rest(Shape(c), c.scopeDepth)
    BY <1>8, ShapeIs DEF Rest
  <2> QED
    BY <1>8, <2>1 DEF Fits
<1>10. IsList(<<>>) /\ Runs(<<>>, r, r)
  BY RunsNothing
<1>11. ParserOK'
  BY <1>1, Unchanged
<1> QED
  BY <1>1, <1>3, <1>4, <1>5, <1>6, <1>8, <1>9, <1>10, <1>11, Moves

LEMMA ClassNameKeeps ==
  ASSUME IInv, className
  PROVE  IInv'
<1>1. PICK name, n, b, v : /\ name = parser.previous /\ n = NextConstant(current) /\ b = current
                           /\ v = Constant(name)
  OBVIOUS
<1>2. PICK bytes : bytes = <<Opcode("CLASS"), Byte(n)>>
  OBVIOUS
<1>3. PICK c1 : c1 = AddConstant(b, v)
  OBVIOUS
<1>4. PICK c2 : c2 = declareVariable(c1, name)
  OBVIOUS
<1>5. PICK c3 : c3 = Emit(c2, bytes)
  OBVIOUS
<1>6. PICK c : c = defineVariable(c3, n)
  OBVIOUS
<1>7. PICK x, y, wrong : /\ x = <<"superclass", name>> /\ y = <<"classBody", name>>
                         /\ wrong = (TooManyConstants(current) \/ CannotDeclare(current, name))
  OBVIOUS
<1>8. /\ Doing("class") /\ UNCHANGED <<text, made>> /\ compilers' = Put(c)
      /\ classes' = Append(classes, FALSE)
      /\ Match("<", wrong, <<Consume("identifier"), x>>, <<y>>)
  BY <1>1, <1>2, <1>3, <1>4, <1>5, <1>6, <1>7 DEF className
<1>9. /\ Good(b) /\ b.type \in FunctionTypes /\ b.scopeDepth \in Nat /\ text \in Texts /\ ParserOK
      /\ name \in Spellings /\ classes \in Seq(BOOLEAN)
  BY <1>1, <1>8, Begins, GoodIs DEF ParserOK
<1>10. ~Shape(b).pending
  BY <1>1, <1>8, AtRest DEF Around
<1>11. Good(c1) /\ Shape(c1) = Shape(b) /\ n \in Nat
  <2>1. v \in [name : Spellings, upvalueCount : Nat] /\ b \in CompilerType
    BY <1>1, <1>9, ConstantsAre DEF Good
  <2> QED
    BY <1>1, <1>3, <1>9, <2>1, Added, ConstantsAre
<1>12. c1.type = b.type /\ c1.scopeDepth = b.scopeDepth /\ ~Shape(c1).pending
  BY <1>10, <1>11, ShapeIs
<1>13. /\ Good(c2) /\ c2.type = b.type /\ c2.scopeDepth = b.scopeDepth
       /\ IF c2.scopeDepth > 0 THEN Len(c2.locals) > 1 ELSE ~Shape(c2).pending
  <2>1. CASE b.scopeDepth = 0
    BY <1>4, <1>11, <1>12, <2>1 DEF declareVariable
  <2>2. CASE b.scopeDepth # 0
    <3>1. c2 = addLocal(c1, name)
      BY <1>4, <1>12, <2>2 DEF declareVariable
    <3> QED
      BY <1>9, <1>11, <1>12, <2>2, <3>1, LocalAdded
  <2> QED
    BY <2>1, <2>2
<1>14. bytes \in Seq(Bytes)
  BY <1>2, <1>11, Emitting DEF OpCode, ByteInstructions
<1>15. Good(c3) /\ Shape(c3) = Shape(c2)
  BY <1>5, <1>13, <1>14, Emitted
<1>16. /\ c3.type = b.type /\ c3.scopeDepth = b.scopeDepth
       /\ IF c3.scopeDepth > 0 THEN Len(c3.locals) > 1 ELSE ~Shape(c3).pending
  BY <1>13, <1>15, ShapeIs
<1>17. Good(c) /\ c.type = b.type /\ c.scopeDepth = b.scopeDepth /\ ~Shape(c).pending
  BY <1>6, <1>9, <1>11, <1>15, <1>16, Defined
<1>18. PICK s, d, i, a : /\ s = Shape(c) /\ d = c.scopeDepth /\ i = FALSE /\ a = Append(classes, i)
  OBVIOUS
<1>19. s.type # "none" /\ d \in Nat /\ i \in BOOLEAN /\ ~i
  BY <1>9, <1>17, <1>18, ShapeIs DEF FunctionTypes
<1>20. a \in Seq(BOOLEAN) /\ classes' = a
  BY <1>8, <1>9, <1>18, ClassesAre
<1>21. \E K, w : Level(K, Inside) /\ w[1] \in OfClass /\ Arguments(w) /\ Do(K \o <<w>>)
  <2>1. \/ Do(<<Consume("identifier"), x>>)
        \/ Do(<<y>>)
    BY <1>8, <1>9, Matches
  <2>2. CASE Do(<<Consume("identifier"), x>>)
    <3>1. Level(<<Consume("identifier")>>, Inside)
      BY Items, Levels
    <3>2. <<Consume("identifier"), x>> = <<Consume("identifier")>> \o <<x>>
      BY Concatenated
    <3>3. x[1] \in OfClass /\ Arguments(x)
      BY <1>7, <1>9, ClassItems DEF OfClass
    <3> QED
      BY <2>2, <3>1, <3>2, <3>3
  <2>3. CASE Do(<<y>>)
    <3>1. Level(<<>>, Inside) /\ <<y>> = <<>> \o <<y>>
      BY Levels
    <3>2. y[1] \in OfClass /\ Arguments(y)
      BY <1>7, <1>9, ClassItems DEF OfClass
    <3> QED
      BY <2>3, <3>1, <3>2
  <2> QED
    BY <2>1, <2>2, <2>3
<1>22. PICK K, w : Level(K, Inside) /\ w[1] \in OfClass /\ Arguments(w) /\ Do(K \o <<w>>)
  BY <1>21
<1>23. PICK L : L = K \o <<w>>
  OBVIOUS
<1>24. PICK o, z, r : /\ FitsOuter(o) /\ Fits(z, b)
                      /\ Effect(todo[1], At(o, z, classes), r) /\ Runs(Tail(todo), r, End)
  BY <1>1, <1>8, Begins
<1>25. r = At(o, Rest(s, d), classes)
  <2>1. r = At(o, Rest(z, z.scopeDepth), classes)
    <3>1. todo[1][1] \in Around
      BY <1>8, Begins DEF Around
    <3> QED
      BY <1>24, <3>1, AroundDoes
  <2>2. z.type = s.type /\ z.scopeDepth = d
    BY <1>17, <1>18, <1>24, FitsIs, ShapeIs
  <2> QED
    BY <2>1, <2>2 DEF Rest
<1>26. d - (IF i THEN 1 ELSE 0) = d
  BY <1>19
<1>27. PICK p : p = At(o, Rest(s, d), a)
  OBVIOUS
<1>28. IsList(L) /\ Runs(L, p, r)
  BY <1>9, <1>18, <1>19, <1>22, <1>23, <1>25, <1>26, <1>27, ClassRuns
<1>29. Fits(Rest(s, d), c)
  BY <1>17, <1>18 DEF Fits
<1>30. ParserOK'
  BY <1>8, <1>9, Matches
<1> QED
  BY <1>8, <1>17, <1>20, <1>22, <1>23, <1>24, <1>27, <1>28, <1>29, <1>30, Moves

---------------------------------------------------------------------------
(* Functions.                                                              *)

LEMMA Initial ==
  ASSUME NEW type \in FunctionTypes
  PROVE  /\ Good(initCompiler(type)) /\ initCompiler(type).type = type
         /\ initCompiler(type).scopeDepth = 0 /\ Len(initCompiler(type).locals) = 1
         /\ ~Shape(initCompiler(type)).pending
<1>1. PICK x : x = [name |-> IF type = "function" THEN "" ELSE "this",
                    depth |-> 0, isCaptured |-> FALSE]
  OBVIOUS
<1>2. x \in LocalType /\ x.depth = 0
  BY <1>1, Spelt DEF LocalType
<1>3. PICK L : L = <<x>>
  OBVIOUS
<1>4. L \in Seq(LocalType) /\ Len(L) = 1 /\ L[1] = x
  BY <1>2, <1>3
<1>5. PICK c : c = initCompiler(type)
  OBVIOUS
<1>6. /\ c.type = type /\ c.arity = 0 /\ c.scopeDepth = 0 /\ c.locals = L
      /\ c.upvalues = <<>> /\ c.code = <<>> /\ c.constants = <<>>
      /\ c = [type |-> type, arity |-> 0, scopeDepth |-> 0, locals |-> L,
              upvalues |-> <<>>, code |-> <<>>, constants |-> <<>>]
  BY <1>1, <1>3, <1>5 DEF initCompiler
<1>7. \A S : <<>> \in Seq(S)
  OBVIOUS
<1>8. c \in CompilerType
  BY <1>4, <1>6, <1>7 DEF CompilerType, FunctionTypes, LocalType
<1>9. Ordered(L, 0)
  BY <1>2, <1>4, Count DEF Ordered
<1>10. Len(c.upvalues) <= UINT8_COUNT
  BY <1>6, Count
<1>11. Good(c)
  BY <1>6, <1>8, <1>9, <1>10 DEF Good, Scoped
<1>12. ~Shape(c).pending
  <2>1. c.locals[Len(c.locals)] = x
    BY <1>4, <1>6
  <2>2. c.locals[Len(c.locals)].depth # -1
    BY <1>2, <2>1
  <2> QED
    BY <2>2, ShapeIs
<1> QED
  BY <1>4, <1>5, <1>6, <1>11, <1>12

LEMMA Enclosed ==
  ASSUME CompilersOK, compilers # <<>>, NEW c, Good(c), compilers' = Append(compilers, c),
         NEW o, FitsOuter(o), NEW s, Fits(s, current)
  PROVE  CompilersOK' /\ compilers' # <<>> /\ current' = c /\ FitsOuter(Append(o, s))'
<1>1. PICK n, m : n = Len(compilers) /\ m = Len(o)
  OBVIOUS
<1>2. IsList(o) /\ m + 1 = n /\ n \in Nat \ {0} /\ m \in Nat /\ current = compilers[n]
  BY <1>1, Here, TodoIs DEF FitsOuter
<1>3. /\ compilers' \in Seq(CompilerType) /\ Len(compilers') = n + 1 /\ compilers'[n + 1] = c
      /\ \A i \in 1..n : compilers'[i] = compilers[i]
  BY <1>1, AppendProperties DEF CompilersOK, Good
<1>4. CompilersOK'
  BY <1>1, <1>2, <1>3 DEF CompilersOK
<1>5. compilers' # <<>> /\ current' = c
  BY <1>2, <1>3 DEF current, Last
<1>6. PICK S, a : S = Range(o) \cup {s} /\ a = Append(o, s)
  OBVIOUS
<1>7. o \in Seq(S) /\ s \in S
  BY <1>2, <1>6, SeqMonotonic DEF IsList
<1>8. /\ a \in Seq(S) /\ Len(a) = n /\ a[n] = s
      /\ \A i \in 1..m : a[i] = o[i]
  BY <1>1, <1>2, <1>6, <1>7, AppendProperties
<1>9. ASSUME NEW i \in 1..n PROVE Fits(a[i], compilers'[i])
  <2>1. CASE i = n
    BY <1>2, <1>3, <1>8, <2>1
  <2>2. CASE i # n
    <3>1. i \in 1..m
      BY <1>2, <2>2
    <3>2. Fits(o[i], compilers[i])
      BY <1>1, <3>1 DEF FitsOuter
    <3> QED
      BY <1>3, <1>8, <3>1, <3>2
  <2> QED
    BY <2>1, <2>2
<1>10. FitsOuter(a)'
  BY <1>3, <1>8, <1>9, IsListIf DEF FitsOuter
<1> QED
  BY <1>4, <1>5, <1>6, <1>10

(* What is left to do of a function leads to the function around it.       *)
LEMMA FunctionRuns ==
  ASSUME NEW K, Level(K, Beside), NEW x, x[1] \in OfFunction, Arguments(x),
         NEW s, s.type # "none", NEW d, NEW o, IsList(o), NEW t, NEW k
  PROVE  /\ IsList(K \o <<x>>)
         /\ Runs(K \o <<x>>, At(Append(o, t), Rest(s, d), k), At(o, t, k))
<1>1. PICK z, a : z = Rest(s, d) /\ a = Append(o, t)
  OBVIOUS
<1>2. PICK p, q : p = At(a, z, k) /\ q = At(o, t, k)
  OBVIOUS
<1>3. z.type # "none" /\ ~z.pending
  BY <1>1, RestIs
<1>4. Effect(x, p, q)
  BY <1>1, <1>2, <1>3, OfFunctionDoes
<1>5. IsList(<<x>>) /\ Runs(<<x>>, p, q)
  BY <1>4, RunsOne
<1>6. IsList(K) /\ Runs(K, p, p)
  BY <1>1, <1>2, RunsBeside DEF Level
<1> QED
  BY <1>1, <1>2, <1>5, <1>6, RunsJoined

LEMMA FunctionItems ==
  /\ \A x : x = <<"parameterList">> \/ x = <<"parameter">> \/ x = <<"parameterName">>
              \/ x = <<"endFunction">> =>
       x[1] \in OfFunction /\ Arguments(x)
<1>1. ASSUME NEW f \in OfFunction, NEW x, x = <<f>>
      PROVE  x[1] \in OfFunction /\ Arguments(x)
  <2>1. f \in NoArguments
    BY DEF OfFunction, NoArguments
  <2> QED
    BY <1>1, <2>1, Simple
<1> QED
  BY <1>1 DEF OfFunction

LEMMA InFunction ==
  ASSUME IInv, NEW f \in OfFunction, Doing(f)
  PROVE  \E o, t, s :
           /\ IsList(o) /\ FitsOuter(Append(o, t))
           /\ s = Shape(current) /\ s.type # "none" /\ ~s.pending
           /\ Runs(Tail(todo), At(o, t, classes), End)
<1>1. PICK o, s, r : /\ FitsOuter(o) /\ Fits(s, current)
                     /\ Effect(todo[1], At(o, s, classes), r) /\ Runs(Tail(todo), r, End)
  BY Begins
<1>2. todo[1][1] = f /\ current.type \in FunctionTypes
  BY Begins
<1>3. PICK u, t : IsList(u) /\ o = Append(u, t) /\ r = At(u, t, classes)
  BY <1>1, <1>2, OfFunctionDoes
<1>4. PICK z : z = Shape(current)
  OBVIOUS
<1>5. z.type # "none" /\ ~z.pending
  BY <1>2, <1>4, AtRest, ShapeIs DEF FunctionTypes
<1> QED
  BY <1>1, <1>3, <1>4, <1>5

(* A step of a function's own compiler, before the function ends.          *)
LEMMA FunctionStep ==
  ASSUME IInv, NEW f \in OfFunction, Doing(f), NEW c, Good(c), c.type = current.type,
         ~Shape(c).pending, compilers' = Put(c), UNCHANGED <<text, classes, made>>, ParserOK',
         NEW K, Level(K, Beside), NEW x, x[1] \in OfFunction, Arguments(x), Do(K \o <<x>>)
  PROVE  IInv'
<1>1. PICK o, t, s :
           /\ IsList(o) /\ FitsOuter(Append(o, t))
           /\ s = Shape(current) /\ s.type # "none" /\ ~s.pending
           /\ Runs(Tail(todo), At(o, t, classes), End)
  BY InFunction
<1>2. PICK a, z, r, L : /\ a = Append(o, t) /\ z = Shape(c) /\ r = At(o, t, classes)
                        /\ L = K \o <<x>>
  OBVIOUS
<1>3. PICK d, y : d = c.scopeDepth /\ y = Rest(z, d)
  OBVIOUS
<1>4. z.type # "none"
  BY <1>1, <1>2, ShapeIs
<1>5. IsList(L) /\ Runs(L, At(a, y, classes), r)
  BY <1>1, <1>2, <1>3, <1>4, FunctionRuns
<1>6. Fits(y, c)
  BY <1>2, <1>3 DEF Fits
<1> QED
  BY <1>1, <1>2, <1>5, <1>6, Proceeds

LEMMA FunctionKeeps ==
  ASSUME IInv, function
  PROVE  IInv'
<1>1. PICK type, x, c : /\ type = todo[1][2] /\ x = <<"parameterList">>
                        /\ c = beginScope(initCompiler(type))
  OBVIOUS
<1>2. /\ Doing("function") /\ UNCHANGED <<text, source, parser, classes, made>>
      /\ compilers' = Append(compilers, c) /\ Do(<<Consume("("), x>>)
  BY <1>1 DEF function
<1>3. /\ compilers # <<>> /\ text \in Texts /\ CompilersOK /\ MadeOK
      /\ classes \in Seq(BOOLEAN) /\ IsList(Tail(todo)) /\ todo[1][1] = "function"
      /\ Arguments(todo[1])
  BY <1>2, Begins
<1>4. type \in FunctionTypes
  BY <1>1, <1>3 DEF Arguments
<1>5. Good(c) /\ c.type = type /\ ~Shape(c).pending
  BY <1>1, <1>4, Initial, Entered
<1>6. PICK o, s, r : /\ FitsOuter(o) /\ Fits(s, current)
                     /\ Effect(todo[1], At(o, s, classes), r) /\ Runs(Tail(todo), r, End)
  BY <1>2, Begins
<1>7. r = At(o, s, classes) /\ IsList(o)
  BY <1>3, <1>6, InsideDoes DEF Inside, FitsOuter
<1>8. PICK a : a = Append(o, s)
  OBVIOUS
<1>9. CompilersOK' /\ compilers' # <<>> /\ current' = c /\ FitsOuter(a)'
  BY <1>2, <1>3, <1>5, <1>6, <1>8, Enclosed
<1>10. PICK z, d, y, K, L : /\ z = Shape(c) /\ d = c.scopeDepth /\ y = Rest(z, d)
                            /\ K = <<Consume("(")>> /\ L = K \o <<x>>
  OBVIOUS
<1>11. Fits(y, current)'
  BY <1>5, <1>9, <1>10 DEF Fits
<1>12. x[1] \in OfFunction /\ Arguments(x)
  BY <1>1, FunctionItems
<1>13. Level(K, Beside)
  BY <1>10, Items, Levels, Wider
<1>14. z.type # "none"
  BY <1>4, <1>5, <1>10, ShapeIs DEF FunctionTypes
<1>15. IsList(L) /\ Runs(L, At(a, y, classes), r)
  BY <1>7, <1>8, <1>10, <1>12, <1>13, <1>14, FunctionRuns
<1>16. Do(L)
  BY <1>2, <1>10, Concatenated
<1>17. ParserOK'
  BY <1>2, Unchanged
<1>18. text' \in Texts /\ MadeOK' /\ classes' \in Seq(BOOLEAN) /\ classes = classes'
  BY <1>2, <1>3 DEF MadeOK
<1> QED
  BY <1>3, <1>6, <1>9, <1>11, <1>15, <1>16, <1>17, <1>18, Continues

LEMMA Bodies ==
  \E K, x : /\ body = K \o <<x>> /\ Level(K, Beside) /\ x[1] \in OfFunction /\ Arguments(x)
<1>1. PICK i1, i2, i3, x : /\ i1 = Consume(")") /\ i2 = Consume("{") /\ i3 = <<"block">>
                           /\ x = <<"endFunction">>
  OBVIOUS
<1>2. body = <<i1, i2, i3, x>>
  BY <1>1 DEF body
<1>3. Level(<<i1, i2, i3>>, Beside)
  BY <1>1, Items, SimpleItems, Levels, Wider
<1>4. <<i1, i2, i3>> \o <<x>> = <<i1, i2, i3, x>>
  BY Concatenated
<1>5. x[1] \in OfFunction /\ Arguments(x)
  BY <1>1, FunctionItems
<1> QED
  BY <1>2, <1>3, <1>4, <1>5

LEMMA OneParameter ==
  \E K, x : /\ <<<<"parameter">>>> = K \o <<x>> /\ Level(K, Beside)
            /\ x[1] \in OfFunction /\ Arguments(x)
<1>1. PICK K, x : K = <<>> /\ x = <<"parameter">>
  OBVIOUS
<1>2. <<x>> = K \o <<x>>
  BY <1>1
<1> QED
  BY <1>1, <1>2, FunctionItems, Levels

LEMMA ParameterListKeeps ==
  ASSUME IInv, parameterList
  PROVE  IInv'
<1>1. /\ Doing("parameterList")
      /\ UNCHANGED <<text, source, parser, compilers, classes, made>>
      /\ Do(body) \/ Do(<<<<"parameter">>>>)
  BY DEF parameterList
<1>2. Good(current) /\ compilers' = Put(current)
  BY <1>1, Begins, Here
<1>3. ~Shape(current).pending
  BY <1>1, AtRest DEF OfFunction
<1>4. \E K, x : /\ Do(K \o <<x>>) /\ Level(K, Beside) /\ x[1] \in OfFunction /\ Arguments(x)
  BY <1>1, Bodies, OneParameter
<1>5. ParserOK'
  BY <1>1, Unchanged
<1> QED
  BY <1>1, <1>2, <1>3, <1>4, <1>5, FunctionStep DEF OfFunction

LEMMA ParameterKeeps ==
  ASSUME IInv, parameter
  PROVE  IInv'
<1>1. PICK b, c, x : /\ b = current /\ c = [b EXCEPT !.arity = b.arity + 1]
                     /\ x = <<"parameterName">>
  OBVIOUS
<1>2. /\ Doing("parameter") /\ UNCHANGED <<text, classes, made>>
      /\ compilers' = Put(c) /\ Do(<<Consume("identifier"), x>>)
  BY <1>1 DEF parameter
<1>3. ParserOK'
  <2>1. \E wrong : Stay(wrong)
    BY DEF parameter
  <2> QED
    BY <1>2, <2>1, Begins, Stays
<1>4. Good(b) /\ b \in CompilerType
  BY <1>1, <1>2, Begins, GoodIs
<1>5. ~Shape(b).pending
  BY <1>1, <1>2, AtRest DEF OfFunction
<1>6. /\ c \in CompilerType /\ c.type = b.type /\ c.scopeDepth = b.scopeDepth
      /\ c.locals = b.locals /\ c.upvalues = b.upvalues
  <2>1. PICK m : m = b.arity + 1
    OBVIOUS
  <2>2. m \in Nat
    BY <1>4, <2>1, Fields
  <2>3. c = [b EXCEPT !.arity = m]
    BY <1>1, <2>1
  <2> QED
    BY <1>4, <2>2, <2>3 DEF CompilerType
<1>7. Good(c) /\ Shape(c) = Shape(b)
  <2>1. Len(c.upvalues) <= UINT8_COUNT
    BY <1>4, <1>6 DEF Good
  <2> QED
    BY <1>4, <1>6, <2>1, Alike
<1>8. Level(<<Consume("identifier")>>, Beside)
  BY Items, Levels, Wider
<1>9. x[1] \in OfFunction /\ Arguments(x)
  BY <1>1, FunctionItems
<1>10. Do(<<Consume("identifier")>> \o <<x>>)
  BY <1>2, Concatenated
<1>11. "parameter" \in OfFunction
  BY DEF OfFunction
<1>12. Good(c) /\ c.type = current.type /\ ~Shape(c).pending
  BY <1>1, <1>5, <1>6, <1>7
<1> QED
  BY <1>2, <1>3, <1>8, <1>9, <1>10, <1>11, <1>12, FunctionStep

LEMMA ParameterNameKeeps ==
  ASSUME IInv, parameterName
  PROVE  IInv'
<1>1. Doing("parameterName") /\ UNCHANGED <<text, classes, made>>
  BY DEF parameterName
<1>2. /\ Good(current) /\ current.type \in FunctionTypes /\ text \in Texts /\ ParserOK
      /\ parser.previous \in Spellings /\ current.scopeDepth \in Nat
  BY <1>1, Begins, GoodIs DEF ParserOK
<1>3. ~Shape(current).pending
  BY <1>1, AtRest DEF OfFunction
<1>4. PICK v : /\ v = ParsedVariable(current, parser.previous) /\ Good(v.compiler)
               /\ v.global \in Nat
               /\ v.compiler.type = current.type /\ v.compiler.scopeDepth = current.scopeDepth
               /\ current.scopeDepth > 0 => Len(v.compiler.locals) > 1
               /\ current.scopeDepth = 0 => ~Shape(v.compiler).pending
  BY <1>2, <1>3, Parsed
<1>5. PICK b, c : b = v.compiler /\ c = markInitialized(b)
  OBVIOUS
<1>6. compilers' = Put(c) /\ Match(",", v.wrong, <<<<"parameter">>>>, body)
  BY <1>4, <1>5 DEF parameterName
<1>7. Good(c) /\ c.type = current.type /\ ~Shape(c).pending
  BY <1>2, <1>4, <1>5, Marked
<1>8. ParserOK' /\ (Do(<<<<"parameter">>>>) \/ Do(body))
  BY <1>2, <1>6, Matches
<1>9. \E K, x : /\ Do(K \o <<x>>) /\ Level(K, Beside) /\ x[1] \in OfFunction /\ Arguments(x)
  BY <1>8, Bodies, OneParameter
<1>10. "parameterName" \in OfFunction
  BY DEF OfFunction
<1> QED
  BY <1>1, <1>6, <1>7, <1>8, <1>9, <1>10, FunctionStep

LEMMA EndFunctionKeeps ==
  ASSUME IInv, endFunction
  PROVE  IInv'
<1>1. /\ Doing("endFunction") /\ UNCHANGED <<text, classes>> /\ Do(<<>>)
      /\ made' = emitReturn(current)
  BY DEF endFunction
<1>2. ParserOK'
  <2>1. \E wrong : Stay(wrong)
    BY DEF endFunction
  <2> QED
    BY <1>1, <2>1, Begins, Stays
<1>3. /\ compilers # <<>> /\ text \in Texts /\ CompilersOK
      /\ classes \in Seq(BOOLEAN) /\ IsList(Tail(todo)) /\ Good(current)
  BY <1>1, Begins
<1>4. PICK o, t, s :
           /\ IsList(o) /\ FitsOuter(Append(o, t))
           /\ s = Shape(current) /\ s.type # "none" /\ ~s.pending
           /\ Runs(Tail(todo), At(o, t, classes), End)
  BY <1>1, InFunction DEF OfFunction
<1>5. PICK done, n, a : done = emitReturn(current) /\ n = Len(compilers) - 1 /\ a = Append(o, t)
  OBVIOUS
<1>6. PICK S, m : S = Range(o) \cup {t} /\ m = Len(o)
  OBVIOUS
<1>7. o \in Seq(S) /\ t \in S /\ m \in Nat
  BY <1>4, <1>6, SeqMonotonic, TodoIs DEF IsList
<1>8. /\ a \in Seq(S) /\ Len(a) = m + 1 /\ a[m + 1] = t
      /\ \A i \in 1..m : a[i] = o[i]
  BY <1>5, <1>6, <1>7, AppendProperties
<1>9. n = m + 1 /\ \A i \in 1..n : Fits(a[i], compilers[i])
  BY <1>4, <1>5, <1>7, <1>8 DEF FitsOuter
<1>10. PICK c, u, nu : c = compilers[n] /\ u = done.upvalues /\ nu = Len(u)
  OBVIOUS
<1>11. Good(c) /\ Fits(t, c)
  <2>1. n \in 1..Len(compilers) /\ n \in 1..n
    BY <1>5, <1>7, <1>9
  <2> QED
    BY <1>3, <1>8, <1>9, <1>10, <2>1 DEF CompilersOK
<1>12. Good(done) /\ u \in Seq([index : 0..ByteMax, isLocal : BOOLEAN]) /\ nu \in Nat
  <2>1. Good(done)
    BY <1>3, <1>5, Returned
  <2> QED
    BY <1>10, <2>1, Fields DEF Good
<1>13. PICK pairs : pairs = [i \in 1..(2 * nu) |->
                              IF i % 2 = 0 THEN Byte(u[(i + 1) \div 2].index)
                              ELSE Byte(IF u[(i + 1) \div 2].isLocal THEN 1 ELSE 0)]
  OBVIOUS
<1>14. pairs \in Seq(Bytes)
  <2>1. ASSUME NEW i \in 1..(2 * nu)
        PROVE  /\ Byte(u[(i + 1) \div 2].index) \in Bytes
               /\ Byte(IF u[(i + 1) \div 2].isLocal THEN 1 ELSE 0) \in Bytes
    <3>1. PICK j : j = (i + 1) \div 2
      OBVIOUS
    <3>2. j \in 1..nu
      BY <1>12, <3>1
    <3>3. u[j] \in [index : 0..ByteMax, isLocal : BOOLEAN]
      BY <1>10, <1>12, <3>2, ElementOfSeq
    <3>4. u[j].index \in Int
      BY <3>3, Count
    <3>5. (IF u[j].isLocal THEN 1 ELSE 0) \in Int
      OBVIOUS
    <3> QED
      BY <3>1, <3>4, <3>5, BytesAre
  <2>2. pairs \in [1..(2 * nu) -> Bytes]
    BY <1>13, <2>1
  <2>3. 2 * nu \in Nat
    BY <1>12
  <2> QED
    BY <2>2, <2>3
<1>15. PICK v, k : v = [name |-> "", upvalueCount |-> nu] /\ k = NextConstant(c)
  OBVIOUS
<1>16. PICK with, bytes : /\ with = AddConstant(c, v)
                          /\ bytes = <<Opcode("CLOSURE"), Byte(k)>> \o pairs
  OBVIOUS
<1>17. PICK e, P : e = Emit(with, bytes) /\ P = SubSeq(compilers, 1, n - 1)
  OBVIOUS
<1>18. compilers' = Append(P, e)
  BY <1>5, <1>10, <1>13, <1>15, <1>16, <1>17 DEF endFunction
<1>19. Good(e) /\ Shape(e) = Shape(c)
  <2>1. v \in [name : Spellings, upvalueCount : Nat] /\ k \in Nat
    BY <1>11, <1>12, <1>15, Spelt, ConstantsAre DEF Good
  <2>2. Good(with) /\ Shape(with) = Shape(c)
    BY <1>11, <1>16, <2>1, Added
  <2>3. bytes \in Seq(Bytes)
    <3>1. <<Opcode("CLOSURE"), Byte(k)>> \in Seq(Bytes)
      BY <2>1, Emitting DEF OpCode, ByteInstructions
    <3> QED
      BY <1>14, <1>16, <3>1, ConcatProperties
  <2> QED
    BY <1>17, <2>2, <2>3, Emitted
<1>20. /\ P \in Seq(CompilerType) /\ Len(P) = m
       /\ \A i \in 1..m : P[i] = compilers[i]
  <2>1. /\ 1 \in Int /\ n - 1 = m /\ m \in Int
        /\ \A i \in 1..m : compilers[i] \in CompilerType
    BY <1>3, <1>5, <1>7, <1>9 DEF CompilersOK, Good
  <2>2. /\ P \in Seq(CompilerType) /\ Len(P) = IF 1 <= m THEN m - 1 + 1 ELSE 0
        /\ \A i \in 1..(m - 1 + 1) : P[i] = compilers[1 + i - 1]
    BY <1>3, <1>17, <2>1, SubSeqProperties DEF CompilersOK
  <2> QED
    BY <1>7, <2>2
<1>21. /\ compilers' \in Seq(CompilerType) /\ Len(compilers') = m + 1 /\ compilers'[m + 1] = e
       /\ \A i \in 1..m : compilers'[i] = compilers[i]
  <2>1. e \in CompilerType
    BY <1>19 DEF Good
  <2> QED
    BY <1>18, <1>20, <2>1, AppendProperties
<1>22. CompilersOK'
  BY <1>3, <1>5, <1>7, <1>9, <1>19, <1>21 DEF CompilersOK
<1>23. compilers' # <<>> /\ current' = e
  BY <1>7, <1>21 DEF current, Last
<1>24. Fits(t, current)'
  BY <1>11, <1>19, <1>23, FitsIs
<1>25. FitsOuter(o)'
  <2>1. \A i \in 1..m : Fits(o[i], compilers'[i])
    BY <1>7, <1>8, <1>9, <1>21
  <2> QED
    BY <1>4, <1>6, <1>21, <2>1 DEF FitsOuter
<1>26. text' \in Texts /\ classes' \in Seq(BOOLEAN) /\ classes = classes'
  BY <1>1, <1>3
<1>27. MadeOK'
  <2>1. Len(done.locals) <= UINT8_COUNT
    BY <1>12, GoodIs DEF Ordered
  <2> QED
    BY <1>1, <1>5, <1>12, <2>1 DEF MadeOK, Good
<1>28. PICK r : r = At(o, t, classes)
  OBVIOUS
<1>29. IsList(<<>>) /\ Runs(<<>>, r, r)
  BY RunsNothing
<1> QED
  BY <1>1, <1>2, <1>3, <1>4, <1>22, <1>23, <1>24, <1>25, <1>26, <1>27, <1>28, <1>29, Continues

---------------------------------------------------------------------------
(* The script.                                                             *)

LEMMA InScript ==
  ASSUME IInv, NEW f \in {"script", "endCompiler"}, Doing(f)
  PROVE  /\ compilers # <<>> /\ Len(compilers) = 1 /\ FitsOuter(<<>>) /\ classes = <<>>
         /\ current.type = "script" /\ current.scopeDepth = 0 /\ ~Shape(current).pending
         /\ Runs(Tail(todo), End, End)
<1>1. PICK o, s, r : /\ FitsOuter(o) /\ Fits(s, current)
                     /\ Effect(todo[1], At(o, s, classes), r) /\ Runs(Tail(todo), r, End)
  BY Begins
<1>2. todo[1][1] = f /\ compilers # <<>> /\ CompilersOK
  BY Begins
<1>3. s.type = "script" /\ ~s.pending /\ s.scopeDepth = 0 /\ o = <<>> /\ classes = <<>> /\ r = End
  BY <1>1, <1>2, ScriptDoes
<1>4. current.type = "script" /\ current.scopeDepth = 0 /\ ~Shape(current).pending
  BY <1>1, <1>3, FitsIs, ShapeIs
<1>5. Len(compilers) = 1
  <2>1. Len(o) + 1 = Len(compilers) /\ Len(o) = 0
    BY <1>1, <1>3 DEF FitsOuter
  <2> QED
    BY <2>1
<1> QED
  BY <1>1, <1>2, <1>3, <1>4, <1>5

LEMMA ScriptKeeps ==
  ASSUME IInv, script
  PROVE  IInv'
<1>1. PICK x, y, d : x = <<"endCompiler">> /\ y = <<"script">> /\ d = <<"declaration">>
  OBVIOUS
<1>2. /\ Doing("script") /\ UNCHANGED <<text, compilers, classes, made>>
      /\ Match("eof", FALSE, <<x>>, <<d, y>>)
  BY <1>1 DEF script
<1>3. /\ text \in Texts /\ ParserOK /\ Good(current) /\ compilers' = Put(current)
  BY <1>2, Begins, Here
<1>4. /\ FitsOuter(<<>>) /\ classes = <<>>
      /\ current.type = "script" /\ current.scopeDepth = 0 /\ ~Shape(current).pending
      /\ Runs(Tail(todo), End, End)
  BY <1>2, InScript
<1>5. PICK s, z, o, p : /\ s = Shape(current) /\ z = Rest(s, 0) /\ o = <<>>
                        /\ p = At(o, z, classes)
  OBVIOUS
<1>6. Fits(z, current)
  BY <1>4, <1>5 DEF Fits
<1>7. s.type = "script" /\ z.type = "script" /\ ~z.pending /\ z.scopeDepth = 0
  BY <1>4, <1>5, ShapeIs, RestIs
<1>8. /\ x[1] = "endCompiler" /\ Arguments(x) /\ y[1] = "script" /\ Arguments(y)
  BY <1>1, Simple DEF NoArguments
<1>9. Effect(x, p, End) /\ Effect(y, p, End)
  BY <1>4, <1>5, <1>7, <1>8, ScriptDoes
<1>10. IsList(<<x>>) /\ Runs(<<x>>, p, End) /\ IsList(<<y>>) /\ Runs(<<y>>, p, End)
  BY <1>8, <1>9, RunsOne
<1>11. IsList(<<d, y>>) /\ Runs(<<d, y>>, p, End)
  <2>1. Level(<<d>>, Beside)
    BY <1>1, SimpleItems, Levels
  <2>2. IsList(<<d>>) /\ Runs(<<d>>, p, p)
    BY <1>5, <1>7, <2>1, RunsBeside, ZenonT(30) DEF Level
  <2> QED
    BY <1>10, <2>2, RunsJoined, Concatenated, ZenonT(30)
<1>12. ParserOK' /\ (Do(<<x>>) \/ Do(<<d, y>>))
  BY <1>2, <1>3, Matches
<1>13. \E items : IsList(items) /\ Runs(items, p, End) /\ Do(items)
  BY <1>10, <1>11, <1>12
<1> QED
  BY <1>2, <1>3, <1>4, <1>5, <1>6, <1>12, <1>13, Proceeds

LEMMA EndCompilerKeeps ==
  ASSUME IInv, endCompiler
  PROVE  IInv'
<1>1. /\ Doing("endCompiler") /\ UNCHANGED <<text, source, parser, classes>>
      /\ made' = emitReturn(current) /\ compilers' = Front(compilers) /\ Do(<<>>)
  BY DEF endCompiler
<1>2. /\ text \in Texts /\ Good(current) /\ IsList(Tail(todo)) /\ CompilersOK
  BY <1>1, Begins
<1>3. /\ Len(compilers) = 1 /\ classes = <<>>
      /\ current.type = "script" /\ current.scopeDepth = 0 /\ ~Shape(current).pending
      /\ Runs(Tail(todo), End, End)
  BY <1>1, InScript
<1>4. PICK b, c : b = current /\ c = emitReturn(b)
  OBVIOUS
<1>5. compilers' = <<>>
  <2>1. compilers \in Seq(CompilerType)
    BY <1>2 DEF CompilersOK
  <2> QED
    BY <1>1, <1>3, <2>1 DEF Front
<1>6. Good(c) /\ Shape(c) = Shape(b) /\ c.locals = b.locals
  BY <1>2, <1>4, Returned
<1>7. c.type = "script" /\ c.scopeDepth = 0
  BY <1>3, <1>4, <1>6, ShapeIs
<1>8. Len(c.locals) = 1
  <2>1. PICK L, n : L = b.locals /\ n = Len(L)
    OBVIOUS
  <2>2. /\ Ordered(L, 0) /\ n \in Nat
    BY <1>2, <1>3, <1>4, <2>1, GoodIs, LenProperties
  <2>3. n >= 1 /\ \A i \in 2..n : L[i].depth = -1 /\ i = n
    BY <2>1, <2>2, Count DEF Ordered
  <2>4. L[n].depth # -1
    BY <1>3, <1>4, <2>1, ShapeIs
  <2>5. ~(n >= 2)
    BY <2>2, <2>3, <2>4
  <2> QED
    <3>1. n = 1
      BY <2>2, <2>3, <2>5
    <3> QED
      BY <1>6, <2>1, <3>1
<1>9. MadeOK'
  BY <1>1, <1>4, <1>6, <1>8, Count DEF MadeOK, Good
<1>10. ParserOK'
  BY <1>1, Unchanged
<1>11. CompilersOK'
  <2>1. \A S : <<>> \in Seq(S)
    OBVIOUS
  <2>2. Len(<<>>) = 0
    OBVIOUS
  <2> QED
    BY <1>5, <2>1, <2>2 DEF CompilersOK
<1>12. IsPlace(End)'
  BY <1>1, <1>3, <1>5 DEF IsPlace, End
<1>13. IsList(todo') /\ Runs(todo', End, End)
  <2>1. PICK K, e : K = Tail(todo) /\ e = End
    OBVIOUS
  <2>2. IsList(<<>>) /\ Runs(<<>>, e, e)
    BY RunsNothing
  <2>3. IsList(<<>> \o K) /\ Runs(<<>> \o K, e, e)
    BY <1>2, <1>3, <2>1, <2>2, RunsJoined
  <2> QED
    BY <1>1, <2>1, <2>3 DEF Do
<1>14. \E p : IsPlace(p)' /\ Runs(todo', p, End)
  BY <1>12, <1>13
<1>15. text' \in Texts /\ classes' \in Seq(BOOLEAN)
  BY <1>1, <1>2, Begins
<1>16. made'.type = "script" /\ made'.scopeDepth = 0 /\ Len(made'.locals) = 1
  BY <1>1, <1>4, <1>7, <1>8
<1> QED
  BY <1>9, <1>10, <1>11, <1>13, <1>14, <1>15, <1>16, PartsNext DEF Whole

LEMMA InitHolds == Init => IInv
<1> SUFFICES ASSUME Init PROVE IInv
  OBVIOUS
<1>1. /\ text \in Texts /\ source = <<>> /\ compilers = <<initCompiler("script")>>
      /\ parser = [current |-> "", previous |-> "", hadError |-> FALSE, panicMode |-> FALSE]
      /\ classes = <<>> /\ todo = <<<<"advance">>, <<"script">>>>
      /\ made = initCompiler("script")
  BY DEF Init, Nothing
<1>2. PICK c : c = initCompiler("script")
  OBVIOUS
<1>3. /\ Good(c) /\ c.type = "script" /\ c.scopeDepth = 0 /\ Len(c.locals) = 1
      /\ ~Shape(c).pending
  BY <1>2, Initial DEF FunctionTypes
<1>4. ParserOK
  <2>1. \A S : <<>> \in Seq(S)
    OBVIOUS
  <2>2. PICK f, t : f = FALSE /\ t = ""
    OBVIOUS
  <2>3. t \in Spellings /\ f \in BOOLEAN
    BY <2>2, Spelt
  <2>4. PICK q : q = [current |-> t, previous |-> t, hadError |-> f, panicMode |-> f]
    OBVIOUS
  <2>5. /\ q \in [current : Spellings, previous : Spellings, hadError : BOOLEAN,
                  panicMode : BOOLEAN]
        /\ q.panicMode => q.hadError
    BY <2>3, <2>4
  <2>6. parser = q /\ source = <<>>
    BY <1>1, <2>2, <2>4
  <2> QED
    BY <2>1, <2>5, <2>6 DEF ParserOK
<1>5. compilers \in Seq(CompilerType) /\ Len(compilers) = 1 /\ compilers[1] = c
  <2>1. PICK C : C = <<c>>
    OBVIOUS
  <2>2. c \in CompilerType
    BY <1>3 DEF Good
  <2>3. C \in Seq(CompilerType) /\ Len(C) = 1 /\ C[1] = c
    BY <2>1, <2>2
  <2>4. compilers = C
    BY <1>1, <1>2, <2>1
  <2> QED
    BY <2>3, <2>4
<1>6. CompilersOK
  BY <1>3, <1>5 DEF CompilersOK
<1>7. MadeOK
  <2>1. c \in CompilerType /\ Len(c.upvalues) <= UINT8_COUNT
    BY <1>3 DEF Good
  <2>2. Len(c.locals) <= UINT8_COUNT
    BY <1>3, Count
  <2>3. made = c
    BY <1>1, <1>2
  <2> QED
    BY <2>1, <2>2, <2>3 DEF MadeOK
<1>8. classes \in Seq(BOOLEAN)
  <2>1. \A S : <<>> \in Seq(S)
    OBVIOUS
  <2> QED
    BY <1>1, <2>1
<1>9. PICK x, y : x = <<"advance">> /\ y = <<"script">>
  OBVIOUS
<1>10. x[1] = "advance" /\ y[1] = "script" /\ Arguments(x) /\ Arguments(y)
  BY <1>9, Simple DEF NoArguments
<1>11. PICK o, s, k : o = <<>> /\ s = Shape(c) /\ k = classes
  OBVIOUS
<1>12. PICK p : p = At(o, s, k)
  OBVIOUS
<1>13. s.type = "script" /\ s.scopeDepth = 0 /\ ~s.pending
  BY <1>3, <1>11, ShapeIs
<1>14. Effect(x, p, p)
  <2>1. Active(p)
    BY <1>12, <1>13 DEF Active, At
  <2> QED
    BY <1>10, <2>1, InsideDoes DEF Inside
<1>15. Effect(y, p, End)
  <2>1. k = <<>> /\ o = <<>> /\ y[1] \in {"script", "endCompiler"}
    BY <1>1, <1>10, <1>11
  <2>2. Effect(y, At(o, s, k), End)
    BY <1>13, <2>1, ScriptDoes
  <2> QED
    BY <1>12, <2>2
<1>16. IsList(todo) /\ Runs(todo, p, End)
  BY <1>1, <1>9, <1>10, <1>14, <1>15, RunsTwo
<1>17. compilers # <<>> /\ current = c
  BY <1>5 DEF current, Last
<1>18. FitsOuter(o)
  <2>1. IsList(o) /\ Len(o) = 0
    BY <1>11, Tuples
  <2> QED
    BY <1>5, <2>1 DEF FitsOuter
<1>19. Fits(s, current)
  BY <1>11, <1>17 DEF Fits
<1>20. IsPlace(p)
  BY <1>11, <1>12, <1>17, <1>18, <1>19 DEF IsPlace
<1>21. \E q : IsPlace(q) /\ Runs(todo, q, End)
  BY <1>16, <1>20
<1> QED
  BY <1>1, <1>4, <1>6, <1>7, <1>8, <1>16, <1>17, <1>21, Parts DEF Whole

LEMMA UnwindsAtEnd == IInv => CompilerUnwinds
<1> SUFFICES ASSUME IInv, todo = <<>> PROVE compilers = <<>> /\ classes = <<>>
                                           /\ made.type = "script"
                                           /\ made.scopeDepth = 0 /\ Len(made.locals) = 1
  BY DEF CompilerUnwinds, Finished
<1>1. PICK p : IsPlace(p) /\ Runs(todo, p, End)
  BY Parts DEF Whole
<1>2. p = End
  BY <1>1, RunsNothing
<1>3. CompilersOK
  BY Parts DEF Whole
<1>4. ASSUME compilers # <<>> PROVE FALSE
  <2>1. PICK o, s : Fits(s, current) /\ p = At(o, s, classes)
    BY <1>1, <1>4 DEF IsPlace
  <2>2. s.type = "none"
    BY <1>2, <2>1 DEF At, End, NoShape
  <2>3. current.type \in FunctionTypes
    BY <1>3, <1>4, Here
  <2> QED
    BY <2>1, <2>2, <2>3, FitsIs DEF FunctionTypes
<1>5. compilers = <<>>
  BY <1>4
<1>6. At(<<>>, NoShape, classes) = At(<<>>, NoShape, <<>>)
  BY <1>1, <1>2, <1>5 DEF IsPlace, End
<1>7. classes = <<>>
  BY <1>6 DEF At
<1> QED
  BY <1>5, <1>7, Parts DEF Whole

---------------------------------------------------------------------------
(* The variable that a name stands for.                                    *)

LEMMA Upward ==
  ASSUME NEW a \in Nat, NEW b \in Nat, NEW S, a \in S,
         \A k \in a..b : k \in S /\ k < b => k + 1 \in S
  PROVE  \A k \in a..b : k \in S
<1> SUFFICES ASSUME NEW j \in a..b, j \notin S PROVE FALSE
  OBVIOUS
<1>1. PICK T : T = {k \in a..b : k \notin S}
  OBVIOUS
<1>2. T \subseteq Nat /\ j \in T
  BY <1>1
<1>3. PICK t \in T : \A u \in T : <<u, t>> \notin OpToRel(<, Nat)
  BY <1>2, WFMin, NatLessThanWellFounded
<1>4. \A u \in T : ~(u < t)
  BY <1>2, <1>3 DEF OpToRel
<1>5. t \in a..b /\ t # a /\ t \notin S
  BY <1>1, <1>3
<1>6. t - 1 \in a..b /\ t - 1 < b
  BY <1>5
<1>7. t - 1 \in S
  <2>1. ~(t - 1 \in T)
    <3>1. t \in Int
      BY <1>5
    <3>2. t - 1 < t
      BY <3>1
    <3> QED
      BY <1>4, <3>2
  <2> QED
    BY <1>1, <1>6, <2>1
<1>8. (t - 1) + 1 \in S /\ (t - 1) + 1 = t
  BY <1>5, <1>6, <1>7
<1> QED
  BY <1>5, <1>8

LEMMA Least ==
  ASSUME NEW S, S \subseteq Nat, S # {}
  PROVE  Min(S) \in S
<1>1. PICK t \in S : \A u \in S : <<u, t>> \notin OpToRel(<, Nat)
  BY WFMin, NatLessThanWellFounded
<1>2. \A u \in S : ~(u < t)
  BY <1>1 DEF OpToRel
<1>3. \A u \in S : t =< u
  <2>1. t \in Nat /\ \A u \in S : u \in Nat
    BY <1>1
  <2> QED
    BY <1>2, <2>1
<1> QED
  BY <1>1, <1>3 DEF Min

(* The last local of that name, or none.                                   *)
LEMMA ResolvedLocal ==
  ASSUME NEW c, Good(c), NEW name
  PROVE  /\ resolveLocal(c, name) \in -1..ByteMax
         /\ resolveLocal(c, name) # -1 =>
              /\ resolveLocal(c, name) + 1 \in 1..Len(c.locals)
              /\ c.locals[resolveLocal(c, name) + 1].name = name
         /\ \A j \in 1..Len(c.locals) :
              c.locals[j].name = name => j <= resolveLocal(c, name) + 1
<1>1. PICK I, n : I = {i \in 1..Len(c.locals) : c.locals[i].name = name} /\ n = Len(c.locals)
  OBVIOUS
<1>2. PICK slot : slot = resolveLocal(c, name)
  OBVIOUS
<1>3. slot = (IF I # {} THEN Max(I) ELSE 0) - 1
  BY <1>1, <1>2 DEF resolveLocal, SelectLastInSeq
<1>4. n \in Nat /\ n <= ByteMax + 1 /\ ByteMax \in Nat
  BY <1>1, GoodIs, LenProperties, Count DEF Ordered
<1>5. CASE I = {}
  <2>1. slot = -1
    BY <1>3, <1>5
  <2>2. \A j \in 1..n : c.locals[j].name # name
    BY <1>1, <1>5
  <2> QED
    BY <1>1, <1>2, <1>4, <2>1, <2>2
<1>6. CASE I # {}
  <2>1. PICK m : m = Max(I)
    OBVIOUS
  <2>2. m \in I /\ m \in 1..n /\ \A i \in I : i <= m
    BY <1>1, <1>4, <1>6, <2>1, Greatest
  <2>3. slot = m - 1 /\ slot + 1 = m
    BY <1>3, <1>6, <2>1, <2>2
  <2>4. slot \in -1..ByteMax
    BY <1>4, <2>2, <2>3
  <2>5. slot + 1 \in 1..n /\ c.locals[slot + 1].name = name
    BY <1>1, <2>2, <2>3
  <2>6. \A j \in 1..n : c.locals[j].name = name => j <= slot + 1
    BY <1>1, <2>2, <2>3
  <2> QED
    BY <1>1, <1>2, <2>4, <2>5, <2>6
<1> QED
  BY <1>5, <1>6

(* What a search leaves as it was: all but captures and upvalues.          *)
NamesOf(c) == [j \in 1..Len(c.locals) |-> c.locals[j].name]

Alikes(C) ==
  /\ C \in Seq(CompilerType) /\ Len(C) = Len(compilers)
  /\ \A i \in 1..Len(compilers) :
       /\ Good(C[i]) /\ Shape(C[i]) = Shape(compilers[i])
       /\ NamesOf(C[i]) = NamesOf(compilers[i])

LEMMA AlikesOne ==
  ASSUME NEW C, Alikes(C), NEW n \in 1..Len(compilers), NEW d, Good(d), Shape(d) = Shape(C[n]),
         NamesOf(d) = NamesOf(C[n])
  PROVE  Alikes([C EXCEPT ![n] = d])
<1>1. PICK D, l : D = [C EXCEPT ![n] = d] /\ l = Len(compilers)
  OBVIOUS
<1>2. C \in Seq(CompilerType) /\ Len(C) = l /\ d \in CompilerType /\ n \in 1..l
  BY <1>1 DEF Alikes, Good
<1>3. /\ D \in Seq(CompilerType) /\ Len(D) = l
      /\ \A i \in 1..l : D[i] = IF i = n THEN d ELSE C[i]
  BY <1>1, <1>2, ExceptSeq
<1>4. \A i \in 1..l : /\ Good(D[i]) /\ Shape(D[i]) = Shape(compilers[i])
                      /\ NamesOf(D[i]) = NamesOf(compilers[i])
  BY <1>1, <1>3 DEF Alikes
<1> QED
  BY <1>1, <1>3, <1>4 DEF Alikes

LEMMA Captured ==
  ASSUME NEW c, Good(c), NEW i \in 1..Len(c.locals)
  PROVE  /\ Good([c EXCEPT !.locals[i].isCaptured = TRUE])
         /\ Shape([c EXCEPT !.locals[i].isCaptured = TRUE]) = Shape(c)
         /\ NamesOf([c EXCEPT !.locals[i].isCaptured = TRUE]) = NamesOf(c)
<1>1. PICK d, L, n, l, t : /\ d = c.scopeDepth /\ L = c.locals /\ n = Len(L) /\ l = L[i]
                           /\ t = TRUE
  OBVIOUS
<1>2. PICK x : x = [l EXCEPT !.isCaptured = t]
  OBVIOUS
<1>3. PICK M, e : M = [L EXCEPT ![i] = x] /\ e = With(c, d, M)
  OBVIOUS
<1>4. /\ c \in CompilerType /\ L \in Seq(LocalType) /\ d \in Nat /\ n \in Nat /\ l \in LocalType
      /\ Ordered(L, d) /\ i \in 1..n
  BY <1>1, GoodIs, LenProperties
<1>5. x \in LocalType /\ x.depth = l.depth /\ x.name = l.name
  BY <1>1, <1>2, <1>4 DEF LocalType
<1>6. /\ M \in Seq(LocalType) /\ Len(M) = n
      /\ \A j \in 1..n : M[j] = IF j = i THEN x ELSE L[j]
  BY <1>1, <1>3, <1>4, <1>5, ExceptSeq
<1>7. \A j \in 1..n : M[j].depth = L[j].depth
  BY <1>1, <1>5, <1>6
<1>8. Ordered(M, d)
  <2>1. /\ n \in 1..UINT8_COUNT /\ L[1].depth = 0
        /\ \A j \in 2..n : L[j].depth \in 1..d \/ (L[j].depth = -1 /\ j = n)
        /\ \A j, k \in 1..n : j < k => L[j].depth <= L[k].depth \/ L[k].depth = -1
    BY <1>1, <1>4 DEF Ordered
  <2>2. 1 \in 1..n /\ \A j \in 2..n : j \in 1..n
    BY <1>4, <2>1, Count
  <2>3. M[1].depth = 0
    BY <1>7, <2>1, <2>2
  <2>4. \A j \in 2..n : M[j].depth \in 1..d \/ (M[j].depth = -1 /\ j = n)
    BY <1>7, <2>1, <2>2
  <2>5. \A j, k \in 1..n : j < k => M[j].depth <= M[k].depth \/ M[k].depth = -1
    BY <1>7, <2>1
  <2> QED
    BY <1>6, <2>1, <2>3, <2>4, <2>5 DEF Ordered
<1>9. /\ Good(e) /\ e.type = c.type /\ e.scopeDepth = d /\ e.locals = M
  <2>1. /\ Good(With(c, d, M)) /\ With(c, d, M).type = c.type
        /\ With(c, d, M).scopeDepth = d /\ With(c, d, M).locals = M
    BY <1>4, <1>6, <1>8, Relocated
  <2> QED
    BY <1>3, <2>1
<1>10. Shape(e) = Shape(c)
  <2>1. n \in 1..n
    BY <1>1, <1>4 DEF Ordered
  <2>2. /\ e.type = c.type /\ e.scopeDepth = c.scopeDepth /\ Len(e.locals) = Len(c.locals)
        /\ e.locals[Len(e.locals)].depth = c.locals[Len(c.locals)].depth
    BY <1>1, <1>6, <1>7, <1>9, <2>1
  <2> QED
    BY <2>2 DEF Shape
<1>11. e = [c EXCEPT !.locals[i].isCaptured = TRUE]
  <2>1. e = [c EXCEPT !.locals = M]
    BY <1>1, <1>3, <1>4 DEF With, CompilerType
  <2>2. M = [c.locals EXCEPT ![i] = [c.locals[i] EXCEPT !.isCaptured = TRUE]]
    BY <1>1, <1>2, <1>3
  <2> QED
    BY <2>1, <2>2
<1>12. NamesOf(e) = NamesOf(c)
  <2>1. \A j \in 1..n : M[j].name = L[j].name
    BY <1>1, <1>5, <1>6
  <2> QED
    BY <1>1, <1>6, <1>9, <2>1 DEF NamesOf
<1> QED
  BY <1>9, <1>10, <1>11, <1>12

LEMMA UpvalueAdded ==
  ASSUME NEW c, Good(c), Len(c.upvalues) # UINT8_COUNT, NEW i \in 0..ByteMax, NEW b \in BOOLEAN,
         NEW up, up = [index |-> i, isLocal |-> b]
  PROVE  /\ Good([c EXCEPT !.upvalues = Append(c.upvalues, up)])
         /\ Shape([c EXCEPT !.upvalues = Append(c.upvalues, up)]) = Shape(c)
         /\ NamesOf([c EXCEPT !.upvalues = Append(c.upvalues, up)]) = NamesOf(c)
<1>1. PICK U, V, n : U = c.upvalues /\ V = Append(U, up) /\ n = Len(U)
  OBVIOUS
<1>2. PICK d : d = [c EXCEPT !.upvalues = V]
  OBVIOUS
<1>3. c \in CompilerType /\ n <= UINT8_COUNT
  BY <1>1 DEF Good
<1>4. U \in Seq([index : 0..ByteMax, isLocal : BOOLEAN]) /\ n \in Nat
  BY <1>1, <1>3, Fields
<1>5. up \in [index : 0..ByteMax, isLocal : BOOLEAN]
  OBVIOUS
<1>6. V \in Seq([index : 0..ByteMax, isLocal : BOOLEAN]) /\ Len(V) = n + 1
  BY <1>1, <1>4, <1>5, AppendProperties
<1>7. Len(V) <= UINT8_COUNT
  BY <1>1, <1>3, <1>4, <1>6, Count
<1>8. /\ d \in CompilerType /\ d.type = c.type /\ d.scopeDepth = c.scopeDepth
      /\ d.locals = c.locals /\ d.upvalues = V
  BY <1>2, <1>3, <1>6 DEF CompilerType
<1>9. Good(d) /\ Shape(d) = Shape(c)
  BY <1>7, <1>8, Alike
<1>10. NamesOf(d) = NamesOf(c)
  BY <1>8 DEF NamesOf
<1> QED
  BY <1>1, <1>2, <1>9, <1>10

(* Upvalue a of compiler k, or slot a if that is the compiler where the    *)
(* search begins, leads to a slot of the compiler at level.                *)
Leads(C, a, k, level, slot) ==
  \E path : /\ path[level] = slot + 1 /\ path[k] = a + 1
            /\ \A m \in (level + 1)..k :
                 /\ path[m] \in DOMAIN C[m].upvalues
                 /\ C[m].upvalues[path[m]] = [index |-> path[m - 1] - 1, isLocal |-> m = level + 1]

LEMMA LeadsOn ==
  ASSUME NEW level \in Nat, NEW slot \in Int, NEW k \in Nat, level < k, NEW a \in Int, NEW b \in Int,
         NEW C, Leads(C, a, k - 1, level, slot),
         NEW D, \A m \in (level + 1)..(k - 1) : D[m].upvalues = C[m].upvalues,
         b + 1 \in DOMAIN D[k].upvalues,
         D[k].upvalues[b + 1] = [index |-> a, isLocal |-> k = level + 1]
  PROVE  Leads(D, b, k, level, slot)
<1>1. PICK old : /\ old[level] = slot + 1 /\ old[k - 1] = a + 1
                 /\ \A m \in (level + 1)..(k - 1) :
                      /\ old[m] \in DOMAIN C[m].upvalues
                      /\ C[m].upvalues[old[m]] = [index |-> old[m - 1] - 1,
                                                  isLocal |-> m = level + 1]
  BY DEF Leads
<1>2. PICK path : path = [m \in level..k |-> IF m = k THEN b + 1 ELSE old[m]]
  OBVIOUS
<1>3. path[k] = b + 1 /\ \A m \in level..(k - 1) : path[m] = old[m]
  BY <1>2
<1>4. path[level] = slot + 1 /\ path[k - 1] - 1 = a
  BY <1>1, <1>3
<1>5. ASSUME NEW m \in (level + 1)..k
      PROVE  /\ path[m] \in DOMAIN D[m].upvalues
             /\ D[m].upvalues[path[m]] = [index |-> path[m - 1] - 1, isLocal |-> m = level + 1]
  <2>1. CASE m = k
    BY <1>3, <1>4, <2>1
  <2>2. CASE m # k
    <3>1. m \in (level + 1)..(k - 1) /\ m \in level..(k - 1) /\ m - 1 \in level..(k - 1)
      BY <2>2
    <3>2. path[m] = old[m] /\ path[m - 1] = old[m - 1]
      BY <1>3, <3>1
    <3>3. D[m].upvalues = C[m].upvalues
      BY <3>1
    <3> QED
      BY <1>1, <3>1, <3>2, <3>3
  <2> QED
    BY <2>1, <2>2
<1> QED
  BY <1>3, <1>4, <1>5 DEF Leads

(* What the search has found, as far as it has come.                       *)
Found(f, level, slot, k) ==
  /\ f = [arg |-> f.arg, level |-> level, wrong |-> f.wrong, compilers |-> f.compilers]
  /\ f.arg \in Int /\ Alikes(f.compilers)
  /\ ~f.wrong => f.arg \in 0..ByteMax /\ Leads(f.compilers, f.arg, k, level, slot)

LEMMA StillFound ==
  ASSUME NEW level \in Nat, NEW slot \in Int, NEW k \in 1..Len(compilers), level < k,
         NEW f, Found(f, level, slot, k - 1)
  PROVE  Found(addUpvalue(f, k), level, slot, k)
<1>1. PICK c, i, b : /\ c = f.compilers[k] /\ i = f.arg % UINT8_COUNT
                     /\ b = (k = f.level + 1)
  OBVIOUS
<1>2. PICK up : up = [index |-> i, isLocal |-> b]
  OBVIOUS
<1>3. PICK I : I = {j \in 1..Len(c.upvalues) : SameUpvalue(up, c.upvalues[j])}
  OBVIOUS
<1>4. PICK old, U, t : old = (IF I # {} THEN Min(I) ELSE 0) /\ U = Append(c.upvalues, up) /\ t = TRUE
  OBVIOUS
<1>5. PICK g : g = addUpvalue(f, k)
  OBVIOUS
<1>6. g = IF old # 0 THEN [f EXCEPT !.arg = old - 1]
          ELSE IF Len(c.upvalues) = UINT8_COUNT THEN [f EXCEPT !.arg = 0, !.wrong = t]
          ELSE [f EXCEPT !.arg = Len(c.upvalues), !.compilers[k].upvalues = Append(@, up)]
  BY <1>1, <1>2, <1>3, <1>4, <1>5 DEF addUpvalue, SelectInSeq
<1>7. PICK a, w, C : a = f.arg /\ w = f.wrong /\ C = f.compilers
  OBVIOUS
<1>8. /\ f = [arg |-> a, level |-> level, wrong |-> w, compilers |-> C]
      /\ a \in Int /\ Alikes(C)
      /\ ~w => a \in 0..ByteMax /\ Leads(C, a, k - 1, level, slot)
  BY <1>7 DEF Found
<1>9. /\ Good(c) /\ Len(c.upvalues) \in Nat /\ Len(c.upvalues) <= ByteMax + 1
      /\ c.upvalues \in Seq([index : 0..ByteMax, isLocal : BOOLEAN])
      /\ DOMAIN c.upvalues = 1..Len(c.upvalues)
  BY <1>1, <1>7, <1>8, Fields, LenProperties, Count DEF Alikes, Good
<1>14. ~w => up = [index |-> a, isLocal |-> k = level + 1]
  <2>1. ~w => i = a
    BY <1>1, <1>7, <1>8, BytesFit
  <2>2. b = (k = level + 1)
    BY <1>1, <1>8
  <2> QED
    BY <1>2, <2>1, <2>2
<1>10. CASE old # 0
  <2>1. old \in I
    <3>1. I \subseteq Nat /\ I # {}
      BY <1>3, <1>4, <1>9, <1>10
    <3>2. PICK m : m = Min(I)
      OBVIOUS
    <3>3. m \in I
      BY <3>1, <3>2, Least
    <3> QED
      BY <1>4, <3>1, <3>2, <3>3
  <2>2. g = [arg |-> old - 1, level |-> level, wrong |-> w, compilers |-> C]
    BY <1>6, <1>8, <1>10
  <2>3. old \in 1..Len(c.upvalues) /\ c.upvalues[old] = up
    BY <1>3, <2>1 DEF SameUpvalue
  <2>4. PICK j : j = old - 1
    OBVIOUS
  <2>5. j \in 0..ByteMax /\ j \in Int /\ j + 1 = old
    BY <1>9, <2>3, <2>4, Count
  <2>6. ~w => Leads(C, j, k, level, slot)
    <3>1. j + 1 \in DOMAIN C[k].upvalues /\ C[k].upvalues[j + 1] = up
      BY <1>1, <1>7, <1>9, <2>3, <2>5
    <3>2. ASSUME ~w
          PROVE  Leads(C, j, k, level, slot)
      <4>1. k \in Nat /\ level < k
        OBVIOUS
      <4>2. a \in Int /\ Leads(C, a, k - 1, level, slot)
        BY <1>8, <3>2
      <4>3. C[k].upvalues[j + 1] = [index |-> a, isLocal |-> k = level + 1]
        BY <1>14, <3>1, <3>2
      <4> QED
        BY <2>5, <3>1, <4>1, <4>2, <4>3, LeadsOn
    <3> QED
      BY <3>2
  <2>7. g = [arg |-> j, level |-> level, wrong |-> w, compilers |-> C]
    BY <2>2, <2>4
  <2> QED
    BY <1>5, <1>8, <2>5, <2>6, <2>7 DEF Found
<1>11. CASE old = 0 /\ Len(c.upvalues) = UINT8_COUNT
  <2>1. g = [arg |-> 0, level |-> level, wrong |-> t, compilers |-> C]
    BY <1>6, <1>8, <1>11
  <2>2. g.wrong
    BY <1>4, <2>1
  <2> QED
    BY <1>5, <1>8, <2>1, <2>2 DEF Found
<1>12. CASE old = 0 /\ Len(c.upvalues) # UINT8_COUNT
  <2>1. PICK d : d = [c EXCEPT !.upvalues = U]
    OBVIOUS
  <2>2. i \in 0..ByteMax /\ b \in BOOLEAN
    BY <1>1, <1>7, <1>8, Count
  <2>3. Good(d) /\ Shape(d) = Shape(c) /\ NamesOf(d) = NamesOf(c)
    BY <1>2, <1>4, <1>9, <1>12, <2>1, <2>2, UpvalueAdded, ZenonT(30)
  <2>4. PICK D : D = [C EXCEPT ![k] = d]
    OBVIOUS
  <2>5. Alikes(D)
    BY <1>1, <1>7, <1>8, <2>3, <2>4, AlikesOne
  <2>6. g = [arg |-> Len(c.upvalues), level |-> level, wrong |-> w, compilers |-> D]
    <3>1. g = [f EXCEPT !.arg = Len(c.upvalues), !.compilers[k].upvalues = Append(@, up)]
      BY <1>6, <1>12
    <3>2. D = [C EXCEPT ![k] = [C[k] EXCEPT !.upvalues = Append(C[k].upvalues, up)]]
      BY <1>1, <1>4, <1>7, <2>1, <2>4
    <3>3. PICK n, h : n = Len(c.upvalues) /\ h = [f EXCEPT !.arg = n]
      OBVIOUS
    <3>4. h = [arg |-> n, level |-> level, wrong |-> w, compilers |-> C]
      BY <1>8, <3>3
    <3>5. h.compilers = C /\ f.compilers = C
      BY <1>7, <3>4
    <3>6. g = [h EXCEPT !.compilers = [h.compilers EXCEPT
                 ![k] = [h.compilers[k] EXCEPT !.upvalues = Append(f.compilers[k].upvalues, up)]]]
      BY <3>1, <3>3
    <3>7. g = [h EXCEPT !.compilers = D]
      BY <3>2, <3>5, <3>6
    <3> QED
      BY <3>3, <3>4, <3>7
  <2>7. PICK j : j = Len(c.upvalues)
    OBVIOUS
  <2>8. j \in 0..ByteMax /\ j \in Int
    BY <1>9, <1>12, <2>7, Count
  <2>9. ~w => Leads(D, j, k, level, slot)
    <3>1. d.upvalues = U
      BY <1>9, <2>1 DEF Good, CompilerType
    <3>2. D[k] = d /\ \A m \in (level + 1)..(k - 1) : D[m] = C[m]
      <4>1. C \in Seq(CompilerType) /\ k \in 1..Len(C)
        BY <1>8 DEF Alikes
      <4>2. DOMAIN C = 1..Len(C)
        BY <4>1, LenProperties
      <4> QED
        BY <2>4, <4>1, <4>2
    <3>3. up \in [index : 0..ByteMax, isLocal : BOOLEAN]
      BY <1>2, <2>2
    <3>4. Len(U) = j + 1 /\ U[j + 1] = up /\ DOMAIN U = 1..(j + 1)
      BY <1>4, <1>9, <2>7, <3>3, AppendProperties, LenProperties
    <3>5. j + 1 \in DOMAIN D[k].upvalues /\ D[k].upvalues[j + 1] = up
      BY <2>8, <3>1, <3>2, <3>4
    <3>6. \A m \in (level + 1)..(k - 1) : D[m].upvalues = C[m].upvalues
      BY <3>2
    <3>7. ASSUME ~w
          PROVE  Leads(D, j, k, level, slot)
      <4>1. k \in Nat /\ level < k
        OBVIOUS
      <4>2. a \in Int /\ Leads(C, a, k - 1, level, slot)
        BY <1>8, <3>7
      <4>3. D[k].upvalues[j + 1] = [index |-> a, isLocal |-> k = level + 1]
        BY <1>14, <3>5, <3>7
      <4> QED
        BY <2>8, <3>5, <3>6, <4>1, <4>2, <4>3, LeadsOn
    <3> QED
      BY <3>7
  <2> QED
    BY <1>5, <2>5, <2>6, <2>7, <2>8, <2>9 DEF Found
<1> QED
  BY <1>10, <1>11, <1>12

LEMMA ChainFound ==
  ASSUME NEW level \in Nat \ {0}, NEW n, n = Len(compilers), n \in Nat, level <= n,
         NEW slot \in Int, NEW base, Found(base, level, slot, level)
  PROVE  Found(resolveUpvalue(base, n), level, slot, n)
<1> DEFINE Step(f, k) == IF k = base.level THEN base ELSE addUpvalue(f[k - 1], k)
<1>1. base.level = level
  BY DEF Found
<1>2. PICK S : S = {m \in level..n : \E f : f = [k \in level..m |-> Step(f, k)]}
  OBVIOUS
<1>3. level \in S
  <2>1. PICK f : f = [k \in level..level |-> base]
    OBVIOUS
  <2>2. \A k \in level..level : k = level
    OBVIOUS
  <2>3. f = [k \in level..level |-> Step(f, k)]
    BY <1>1, <2>1, <2>2
  <2>4. level \in level..n
    OBVIOUS
  <2> QED
    BY <1>2, <2>3, <2>4
<1>4. ASSUME NEW m \in level..n, m \in S, m < n PROVE m + 1 \in S
  <2>1. PICK f : f = [k \in level..m |-> Step(f, k)]
    BY <1>2, <1>4
  <2>2. PICK x : x = addUpvalue(f[m], m + 1)
    OBVIOUS
  <2>3. PICK g : g = [k \in level..(m + 1) |-> IF k = m + 1 THEN x ELSE f[k]]
    OBVIOUS
  <2>4. ASSUME NEW k \in level..(m + 1) PROVE g[k] = Step(g, k)
    <3>1. CASE k = m + 1
      <4>1. g[k] = x /\ k # base.level
        BY <1>1, <2>3, <3>1
      <4>2. k - 1 = m /\ m \in level..(m + 1) /\ m # m + 1
        BY <3>1
      <4>3. g[k - 1] = f[m]
        BY <2>3, <4>2
      <4> QED
        BY <2>2, <3>1, <4>1, <4>3
    <3>2. CASE k # m + 1
      <4>1. k \in level..m
        BY <3>2
      <4>2. g[k] = f[k] /\ f[k] = Step(f, k)
        BY <2>1, <2>3, <3>2, <4>1
      <4>3. CASE k = base.level
        BY <4>2, <4>3
      <4>4. CASE k # base.level
        <5>1. k - 1 \in level..(m + 1) /\ k - 1 # m + 1
          BY <1>1, <4>1, <4>4
        <5>2. g[k - 1] = f[k - 1]
          BY <2>3, <5>1
        <5> QED
          BY <4>2, <4>4, <5>2
      <4> QED
        BY <4>3, <4>4
    <3> QED
      BY <3>1, <3>2
  <2>5. g = [k \in level..(m + 1) |-> Step(g, k)]
    <3>1. g = [k \in level..(m + 1) |-> g[k]]
      BY <2>3
    <3> HIDE DEF Step
    <3> QED
      BY <2>4, <3>1
  <2>6. m + 1 \in level..n
    BY <1>4
  <2> QED
    BY <1>2, <2>5, <2>6
<1>5. n \in S
  <2>1. \A k \in level..n : k \in S
    BY <1>3, <1>4, Upward
  <2>2. n \in level..n
    OBVIOUS
  <2> QED
    BY <2>1, <2>2
<1>6. PICK c : c = CHOOSE f : f = [k \in base.level..n |-> Step(f, k)]
  OBVIOUS
<1>7. c = [k \in level..n |-> Step(c, k)]
  <2>1. \E f : f = [k \in base.level..n |-> Step(f, k)]
    BY <1>1, <1>2, <1>5
  <2>2. c = [k \in base.level..n |-> Step(c, k)]
    BY <1>6, <2>1
  <2> QED
    BY <1>1, <2>2
<1>8. resolveUpvalue(base, n) = c[n]
  BY <1>6 DEF resolveUpvalue
<1>9. PICK T : T = {k \in level..n : Found(c[k], level, slot, k)}
  OBVIOUS
<1>10. level \in T
  <2>1. level \in level..n
    OBVIOUS
  <2>2. c[level] = base
    BY <1>1, <1>7, <2>1
  <2> QED
    BY <1>9, <2>1, <2>2
<1>11. ASSUME NEW k \in level..n, k \in T, k < n PROVE k + 1 \in T
  <2>1. k + 1 \in level..n /\ k + 1 # level /\ (k + 1) - 1 = k /\ k + 1 \in 1..Len(compilers)
    BY <1>11
  <2>2. PICK j : j = k + 1
    OBVIOUS
  <2>3. c[j] = addUpvalue(c[k], j)
    BY <1>1, <1>7, <2>1, <2>2
  <2>4. Found(c[k], level, slot, j - 1)
    BY <1>9, <1>11, <2>1, <2>2
  <2>5. Found(c[j], level, slot, j)
    <3>1. level < j /\ j \in 1..Len(compilers) /\ level \in Nat
      BY <1>11, <2>1, <2>2
    <3> QED
      BY <2>3, <2>4, <3>1, StillFound
  <2> QED
    BY <1>9, <2>1, <2>2, <2>5
<1>12. n \in T
  <2>1. \A k \in level..n : k \in T
    BY <1>10, <1>11, Upward
  <2>2. n \in level..n
    OBVIOUS
  <2> QED
    BY <2>1, <2>2
<1> QED
  BY <1>8, <1>9, <1>12

LEMMA NamedAlike ==
  ASSUME CompilersOK, NEW C, Alikes(C), NEW m \in 1..Len(compilers), NEW j, NEW name
  PROVE  Named(C, m, j, name) <=> Named(compilers, m, j, name)
<1>1. PICK c, d : c = compilers[m] /\ d = C[m]
  OBVIOUS
<1>2. Good(c) /\ Good(d) /\ NamesOf(d) = NamesOf(c)
  BY <1>1 DEF Alikes, CompilersOK
<1>3. Len(c.locals) \in Nat /\ Len(d.locals) \in Nat
  BY <1>2, GoodIs, LenProperties
<1>4. DOMAIN NamesOf(c) = 1..Len(c.locals) /\ DOMAIN NamesOf(d) = 1..Len(d.locals)
  BY DEF NamesOf
<1>5. Len(d.locals) = Len(c.locals)
  <2>1. 1..Len(d.locals) = 1..Len(c.locals)
    BY <1>2, <1>4
  <2> QED
    BY <1>3, <2>1
<1>6. ASSUME NEW i \in 1..Len(c.locals) PROVE d.locals[i].name = c.locals[i].name
  <2>1. NamesOf(c)[i] = c.locals[i].name /\ NamesOf(d)[i] = d.locals[i].name
    BY <1>5 DEF NamesOf
  <2> QED
    BY <1>2, <2>1
<1> QED
  BY <1>1, <1>5, <1>6 DEF Named

(* The search from the inside out finds the innermost variable.            *)
LEMMA InnermostIs ==
  ASSUME CompilersOK, NEW C, Alikes(C), NEW name,
         NEW level \in 1..Len(compilers), NEW slot,
         slot = resolveLocal(compilers[level], name), slot # -1,
         \A m \in 1..Len(compilers) : resolveLocal(compilers[m], name) # -1 => m <= level
  PROVE  slot \in 0..ByteMax /\ Innermost(C, level, slot, name)
<1>1. \A m \in 1..Len(compilers) : Good(compilers[m])
  BY DEF CompilersOK
<1>2. slot \in 0..ByteMax /\ Named(compilers, level, slot, name)
  BY <1>1, ResolvedLocal, Count DEF Named
<1>3. ASSUME NEW m \in 1..Len(compilers), NEW j \in 0..ByteMax, Named(compilers, m, j, name)
      PROVE  m < level \/ (m = level /\ j <= slot)
  <2>1. PICK found : found = resolveLocal(compilers[m], name)
    OBVIOUS
  <2>2. j + 1 \in 1..Len(compilers[m].locals) /\ compilers[m].locals[j + 1].name = name
    BY <1>3 DEF Named
  <2>3. j + 1 <= found + 1 /\ found \in -1..ByteMax
    BY <1>1, <2>1, <2>2, ResolvedLocal
  <2>4. j <= found /\ found # -1
    BY <2>3
  <2>5. m <= level
    BY <2>1, <2>4
  <2>6. m = level => found = slot
    BY <2>1
  <2> QED
    BY <2>4, <2>5, <2>6
<1>4. Len(C) = Len(compilers)
  BY DEF Alikes
<1> QED
  BY <1>2, <1>3, <1>4, NamedAlike DEF Innermost

LEMMA NoneIs ==
  ASSUME CompilersOK, NEW C, Alikes(C), NEW name,
         \A m \in 1..Len(compilers) : resolveLocal(compilers[m], name) = -1
  PROVE  \A m \in 1..Len(C), j \in 0..ByteMax : ~Named(C, m, j, name)
<1>1. Len(C) = Len(compilers) /\ \A m \in 1..Len(compilers) : Good(compilers[m])
  BY DEF Alikes, CompilersOK
<1>2. ASSUME NEW m \in 1..Len(compilers), NEW j \in 0..ByteMax, Named(compilers, m, j, name)
      PROVE  FALSE
  <2>1. j + 1 \in 1..Len(compilers[m].locals) /\ compilers[m].locals[j + 1].name = name
    BY <1>2 DEF Named
  <2>2. j + 1 <= -1 + 1
    BY <1>1, <2>1, ResolvedLocal
  <2> QED
    BY <2>2
<1> QED
  BY <1>1, <1>2, NamedAlike

LEMMA LeadsThere ==
  ASSUME NEW C, Alikes(C), NEW level \in 1..Len(compilers), NEW slot, NEW a,
         Leads(C, a, Len(compilers), level, slot)
  PROVE  LeadsTo(C, a, level, slot)
<1>1. PICK n : n = Len(C) /\ n = Len(compilers)
  BY DEF Alikes
<1>2. PICK path : /\ path[level] = slot + 1 /\ path[n] = a + 1
                  /\ \A m \in (level + 1)..n :
                       /\ path[m] \in DOMAIN C[m].upvalues
                       /\ C[m].upvalues[path[m]] = [index |-> path[m - 1] - 1,
                                                    isLocal |-> m = level + 1]
  BY <1>1 DEF Leads
<1>3. PICK P : P = {slot + 1} \cup UNION {DOMAIN c.upvalues : c \in Range(C)}
  OBVIOUS
<1>4. PICK way : way = [m \in level..n |-> path[m]]
  OBVIOUS
<1>5. n \in Nat /\ \A m \in 1..n : C[m] \in Range(C)
  <2>1. C \in Seq(CompilerType)
    BY DEF Alikes
  <2>2. n \in Nat /\ DOMAIN C = 1..n
    BY <1>1, <2>1, LenProperties
  <2> QED
    BY <2>2 DEF Range
<1>6. \A m \in level..n : path[m] \in P
  <2>1. ASSUME NEW m \in level..n PROVE path[m] \in P
    <3>1. CASE m = level
      BY <1>2, <1>3, <3>1
    <3>2. CASE m # level
      <4>1. m \in (level + 1)..n /\ m \in 1..n
        BY <1>1, <1>5, <3>2
      <4> QED
        BY <1>2, <1>3, <1>5, <4>1
    <3> QED
      BY <3>1, <3>2
  <2> QED
    BY <2>1
<1>7. way \in [level..n -> P] /\ \A m \in level..n : way[m] = path[m]
  BY <1>4, <1>6
<1>8. level \in level..n /\ n \in level..n
  BY <1>1, <1>5
<1>9. \A m \in (level + 1)..n : m \in level..n /\ m - 1 \in level..n
  BY <1>5
<1>10. /\ way[level] = slot + 1 /\ way[n] = a + 1
       /\ \A m \in (level + 1)..n :
            /\ way[m] \in DOMAIN C[m].upvalues
            /\ C[m].upvalues[way[m]] = [index |-> way[m - 1] - 1, isLocal |-> m = level + 1]
  BY <1>2, <1>7, <1>8, <1>9
<1> QED
  BY <1>1, <1>3, <1>7, <1>10 DEF LeadsTo

LEMMA Codes ==
  ASSUME NEW op, NEW n \in 0..ByteMax
  PROVE  <<Opcode(op), Byte(n)>>[1].op = op /\ <<Opcode(op), Byte(n)>>[2].n = n
<1>1. Opcode(op).op = op /\ Byte(n).n = n
  BY BytesFit DEF Opcode, Byte, Operand
<1> QED
  BY <1>1

(* The instructions that read and assign a variable are for the one that   *)
(* the name means.                                                         *)
Means(r, name) ==
  ~r.wrong => \A op \in {r.get, r.set} : Denotes(r.compilers, <<Opcode(op), Byte(r.arg)>>, name)

LEMMA Resolved ==
  ASSUME CompilersOK, compilers # <<>>, NEW name \in Spellings
  PROVE  /\ Resolve(name).get \in OpCode /\ Resolve(name).set \in OpCode
         /\ Resolve(name).arg \in Int /\ Alikes(Resolve(name).compilers)
         /\ Means(Resolve(name), name)
<1>1. PICK n, r : n = Len(compilers) /\ r = Resolve(name)
  OBVIOUS
<1>2. n \in Nat \ {0} /\ \A i \in 1..n : Good(compilers[i])
  BY <1>1, Here DEF CompilersOK
<1>3. Alikes(compilers)
  BY DEF Alikes, CompilersOK
<1>4. PICK I : I = {i \in 1..n : resolveLocal(compilers[i], name) # -1}
  OBVIOUS
<1>5. PICK level : level = IF I # {} THEN Max(I) ELSE 0
  OBVIOUS
<1>6. /\ level = 0 \/ (level \in 1..n /\ resolveLocal(compilers[level], name) # -1)
      /\ \A m \in 1..n : resolveLocal(compilers[m], name) # -1 => m <= level
  <2>1. CASE I # {}
    <3>1. PICK m : m = Max(I)
      OBVIOUS
    <3>2. I \subseteq 1..n /\ n \in Nat
      BY <1>2, <1>4
    <3>3. m \in I /\ \A i \in I : i <= m
      BY <2>1, <3>1, <3>2, Greatest
    <3> QED
      BY <1>4, <1>5, <2>1, <3>1, <3>3
  <2>2. CASE I = {}
    BY <1>4, <1>5, <2>2
  <2> QED
    BY <2>1, <2>2
<1>7. level = SelectLastInSeq(compilers, LAMBDA c : resolveLocal(c, name) # -1)
  BY <1>1, <1>4, <1>5 DEF SelectLastInSeq
<1>8. PICK c, slot : c = compilers[level] /\ slot = resolveLocal(c, name)
  OBVIOUS
<1>9. PICK own : own = (c.locals[slot + 1].depth = -1)
  OBVIOUS
<1>10. PICK d : d = [c EXCEPT !.locals[slot + 1].isCaptured = TRUE]
  OBVIOUS
<1>11. PICK D : D = [compilers EXCEPT ![level].locals[slot + 1].isCaptured = TRUE]
  OBVIOUS
<1>12. PICK base : base = [arg |-> slot, level |-> level, wrong |-> own, compilers |-> D]
  OBVIOUS
<1>13. PICK f : f = resolveUpvalue(base, n)
  OBVIOUS
<1>14. CASE level = 0
  <2>1. PICK b, v, C : b = current /\ v = Constant(name) /\ C = Put(AddConstant(b, v))
    OBVIOUS
  <2>2. /\ r.get = "GET_GLOBAL" /\ r.set = "SET_GLOBAL" /\ r.arg = NextConstant(b)
        /\ r.compilers = C /\ r.wrong = TooManyConstants(b)
    BY <1>1, <1>7, <1>14, <2>1 DEF Resolve
  <2>3. Good(b) /\ b \in CompilerType /\ b = compilers[n]
    BY <1>1, <2>1, Here DEF Good
  <2>4. v \in [name : Spellings, upvalueCount : Nat] /\ NextConstant(b) \in Int
    BY <2>1, <2>3, ConstantsAre
  <2>5. PICK e : e = AddConstant(b, v)
    OBVIOUS
  <2>6. Good(e) /\ Shape(e) = Shape(b) /\ NamesOf(e) = NamesOf(b)
    BY <2>3, <2>4, <2>5, Added DEF NamesOf
  <2>7. n \in 1..Len(compilers) /\ C = [compilers EXCEPT ![n] = e]
    BY <1>1, <1>2, <2>1, <2>5 DEF Put
  <2>8. Alikes(C)
    BY <1>3, <2>3, <2>6, <2>7, AlikesOne
  <2>9. ASSUME ~r.wrong, NEW op \in {r.get, r.set}
        PROVE  Denotes(C, <<Opcode(op), Byte(r.arg)>>, name)
    <3>1. PICK k, K, E : k = r.arg /\ K = b.constants /\ E = Append(K, v)
      OBVIOUS
    <3>2. /\ K \in Seq([name : Spellings, upvalueCount : Nat]) /\ k = Len(K)
          /\ k \in 0..ByteMax
      <4>1. K \in Seq([name : Spellings, upvalueCount : Nat]) /\ Len(K) \in Nat
        BY <2>3, <3>1, Fields
      <4>2. ~TooManyConstants(b)
        BY <2>2, <2>9
      <4> QED
        BY <2>2, <3>1, <4>1, <4>2, Count DEF TooManyConstants, NextConstant
    <3>3. e.constants = E
      BY <2>3, <2>5, <3>1 DEF AddConstant, CompilerType
    <3>4. E[k + 1] = v /\ v.name = name
      BY <2>1, <2>4, <3>1, <3>2, AppendProperties DEF Constant
    <3>5. Last(C) = e
      <4>1. Len(C) = n /\ n \in DOMAIN compilers
        <5>1. compilers \in Seq(CompilerType)
          BY DEF CompilersOK
        <5> QED
          BY <1>1, <2>7, <2>8, <5>1, LenProperties DEF Alikes
      <4>2. C[n] = e
        BY <2>7, <4>1
      <4> QED
        BY <4>1, <4>2 DEF Last
    <3>6. \A m \in 1..Len(C), j \in 0..ByteMax : ~Named(C, m, j, name)
      <4>1. \A m \in 1..Len(compilers) : resolveLocal(compilers[m], name) = -1
        BY <1>1, <1>6, <1>14
      <4> QED
        BY <2>8, <4>1, NoneIs
    <3>7. PICK bytes : bytes = <<Opcode(op), Byte(k)>>
      OBVIOUS
    <3>8. bytes[1].op = op /\ bytes[2].n = k
      BY <3>2, <3>7, Codes
    <3>9. op \notin {"GET_LOCAL", "SET_LOCAL"} /\ op \notin {"GET_UPVALUE", "SET_UPVALUE"}
      BY <2>2, <2>9
    <3>10. Denotes(C, bytes, name)
      BY <3>3, <3>4, <3>5, <3>6, <3>8, <3>9 DEF Denotes
    <3> QED
      BY <3>1, <3>7, <3>10
  <2> QED
    BY <1>1, <2>2, <2>4, <2>8, <2>9 DEF OpCode, ByteInstructions, Means
<1>15. CASE level # 0
  <2>1. Good(c) /\ level \in 1..n /\ slot # -1
    BY <1>2, <1>6, <1>8, <1>15
  <2>2. slot + 1 \in 1..Len(c.locals)
    BY <1>8, <2>1, ResolvedLocal
  <2>3. slot \in Int /\ slot \in -1..ByteMax
    BY <1>8, <2>1, ResolvedLocal
  <2>4. ASSUME NEW C, Alikes(C)
        PROVE  slot \in 0..ByteMax /\ Innermost(C, level, slot, name)
    BY <1>1, <1>6, <1>8, <2>1, <2>4, InnermostIs
  <2>5. CASE level = n
    <3>1. r.get = "GET_LOCAL" /\ r.set = "SET_LOCAL" /\ r.arg = slot /\ r.compilers = compilers
      BY <1>1, <1>7, <1>8, <1>15, <2>5 DEF Resolve
    <3>2. ASSUME NEW op \in {r.get, r.set}
          PROVE  Denotes(compilers, <<Opcode(op), Byte(slot)>>, name)
      <4>1. slot \in 0..ByteMax /\ Innermost(compilers, level, slot, name)
        BY <1>3, <2>4
      <4>2. PICK bytes : bytes = <<Opcode(op), Byte(slot)>>
        OBVIOUS
      <4>3. bytes[1].op = op /\ bytes[2].n = slot
        BY <4>1, <4>2, Codes
      <4>4. op \in {"GET_LOCAL", "SET_LOCAL"}
        BY <3>1, <3>2
      <4>5. Denotes(compilers, bytes, name)
        BY <1>1, <2>5, <4>1, <4>3, <4>4 DEF Denotes
      <4> QED
        BY <4>2, <4>5
    <3> QED
      BY <1>1, <1>3, <2>3, <3>1, <3>2 DEF OpCode, ByteInstructions, Means
  <2>6. CASE level # n
    <3>1. r.get = "GET_UPVALUE" /\ r.set = "SET_UPVALUE" /\ r.arg = f.arg
          /\ r.compilers = f.compilers /\ r.wrong = f.wrong
      BY <1>1, <1>7, <1>8, <1>9, <1>11, <1>12, <1>13, <1>15, <2>6, ZenonT(30) DEF Resolve
    <3>2. Good(d) /\ Shape(d) = Shape(c) /\ NamesOf(d) = NamesOf(c)
      BY <1>10, <2>1, <2>2, Captured
    <3>3. D = [compilers EXCEPT ![level] = d]
      BY <1>8, <1>10, <1>11
    <3>4. Alikes(D)
      BY <1>1, <1>3, <1>8, <2>1, <3>2, <3>3, AlikesOne
    <3>5. Found(base, level, slot, level)
      <4>1. slot \in 0..ByteMax
        BY <2>1, <2>3
      <4>2. Leads(D, slot, level, level, slot)
        <5>1. PICK path : path = [m \in {level} |-> slot + 1]
          OBVIOUS
        <5>2. path[level] = slot + 1 /\ \A m \in (level + 1)..level : FALSE
          BY <2>1, <5>1
        <5> QED
          BY <5>2 DEF Leads
      <4> QED
        BY <1>12, <2>3, <3>4, <4>1, <4>2 DEF Found
    <3>6. Found(f, level, slot, n)
      <4>1. level \in Nat \ {0} /\ level <= n /\ n \in Nat /\ n = Len(compilers)
        BY <1>1, <1>2, <2>1
      <4> QED
        BY <1>13, <2>3, <3>5, <4>1, ChainFound
    <3>7. /\ f.arg \in Int /\ Alikes(f.compilers)
          /\ ~f.wrong => /\ f.arg \in 0..ByteMax
                         /\ Leads(f.compilers, f.arg, n, level, slot)
      BY <3>6 DEF Found
    <3>8. ASSUME ~r.wrong, NEW op \in {r.get, r.set}
          PROVE  Denotes(r.compilers, <<Opcode(op), Byte(r.arg)>>, name)
      <4>1. PICK C, a : C = f.compilers /\ a = f.arg
        OBVIOUS
      <4>2. Alikes(C) /\ a \in 0..ByteMax /\ Leads(C, a, n, level, slot)
        BY <3>1, <3>7, <3>8, <4>1
      <4>3. slot \in 0..ByteMax /\ Innermost(C, level, slot, name)
        BY <2>4, <4>2
      <4>4. LeadsTo(C, a, level, slot)
        BY <1>1, <2>1, <4>2, LeadsThere
      <4>5. PICK bytes : bytes = <<Opcode(op), Byte(a)>>
        OBVIOUS
      <4>6. bytes[1].op = op /\ bytes[2].n = a
        BY <4>2, <4>5, Codes
      <4>7. op \in {"GET_UPVALUE", "SET_UPVALUE"} /\ op \notin {"GET_LOCAL", "SET_LOCAL"}
        BY <3>1, <3>8
      <4>8. Len(C) = n /\ level \in 1..(Len(C) - 1)
        BY <1>1, <1>2, <2>1, <2>6, <4>2 DEF Alikes
      <4>9. Denotes(C, bytes, name)
        BY <4>3, <4>4, <4>6, <4>7, <4>8 DEF Denotes
      <4> QED
        BY <3>1, <4>1, <4>5, <4>9
    <3>9. r.get \in OpCode /\ r.set \in OpCode
      BY <3>1, SMTT(30) DEF OpCode, ByteInstructions
    <3> QED
      BY <1>1, <3>1, <3>7, <3>8, <3>9, SMTT(30) DEF Means
  <2> QED
    BY <2>5, <2>6
<1> QED
  BY <1>14, <1>15

LEMMA NamedVariableKeeps ==
  ASSUME IInv, namedVariable
  PROVE  IInv'
<1>1. PICK name, r : name = todo[1][2] /\ r = Resolve(name)
  OBVIOUS
<1>2. PICK i1, i2 : i1 = EmitsArg(r.set, r.arg) /\ i2 = EmitsArg(r.get, r.arg)
  OBVIOUS
<1>3. /\ Doing("namedVariable") /\ UNCHANGED <<text, classes, made>>
      /\ compilers' = r.compilers
      /\ \/ advance(r.wrong) /\ Do(<<expression, i1>>)
         \/ Stay(r.wrong) /\ Do(<<i2>>)
  BY <1>1, <1>2 DEF namedVariable
<1>4. /\ compilers # <<>> /\ text \in Texts /\ CompilersOK /\ MadeOK /\ ParserOK
      /\ classes \in Seq(BOOLEAN) /\ IsList(Tail(todo)) /\ todo[1][1] = "namedVariable"
      /\ Arguments(todo[1])
  BY <1>3, Begins
<1>5. name \in Spellings
  BY <1>1, <1>4 DEF Arguments
<1>6. r.get \in OpCode /\ r.set \in OpCode /\ r.arg \in Int /\ Alikes(r.compilers)
  BY <1>1, <1>4, <1>5, Resolved
<1>7. PICK o, s, q : /\ FitsOuter(o) /\ Fits(s, current)
                     /\ Effect(todo[1], At(o, s, classes), q) /\ Runs(Tail(todo), q, End)
  BY <1>3, Begins
<1>8. q = At(o, s, classes)
  BY <1>4, <1>7, InsideDoes DEF Inside
<1>9. PICK n : n = Len(compilers)
  OBVIOUS
<1>10. n \in Nat \ {0} /\ current = compilers[n] /\ current.type \in FunctionTypes
  BY <1>4, <1>9, Here
<1>11. /\ compilers' \in Seq(CompilerType) /\ Len(compilers') = n
       /\ \A i \in 1..n : Good(compilers'[i]) /\ Shape(compilers'[i]) = Shape(compilers[i])
  BY <1>3, <1>6, <1>9 DEF Alikes
<1>12. CompilersOK' /\ compilers' # <<>> /\ current' = compilers'[n]
  BY <1>10, <1>11 DEF CompilersOK, current, Last
<1>13. Fits(s, current)'
  <2>1. Shape(compilers'[n]) = Shape(current)
    BY <1>10, <1>11
  <2>2. Fits(s, compilers'[n])
    BY <1>7, <2>1, FitsIs
  <2> QED
    BY <1>12, <2>2
<1>14. FitsOuter(o)'
  <2>1. IsList(o) /\ Len(o) + 1 = n /\ \A i \in 1..Len(o) : Fits(o[i], compilers[i])
    BY <1>7, <1>9 DEF FitsOuter
  <2>2. Len(o) \in Nat
    BY <2>1, TodoIs
  <2>3. \A i \in 1..Len(o) : Fits(o[i], compilers'[i])
    <3>1. ASSUME NEW i \in 1..Len(o) PROVE Fits(o[i], compilers'[i])
      <4>1. i \in 1..n
        BY <2>1, <2>2
      <4>2. Shape(compilers'[i]) = Shape(compilers[i])
        BY <1>11, <4>1
      <4>3. Fits(o[i], compilers[i])
        BY <2>1
      <4> QED
        BY <4>2, <4>3, FitsIs
    <3> QED
      BY <3>1
  <2> QED
    BY <1>11, <2>1, <2>3 DEF FitsOuter
<1>15. Ok(i1, Inside) /\ Ok(i2, Inside) /\ Ok(expression, Inside)
  BY <1>2, <1>6, Emitting, Items
<1>16. Level(<<expression, i1>>, Inside) /\ Level(<<i2>>, Inside)
  BY <1>15, Levels
<1>17. \E items : Level(items, Inside) /\ Do(items)
  BY <1>3, <1>16
<1>18. PICK items : Level(items, Inside) /\ Do(items)
  BY <1>17
<1>19. Runs(items, At(o, s, classes), q) /\ IsList(items)
  <2>1. s.type # "none"
    BY <1>7, <1>10, FitsIs DEF FunctionTypes
  <2> QED
    BY <1>8, <1>18, <2>1, RunsInside DEF Level
<1>20. ParserOK'
  BY <1>3, <1>4, Stays, Advances
<1>21. text' \in Texts /\ MadeOK' /\ classes' \in Seq(BOOLEAN) /\ classes = classes'
  BY <1>3, <1>4 DEF MadeOK
<1> QED
  BY <1>4, <1>7, <1>12, <1>13, <1>14, <1>18, <1>19, <1>20, <1>21, Continues

---------------------------------------------------------------------------
(* The invariant holds in every state.                                     *)

(* A step that changes nothing keeps it.                                   *)
LEMMA NothingKeeps ==
  ASSUME IInv, UNCHANGED vars
  PROVE  IInv'
<1>1. UNCHANGED <<text, source, parser, compilers, classes, todo, made>>
  BY DEF vars
<1>2. Whole
  BY Parts
<1>3. Whole'
  BY <1>1, <1>2 DEF Whole, CompilersOK, MadeOK, ParserOK, IsPlace, FitsOuter, current
<1> QED
  BY <1>3, PartsNext

LEMMA NextKeeps == IInv /\ [Next]_vars => IInv'
<1> SUFFICES ASSUME IInv, [Next]_vars
             PROVE  IInv'
  OBVIOUS
<1>1. CASE consume
  BY <1>1, ConsumeKeeps
<1>2. CASE emit
  BY <1>2, EmitKeeps
<1>3. CASE parsePrecedence
  BY <1>3, ParsePrecedenceKeeps
<1>4. CASE infix
  BY <1>4, InfixKeeps
<1>5. CASE constant
  BY <1>5, ConstantKeeps
<1>6. CASE namedVariable
  BY <1>6, NamedVariableKeeps
<1>7. CASE and_
  BY <1>7, AndKeeps
<1>8. CASE or_
  BY <1>8, OrKeeps
<1>9. CASE endJump
  BY <1>9, EndJumpKeeps
<1>10. CASE argumentList
  BY <1>10, ArgumentListKeeps
<1>11. CASE argument
  BY <1>11, ArgumentKeeps
<1>12. CASE dot
  BY <1>12, DotKeeps
<1>13. CASE this_
  BY <1>13, ThisKeeps
<1>14. CASE super_
  BY <1>14, SuperKeeps
<1>15. CASE superName
  BY <1>15, SuperNameKeeps
<1>16. CASE superCall
  BY <1>16, SuperCallKeeps
<1>17. CASE variableDeclaration
  BY <1>17, VariableDeclarationKeeps
<1>18. CASE defineAfter
  BY <1>18, DefineAfterKeeps
<1>19. CASE functionDeclaration
  BY <1>19, FunctionDeclarationKeeps
<1>20. CASE function
  BY <1>20, FunctionKeeps
<1>21. CASE parameterList
  BY <1>21, ParameterListKeeps
<1>22. CASE parameter
  BY <1>22, ParameterKeeps
<1>23. CASE parameterName
  BY <1>23, ParameterNameKeeps
<1>24. CASE endFunction
  BY <1>24, EndFunctionKeeps
<1>25. CASE className
  BY <1>25, ClassNameKeeps
<1>26. CASE superclass
  BY <1>26, SuperclassKeeps
<1>27. CASE inheritFrom
  BY <1>27, InheritKeeps
<1>28. CASE classBody
  BY <1>28, ClassBodyKeeps
<1>29. CASE methods
  BY <1>29, MethodsKeeps
<1>30. CASE method
  BY <1>30, MethodKeeps
<1>31. CASE endClass
  BY <1>31, EndClassKeeps
<1>32. CASE statement
  BY <1>32, StatementKeeps
<1>33. CASE declaration
  BY <1>33, DeclarationKeeps
<1>34. CASE recover
  BY <1>34, RecoverKeeps
<1>35. CASE synchronize
  BY <1>35, SynchronizeKeeps
<1>36. CASE block
  BY <1>36, BlockKeeps
<1>37. CASE scope
  BY <1>37, ScopeKeeps
<1>38. CASE then
  BY <1>38, ThenKeeps
<1>39. CASE else
  BY <1>39, ElseKeeps
<1>40. CASE return
  BY <1>40, ReturnKeeps
<1>41. CASE while
  BY <1>41, WhileKeeps
<1>42. CASE whileBody
  BY <1>42, WhileBodyKeeps
<1>43. CASE endLoop
  BY <1>43, EndLoopKeeps
<1>44. CASE forInitializer
  BY <1>44, ForInitializerKeeps
<1>45. CASE forCondition
  BY <1>45, ForConditionKeeps
<1>46. CASE forExit
  BY <1>46, ForExitKeeps
<1>47. CASE forIncrement
  BY <1>47, ForIncrementKeeps
<1>48. CASE forBody
  BY <1>48, ForBodyKeeps
<1>49. CASE firstToken
  BY <1>49, FirstTokenKeeps
<1>50. CASE script
  BY <1>50, ScriptKeeps
<1>51. CASE endCompiler
  BY <1>51, EndCompilerKeeps
<1>52. CASE returned
  BY <1>52, NothingKeeps DEF returned
<1>53. CASE UNCHANGED vars
  BY <1>53, NothingKeeps
<1> QED
  BY <1>1, <1>2, <1>3, <1>4, <1>5, <1>6, <1>7, <1>8, <1>9, <1>10, <1>11, <1>12, <1>13,
     <1>14, <1>15, <1>16, <1>17, <1>18, <1>19, <1>20, <1>21, <1>22, <1>23, <1>24, <1>25,
     <1>26, <1>27, <1>28, <1>29, <1>30, <1>31, <1>32, <1>33, <1>34, <1>35, <1>36, <1>37,
     <1>38, <1>39, <1>40, <1>41, <1>42, <1>43, <1>44, <1>45, <1>46, <1>47, <1>48, <1>49,
     <1>50, <1>51, <1>52, <1>53 DEF Next

LEMMA Invariant == Spec => []IInv
<1>1. QED
  BY InitHolds, NextKeeps, PTL DEF Spec

(* Whatever the program, and whatever goes wrong in it, the compilers hold *)
(* what their types say: no more than UINT8_COUNT locals and upvalues, in  *)
(* slots a byte can name, and instructions made of opcodes and bytes       *)
(* (Compiler and ClassCompiler of compiler.c).                             *)
THEOREM CompilerTypeCorrect == Spec => []TypeOK
<1>1. IInv => TypeOK
  BY DEF IInv
<1> QED
  BY <1>1, Invariant, PTL

(* When compile returns, every Compiler that function opened and every     *)
(* ClassCompiler that classDeclaration opened is closed again, and the     *)
(* script ends outside every block with the one local slot it began with,  *)
(* after a wrong program as after a right one: beginScope and endScope,    *)
(* initCompiler and endCompiler pair up on every path.                     *)
THEOREM Unwinds == Spec => []CompilerUnwinds
BY UnwindsAtEnd, Invariant, PTL

(* The parser follows a name only where that is what is to be done.        *)
LEMMA OnlyNamedVariable ==
  ASSUME [Next]_vars, Doing("namedVariable")
  PROVE  namedVariable \/ UNCHANGED vars
<1>1. consume => Doing("consume")
  BY DEF consume
<1>2. emit => Doing("emit")
  BY DEF emit
<1>3. parsePrecedence => Doing("parsePrecedence")
  BY DEF parsePrecedence
<1>4. infix => Doing("infix")
  BY DEF infix
<1>5. constant => Doing("constant")
  BY DEF constant
<1>6. and_ => Doing("and_")
  BY DEF and_
<1>7. or_ => Doing("or_")
  BY DEF or_
<1>8. endJump => Doing("patchJump")
  BY DEF endJump
<1>9. argumentList => Doing("argumentList")
  BY DEF argumentList
<1>10. argument => Doing("argument")
  BY DEF argument
<1>11. dot => Doing("dot")
  BY DEF dot
<1>12. this_ => Doing("this_")
  BY DEF this_
<1>13. super_ => Doing("super_")
  BY DEF super_
<1>14. superName => Doing("superName")
  BY DEF superName
<1>15. superCall => Doing("superCall")
  BY DEF superCall
<1>16. variableDeclaration => Doing("varDeclaration")
  BY DEF variableDeclaration
<1>17. defineAfter => Doing("defineVariable")
  BY DEF defineAfter
<1>18. functionDeclaration => Doing("funDeclaration")
  BY DEF functionDeclaration
<1>19. function => Doing("function")
  BY DEF function
<1>20. parameterList => Doing("parameterList")
  BY DEF parameterList
<1>21. parameter => Doing("parameter")
  BY DEF parameter
<1>22. parameterName => Doing("parameterName")
  BY DEF parameterName
<1>23. endFunction => Doing("endFunction")
  BY DEF endFunction
<1>24. className => Doing("class")
  BY DEF className
<1>25. superclass => Doing("superclass")
  BY DEF superclass
<1>26. inheritFrom => Doing("inherit")
  BY DEF inheritFrom
<1>27. classBody => Doing("classBody")
  BY DEF classBody
<1>28. methods => Doing("methods")
  BY DEF methods
<1>29. method => Doing("method")
  BY DEF method
<1>30. endClass => Doing("endClass")
  BY DEF endClass
<1>31. statement => Doing("statement")
  BY DEF statement
<1>32. declaration => Doing("declaration")
  BY DEF declaration
<1>33. recover => Doing("recover")
  BY DEF recover
<1>34. synchronize => Doing("synchronize")
  BY DEF synchronize
<1>35. block => Doing("block")
  BY DEF block
<1>36. scope => Doing("beginScope") \/ Doing("endScope")
  BY DEF scope
<1>37. then => Doing("then")
  BY DEF then
<1>38. else => Doing("else")
  BY DEF else
<1>39. return => Doing("return")
  BY DEF return
<1>40. while => Doing("while")
  BY DEF while
<1>41. whileBody => Doing("whileBody")
  BY DEF whileBody
<1>42. endLoop => Doing("endLoop")
  BY DEF endLoop
<1>43. forInitializer => Doing("forInitializer")
  BY DEF forInitializer
<1>44. forCondition => Doing("forCondition")
  BY DEF forCondition
<1>45. forExit => Doing("forExit")
  BY DEF forExit
<1>46. forIncrement => Doing("forIncrement")
  BY DEF forIncrement
<1>47. forBody => Doing("forBody")
  BY DEF forBody
<1>48. firstToken => Doing("advance")
  BY DEF firstToken
<1>49. script => Doing("script")
  BY DEF script
<1>50. endCompiler => Doing("endCompiler")
  BY DEF endCompiler
<1> QED
  BY <1>1, <1>2, <1>3, <1>4, <1>5, <1>6, <1>7, <1>8, <1>9, <1>10, <1>11, <1>12, <1>13,
     <1>14, <1>15, <1>16, <1>17, <1>18, <1>19, <1>20, <1>21, <1>22, <1>23, <1>24, <1>25,
     <1>26, <1>27, <1>28, <1>29, <1>30, <1>31, <1>32, <1>33, <1>34, <1>35, <1>36, <1>37,
     <1>38, <1>39, <1>40, <1>41, <1>42, <1>43, <1>44, <1>45, <1>46, <1>47, <1>48, <1>49,
     <1>50 DEF Next, Doing, returned

LEMMA NamesMean ==
  ASSUME IInv, namedVariable, ~parser'.hadError
  PROVE  LET item == IF todo'[1][1] = "emit" THEN todo'[1] ELSE todo'[2]
         IN  Denotes(compilers', item[2], todo[1][2])
<1>1. PICK name, r : name = todo[1][2] /\ r = Resolve(name)
  OBVIOUS
<1>2. PICK i1, i2 : i1 = EmitsArg(r.set, r.arg) /\ i2 = EmitsArg(r.get, r.arg)
  OBVIOUS
<1>3. /\ Doing("namedVariable") /\ compilers' = r.compilers
      /\ \/ advance(r.wrong) /\ Do(<<expression, i1>>)
         \/ Stay(r.wrong) /\ Do(<<i2>>)
  BY <1>1, <1>2 DEF namedVariable
<1>4. /\ compilers # <<>> /\ text \in Texts /\ CompilersOK /\ ParserOK
      /\ IsList(Tail(todo)) /\ todo[1][1] = "namedVariable" /\ Arguments(todo[1])
  BY <1>3, Begins
<1>5. Means(r, name)
  <2>1. name \in Spellings
    BY <1>1, <1>4 DEF Arguments
  <2> QED
    BY <1>1, <1>4, <2>1, Resolved
<1>6. ~r.wrong
  BY <1>3, <1>4, Stays, Advances
<1>7. \A op \in {r.get, r.set} : Denotes(compilers', <<Opcode(op), Byte(r.arg)>>, name)
  BY <1>3, <1>5, <1>6 DEF Means
<1>8. PICK K, S : K = Tail(todo) /\ S = Range(K)
  OBVIOUS
<1>9. K \in Seq(S)
  BY <1>4, <1>8 DEF IsList
<1>10. CASE Do(<<expression, i1>>)
  <2>1. PICK e : e = expression
    OBVIOUS
  <2>2. PICK L : L = <<e, i1>>
    OBVIOUS
  <2>3. todo' = L \o K
    BY <1>8, <1>10, <2>1, <2>2 DEF Do
  <2>4. L \in Seq({e, i1}) /\ Len(L) = 2 /\ L[1] = e /\ L[2] = i1
    BY <2>2
  <2>5. todo'[1] = e /\ todo'[2] = i1
    <3>1. L \in Seq({e, i1} \cup S) /\ K \in Seq({e, i1} \cup S)
      BY <1>9, <2>4
    <3>2. Len(K) \in Nat
      BY <1>9, LenProperties
    <3>3. \A i \in 1..(Len(L) + Len(K)) : (L \o K)[i] = IF i <= Len(L) THEN L[i] ELSE K[i - Len(L)]
      BY <3>1, ConcatProperties
    <3>4. ASSUME NEW i \in 1..2
          PROVE  (L \o K)[i] = L[i]
      <4>1. i \in 1..(Len(L) + Len(K)) /\ i <= Len(L)
        BY <2>4, <3>2
      <4> QED
        BY <3>3, <4>1
    <3>5. 1 \in 1..2 /\ 2 \in 1..2
      OBVIOUS
    <3> QED
      BY <2>3, <2>4, <3>4, <3>5
  <2>6. e[1] # "emit" /\ i1[2] = <<Opcode(r.set), Byte(r.arg)>>
    BY <1>2, <2>1 DEF expression, EmitsArg
  <2> QED
    BY <1>1, <1>7, <2>5, <2>6
<1>11. CASE Do(<<i2>>)
  <2>1. PICK L : L = <<i2>>
    OBVIOUS
  <2>2. todo' = L \o K
    BY <1>8, <1>11, <2>1 DEF Do
  <2>3. L \in Seq({i2}) /\ Len(L) = 1 /\ L[1] = i2
    BY <2>1
  <2>4. todo'[1] = i2
    <3>1. L \in Seq({i2} \cup S) /\ K \in Seq({i2} \cup S)
      BY <1>9, <2>3
    <3>2. Len(K) \in Nat
      BY <1>9, LenProperties
    <3>3. \A i \in 1..(Len(L) + Len(K)) : (L \o K)[i] = IF i <= Len(L) THEN L[i] ELSE K[i - Len(L)]
      BY <3>1, ConcatProperties
    <3>4. 1 \in 1..(Len(L) + Len(K))
      BY <2>3, <3>2
    <3> QED
      BY <2>2, <2>3, <3>3, <3>4
  <2>5. i2[1] = "emit" /\ i2[2] = <<Opcode(r.get), Byte(r.arg)>>
    BY <1>2 DEF EmitsArg
  <2> QED
    BY <1>1, <1>7, <2>4, <2>5
<1> QED
  BY <1>3, <1>10, <1>11

(* Every name, in every text, is compiled to an instruction that reaches   *)
(* the variable of the innermost scope that declares it, the receiver and  *)
(* the superclass included: the local in its slot, the upvalue that leads  *)
(* through one upvalue of each function in between to the slot, or the     *)
(* global if no scope has the name.  Only where a byte is too small for    *)
(* it, or a variable is read in its own initializer, is there an error     *)
(* instead.                                                                *)
THEOREM ResolvesRight == Spec => ResolvesLexically
<1>1. IInv /\ [Next]_vars =>
        [Doing("namedVariable") /\ ~parser'.hadError =>
           LET item == IF todo'[1][1] = "emit" THEN todo'[1] ELSE todo'[2]
           IN  Denotes(compilers', item[2], todo[1][2])]_vars
  BY OnlyNamedVariable, NamesMean
<1> QED
  BY <1>1, Invariant, PTL DEF Spec, ResolvesLexically
=============================================================================
