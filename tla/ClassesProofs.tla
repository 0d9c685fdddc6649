--------------------------- MODULE ClassesProofs ---------------------------
(***************************************************************************)
(* That a class has its superclass's methods is inductive with what keeps  *)
(* the copies from going stale: a class is declared after its superclass,  *)
(* whose declaration has ended, so that its table does not change again.   *)
(* From this, what slot 0 of a call holds follows value by value: whatever *)
(* is on the stack or in a field is fit to be called (Good), and each call *)
(* keeps the part of the stack that it was given (GoodFrame).              *)
(***************************************************************************)
EXTENDS Classes, SequenceTheorems, WellFoundedInduction, TLAPS

Code == [class : Nat, name : Names \cup {"none"}]

Tables ==
  /\ methods \in Seq([Names -> Code])
  /\ own \in Seq([Names -> Code]) /\ Len(own) = Len(methods)
  /\ super \in Seq(Nat) /\ Len(super) = Len(methods)
  /\ declaring \in {0, Len(methods)}

Older == \A c \in 1..Len(super) : super[c] < c

Inherited ==
  \A c \in 1..Len(methods) : \A name \in Names :
    methods[c][name] = IF own[c][name] # NoMethod THEN own[c][name]
                       ELSE FindMethod(super[c], name)

IInv == Tables /\ Older /\ Inherited

(* The abbreviations of the invariant say what the property does.          *)
LEMMA Implied == IInv => InheritsMethods
BY DEF IInv, Tables, Inherited, InheritsMethods

LEMMA NoMethodIsCode == NoMethod \in Code /\ NoMethods \in [Names -> Code]
BY DEF NoMethod, NoMethods, Method, Code

(* What a class declares is never taken for a missing method.              *)
LEMMA Declares ==
  ASSUME NEW c \in Nat \ {0}, NEW name \in Names
  PROVE  Method(c, name) \in Code /\ Method(c, name) # NoMethod
BY DEF Method, NoMethod, Code

LEMMA Base == Init => IInv
BY SMTT(30) DEF Init, IInv, Tables, Older, Inherited

(* The instructions of expressions leave the tables alone; a script that   *)
(* fails abandons the declaration of its class.                            *)
LEMMA Runs ==
  ASSUME IInv, NoClass, declaring' \in {0, declaring}
  PROVE  IInv'
BY DEF IInv, Tables, Older, Inherited, NoClass, FindMethod

LEMMA ClassStep == ASSUME IInv, class PROVE IInv'
<1> DEFINE n == Len(methods) + 1
<1>1. /\ methods' = Append(methods, NoMethods)
      /\ own' = Append(own, NoMethods)
      /\ super' = Append(super, 0)
      /\ declaring' = n
  BY DEF class
<1>2. Tables'
  BY <1>1, NoMethodIsCode DEF IInv, Tables
<1>3. Older'
  BY <1>1 DEF IInv, Tables, Older
<1>4. ASSUME NEW c \in 1..n, NEW name \in Names
      PROVE  methods'[c][name] = IF own'[c][name] # NoMethod THEN own'[c][name]
                                 ELSE FindMethod(super[c], name)'
  <2>1. CASE c = n
    BY <1>1, <2>1 DEF IInv, Tables, FindMethod, NoMethods
  <2>2. CASE c # n
    <3>1. c \in 1..Len(methods) /\ super[c] \in 0..(Len(methods) - 1)
      BY <2>2 DEF IInv, Tables, Older
    <3>2. methods'[c] = methods[c] /\ own'[c] = own[c] /\ super'[c] = super[c]
      BY <1>1, <3>1 DEF IInv, Tables
    <3>3. FindMethod(super[c], name)' = FindMethod(super[c], name)
      BY <1>1, <3>1, <3>2 DEF IInv, Tables, FindMethod
    <3> QED BY <3>1, <3>2, <3>3 DEF IInv, Inherited
  <2> QED BY <2>1, <2>2
<1> QED BY <1>1, <1>2, <1>3, <1>4 DEF IInv, Tables, Inherited

(* While a class is declared it is the last one, and no class's super.     *)
LEMMA DeclaredLast == ASSUME IInv, declaring # 0
              PROVE  /\ declaring = Len(methods) /\ Len(methods) \in Nat \ {0}
                     /\ \A c \in 1..Len(methods) : super[c] # declaring
BY DEF IInv, Tables, Older

LEMMA MethodStep ==
  ASSUME IInv, NEW m \in Names, method(m) PROVE IInv'
<1> DEFINE d == declaring
<1>1. /\ d \in Nat \ {0} /\ d \in 1..Len(methods)
      /\ methods' = [methods EXCEPT ![d][m] = Method(d, m)]
      /\ own' = [own EXCEPT ![d][m] = Method(d, m)]
      /\ super' = super /\ declaring' = declaring
  BY DeclaredLast DEF method
<1>2. Method(d, m) \in Code /\ Method(d, m) # NoMethod
  BY <1>1, Declares
<1>3. /\ methods' \in Seq([Names -> Code]) /\ Len(methods') = Len(methods)
      /\ own' \in Seq([Names -> Code]) /\ Len(own') = Len(own)
  BY <1>1, <1>2 DEF IInv, Tables
<1>4. Tables' /\ Older'
  BY <1>1, <1>3 DEF IInv, Tables, Older
<1>5. ASSUME NEW c \in 1..Len(methods), NEW name \in Names
      PROVE  methods'[c][name] = IF own'[c][name] # NoMethod THEN own'[c][name]
                                 ELSE FindMethod(super[c], name)'
  <2>1. FindMethod(super[c], name)' = FindMethod(super[c], name)
    BY <1>1, DeclaredLast DEF IInv, Tables, Older, FindMethod
  <2>2. CASE c = d /\ name = m
    BY <1>1, <1>2, <2>2 DEF IInv, Tables
  <2>3. CASE ~(c = d /\ name = m)
    <3>1. methods'[c][name] = methods[c][name] /\ own'[c][name] = own[c][name]
      BY <1>1, <2>3 DEF IInv, Tables
    <3> QED BY <2>1, <3>1 DEF IInv, Inherited
  <2> QED BY <2>2, <2>3
<1> QED BY <1>3, <1>4, <1>5 DEF IInv, Inherited

LEMMA InheritStep ==
  ASSUME IInv, NEW s \in 1..Len(methods), inherit(Class(s)) PROVE IInv'
<1> DEFINE d == declaring
           copy == tableAddAll(methods[s], methods[d])
<1>1. /\ d \in Nat \ {0} /\ d \in 1..Len(methods) /\ d = Len(methods)
      /\ super[d] = 0 /\ own[d] = NoMethods /\ s # d
      /\ methods' = [methods EXCEPT ![d] = copy]
      /\ super' = [super EXCEPT ![d] = s]
      /\ own' = own /\ declaring' = declaring
  BY DeclaredLast DEF inherit, Class
<1>2. \A name \in Names : methods[d][name] = NoMethod
  BY <1>1 DEF IInv, Inherited, NoMethods, FindMethod
<1>3. /\ copy \in [Names -> Code]
      /\ \A name \in Names : copy[name] = methods[s][name]
  BY <1>1, <1>2 DEF IInv, Tables, tableAddAll
<1>4. /\ methods' \in Seq([Names -> Code]) /\ Len(methods') = Len(methods)
      /\ super' \in Seq(Nat) /\ Len(super') = Len(super)
  BY <1>1, <1>3 DEF IInv, Tables
<1>5. Tables' /\ Older'
  BY <1>1, <1>4 DEF IInv, Tables, Older
<1>6. ASSUME NEW c \in 1..Len(methods), NEW name \in Names
      PROVE  methods'[c][name] = IF own'[c][name] # NoMethod THEN own'[c][name]
                                 ELSE FindMethod(super[c], name)'
  <2>1. CASE c = d
    BY <1>1, <1>3, <2>1 DEF IInv, Tables, FindMethod, NoMethods
  <2>2. CASE c # d
    <3>1. methods'[c] = methods[c] /\ super'[c] = super[c]
      BY <1>1, <2>2 DEF IInv, Tables
    <3>2. FindMethod(super[c], name)' = FindMethod(super[c], name)
      BY <1>1, <3>1, DeclaredLast DEF IInv, Tables, Older, FindMethod
    <3> QED BY <1>1, <3>1, <3>2 DEF IInv, Inherited
  <2> QED BY <2>1, <2>2
<1> QED BY <1>4, <1>5, <1>6 DEF IInv, Inherited

---------------------------------------------------------------------------
(* Calls run nothing of a declaration.                                     *)
LEMMA CallKeeps ==
  ASSUME NEW closure, NEW s, NEW n, call(closure, s, n)
  PROVE  declaring' \in {0, declaring}
BY DEF call, runtimeError, interpret

LEMMA CallValueKeeps ==
  ASSUME NEW callee, NEW s, NEW n, callValue(callee, s, n)
  PROVE  declaring' \in {0, declaring}
<1>1. CASE callee.kind = "bound"
  BY <1>1, CallKeeps DEF callValue
<1>2. CASE callee.kind = "closure"
  BY <1>2, CallKeeps DEF callValue
<1>3. CASE callee.kind = "class"
  BY <1>3 DEF callValue, runtimeError, interpret
<1>4. CASE callee.kind \notin {"bound", "closure", "class"}
  BY <1>4 DEF callValue, runtimeError, interpret
<1> QED BY <1>1, <1>2, <1>3, <1>4

LEMMA InvokeKeeps ==
  ASSUME NEW name, NEW n, invoke(name, n) PROVE declaring' \in {0, declaring}
BY CallValueKeeps, CallKeeps DEF invoke, invokeFromClass, runtimeError, interpret

LEMMA Step == IInv /\ [Next]_vars => IInv'
<1> SUFFICES ASSUME IInv, [Next]_vars PROVE IInv'
  OBVIOUS
<1>1. CASE class
  BY <1>1, ClassStep
<1>2. CASE \E name \in Names : method(name)
  BY <1>2, MethodStep
<1>3. ASSUME NEW c \in DOMAIN methods, inherit(Class(c)) PROVE IInv'
  BY <1>3, InheritStep DEF IInv, Tables
<1>4. CASE inherit(nil)
  BY <1>4, Runs DEF inherit, nil, runtimeError, interpret, NoClass
<1>5. CASE endClass
  BY <1>5, Runs DEF endClass
<1>6. CASE variable
  BY <1>6, Runs DEF variable, Running
<1>7. CASE pop
  BY <1>7, Runs DEF pop, Running
<1>8. CASE return
  BY <1>8, Runs DEF return, Running, interpret
<1>9. ASSUME NEW name \in Names, getProperty(name) PROVE IInv'
  BY <1>9, Runs DEF getProperty, bindMethod, Running, runtimeError, interpret
<1>10. ASSUME NEW name \in Names, setProperty(name) PROVE IInv'
  BY <1>10, Runs DEF setProperty, Running, runtimeError, interpret
<1>11. ASSUME NEW name \in Names, getSuper(name) PROVE IInv'
  BY <1>11, Runs DEF getSuper, bindMethod, Running, runtimeError, interpret
<1>12. ASSUME NEW name, NEW n, invokesName(name, n) PROVE IInv'
  BY <1>12, Runs, InvokeKeeps DEF invokesName, Running
<1>13. ASSUME NEW name, NEW n, superInvoke(name, n) PROVE IInv'
  BY <1>13, Runs, CallKeeps DEF superInvoke, invokeFromClass, Running,
                                 runtimeError, interpret
<1>14. ASSUME NEW n, callsValue(n) PROVE IInv'
  BY <1>14, Runs, CallValueKeeps DEF callsValue, Running
<1>15. CASE UNCHANGED vars
  BY <1>15, Runs DEF vars, NoClass
<1> QED BY <1>1, <1>2, <1>3, <1>4, <1>5, <1>6, <1>7, <1>8, <1>9, <1>10, <1>11,
           <1>12, <1>13, <1>14, <1>15 DEF Next

(* A class has the methods it declares and all the others of its           *)
(* superclass (vm.c, OP_INHERIT and defineMethod), however many classes    *)
(* there are and in whatever order calls, errors and declarations come.    *)
THEOREM Inherits == Spec => []InheritsMethods
<1>1. Init => IInv
  BY Base
<1>2. IInv /\ [Next]_vars => IInv'
  BY Step
<1>3. IInv => InheritsMethods
  BY Implied
<1> QED BY <1>1, <1>2, <1>3, PTL DEF Spec

---------------------------------------------------------------------------
(* The classes above a class.  Superclasses are older, so the recursion    *)
(* ends, and there is a function that satisfies it.                        *)

LEMMA Least ==
  ASSUME NEW P, P \subseteq Nat, P # {}
  PROVE  \E p \in P : \A i \in P : p <= i
<1>1. PICK p \in P : \A i \in P : <<i, p>> \notin OpToRel(<, Nat)
  BY WFMin, NatLessThanWellFounded
<1>2. \A i \in P : ~(i < p)
  BY <1>1 DEF OpToRel
<1> QED
  BY <1>2

(* The sets that contain the superclass of each of their classes, and so   *)
(* the classes above c.                                                    *)
Upward   == {S \in SUBSET (0..Len(super)) : \A d \in S : d # 0 => super[d] \in S}
Above(c) == {d \in 1..Len(super) : \A S \in Upward : c \in S => d \in S}

LEMMA AboveIs ==
  ASSUME Tables, Older, NEW c \in 0..Len(super)
  PROVE  Above(c) = IF c = 0 THEN {} ELSE {c} \cup Above(super[c])
<1>0. Len(super) \in Nat /\ \A d \in 1..Len(super) : super[d] \in 0..Len(super)
  BY DEF Tables, Older
<1>1. CASE c = 0
  <2>1. {0} \in Upward
    BY <1>0 DEF Upward
  <2> QED
    BY <1>1, <2>1 DEF Above
<1>2. CASE c # 0
  <2>1. c \in 1..Len(super) /\ super[c] \in 0..Len(super)
    BY <1>0, <1>2
  <2>2. c \in Above(c)
    BY <2>1 DEF Above
  <2>3. ASSUME NEW d \in Above(super[c]) PROVE d \in Above(c)
    BY <2>1, <2>3, <1>2 DEF Above, Upward
  <2>4. ASSUME NEW d \in Above(c), d # c PROVE d \in Above(super[c])
    <3>1. ASSUME NEW S \in Upward, super[c] \in S PROVE d \in S
      <4>1. S \cup {c} \in Upward
        BY <3>1, <2>1 DEF Upward
      <4> QED
        BY <4>1, <2>4 DEF Above
    <3> QED
      BY <3>1, <2>4 DEF Above
  <2> QED
    BY <2>2, <2>3, <2>4, <1>2
<1> QED
  BY <1>1, <1>2

LEMMA AncestryIs ==
  Tables /\ Older =>
    /\ Ancestry[0] = {}
    /\ \A c \in 1..Len(super) : Ancestry[c] = {c} \cup Ancestry[super[c]]
<1> SUFFICES ASSUME Tables, Older
             PROVE  /\ Ancestry[0] = {}
                    /\ \A c \in 1..Len(super) :
                         Ancestry[c] = {c} \cup Ancestry[super[c]]
  OBVIOUS
<1> DEFINE R(f) == f = [c \in 0..Len(super) |->
                         IF c = 0 THEN {} ELSE {c} \cup f[super[c]]]
           g    == [c \in 0..Len(super) |-> Above(c)]
<1>1. Len(super) \in Nat /\ \A c \in 1..Len(super) : super[c] \in 0..Len(super)
  BY DEF Tables, Older
<1>2. R(g)
  <2>1. \A c \in 0..Len(super) :
          g[c] = IF c = 0 THEN {} ELSE {c} \cup g[super[c]]
    BY <1>1, AboveIs
  <2> QED
    BY <2>1
<1>3. Ancestry = CHOOSE f : R(f)
  BY DEF Ancestry
<1> HIDE DEF g
<1>4. R(Ancestry)
  BY <1>2, <1>3
<1>5. \A c \in 0..Len(super) :
        Ancestry[c] = IF c = 0 THEN {} ELSE {c} \cup Ancestry[super[c]]
  BY <1>4
<1>6. ASSUME NEW c \in 1..Len(super) PROVE Ancestry[c] = {c} \cup Ancestry[super[c]]
  <2>1. c \in 0..Len(super) /\ c # 0
    BY <1>1
  <2> QED
    BY <1>5, <2>1
<1>7. Ancestry[0] = {}
  <2>1. 0 \in 0..Len(super)
    BY <1>1
  <2> QED
    BY <1>5, <2>1, Zenon
<1> QED
  BY <1>6, <1>7

(* A class's ancestors, by its superclass's.                               *)
AncestryIsOne ==
  Tables /\ Older =>
    \A c \in 1..Len(super) : Ancestry[c] = {c} \cup Ancestry[super[c]]

LEMMA AncestryIsAlways == AncestryIsOne
BY AncestryIs DEF AncestryIsOne

(* The same in the next state.                                             *)
LEMMA AncestryIsThen ==
  ASSUME Tables', Older'
  PROVE  \A c \in 1..Len(super') : Ancestry'[c] = {c} \cup Ancestry'[super'[c]]
<1>1. AncestryIsOne'
  BY AncestryIsAlways, PTL
<1> QED
  BY <1>1 DEF AncestryIsOne

(* A class is above itself; the superclass's ancestors are above it.       *)
LEMMA AncestryFacts ==
  ASSUME Tables, Older, NEW c \in 1..Len(super)
  PROVE  /\ c \in Ancestry[c]
         /\ Ancestry[super[c]] \subseteq Ancestry[c]
BY AncestryIs

(* What is above a class that is above k is above k.                       *)
LEMMA Transitive ==
  ASSUME Tables, Older, NEW k \in 1..Len(super), NEW c \in Ancestry[k]
  PROVE  Ancestry[c] \subseteq Ancestry[k] /\ c \in 1..Len(super)
<1> DEFINE Fails == {j \in 1..Len(super) :
             \E d \in Ancestry[j] : ~(Ancestry[d] \subseteq Ancestry[j] /\ d \in 1..Len(super))}
<1>1. Len(super) \in Nat /\ \A d \in 1..Len(super) : super[d] \in 0..(d - 1)
  BY DEF Tables, Older
<1>2. ASSUME Fails # {} PROVE FALSE
  <2>1. Fails \subseteq Nat
    BY <1>1
  <2>2. PICK j \in Fails : \A i \in Fails : j <= i
    BY <1>2, <2>1, Least
  <2>3. j \in 1..Len(super)
    BY <2>2
  <2>4. PICK d \in Ancestry[j] : ~(Ancestry[d] \subseteq Ancestry[j] /\ d \in 1..Len(super))
    BY <2>2
  <2>5. Ancestry[j] = {j} \cup Ancestry[super[j]] /\ Ancestry[0] = {}
    BY <2>3, AncestryIs
  <2>6. d \in Ancestry[super[j]]
    BY <2>3, <2>4, <2>5
  <2>7. super[j] \in 1..Len(super) /\ ~(j <= super[j])
    BY <2>3, <2>5, <2>6, <1>1
  <2>8. super[j] \notin Fails
    BY <2>2, <2>7
  <2>9. Ancestry[d] \subseteq Ancestry[super[j]] /\ d \in 1..Len(super)
    BY <2>6, <2>7, <2>8
  <2> QED
    BY <2>4, <2>5, <2>9
<1>3. k \notin Fails
  BY <1>2
<1> QED
  BY <1>3

(* Classes gain ancestors, when they inherit, and never lose one.          *)
LEMMA AncestryGrows ==
  ASSUME Tables, Older, Tables', Older',
         Len(super) <= Len(super'),
         \A c \in 1..Len(super) : super'[c] = super[c] \/ super[c] = 0,
         NEW k \in 1..Len(super)
  PROVE  Ancestry[k] \subseteq Ancestry'[k]
<1> DEFINE Fails == {j \in 1..Len(super) : ~(Ancestry[j] \subseteq Ancestry'[j])}
<1>1. Len(super) \in Nat /\ \A d \in 1..Len(super) : super[d] \in 0..(d - 1)
  BY SMTT(30) DEF Tables, Older
<1>2. /\ Ancestry[0] = {}
      /\ \A c \in 1..Len(super) : Ancestry[c] = {c} \cup Ancestry[super[c]]
  BY AncestryIs
<1>3. \A c \in 1..Len(super') : Ancestry'[c] = {c} \cup Ancestry'[super'[c]]
  BY AncestryIsThen
<1>4. Len(super') \in Nat
  BY DEF Tables
<1>5. ASSUME Fails # {} PROVE FALSE
  <2>1. Fails \subseteq Nat
    BY <1>1
  <2>2. PICK j \in Fails : \A i \in Fails : j <= i
    BY <1>5, <2>1, Least
  <2>3. j \in 1..Len(super) /\ j \in 1..Len(super') /\ ~(Ancestry[j] \subseteq Ancestry'[j])
    BY <2>2, <1>1, <1>4
  <2>4. super[j] # 0
    BY <1>2, <1>3, <2>3
  <2>5. super[j] \in 1..Len(super) /\ ~(j <= super[j]) /\ super'[j] = super[j]
    BY <2>3, <2>4, <1>1
  <2>6. super[j] \notin Fails
    BY <2>2, <2>5
  <2>7. Ancestry[super[j]] \subseteq Ancestry'[super'[j]]
    BY <2>5, <2>6
  <2>8. Ancestry[j] = {j} \cup Ancestry[super[j]] /\ Ancestry'[j] = {j} \cup Ancestry'[super'[j]]
    BY <1>2, <1>3, <2>3
  <2> QED
    BY <2>3, <2>7, <2>8
<1> QED
  BY <1>5

---------------------------------------------------------------------------
(* Slot 0.  Every value that is anywhere fits what may become of it: a     *)
(* bound method has a receiver whose class has the method's above it.  So  *)
(* have the methods that a class's table holds, by inheritance.            *)

MethodsOf(c) == {Method(k, name) : k \in Ancestry[c], name \in Names}

Owned ==
  \A c \in 1..Len(methods) : \A name \in Names :
    /\ methods[c][name] \in MethodsOf(c) \cup {NoMethod}
    /\ own[c][name] \in {Method(c, name), NoMethod}

Instances    == {Instance(i) : i \in 1..Len(instances)}
BoundMethods ==
  UNION {{Bound(Instance(i), m) : m \in MethodsOf(instances[i].klass)}
           : i \in 1..Len(instances)}
Good ==
  {nil, Script, Function} \cup {Class(c) : c \in 1..Len(methods)}
    \cup Instances \cup BoundMethods

ObjectType == [klass : 1..Len(methods), fields : [Names -> Good \cup {None}]]

Valued == stack \in Seq(Good) /\ instances \in Seq(ObjectType)

(* The calls lie one above the other, each with its slot 0, its arguments  *)
(* and its operands.                                                       *)
FrameType       == [closure : Closures, slots : Nat \ {0}]
LastArgument(i) == frames[i].slots + ArityOf(frames[i].closure)
Receives(v, c)  == v.kind = "instance" /\ c \in Ancestry[instances[v.id].klass]

GoodFrame(i) ==
  /\ frames[i] \in FrameType
  /\ LastArgument(i) <= Len(stack)
  /\ \A j \in 1..(i - 1) : LastArgument(j) < frames[i].slots
  /\ frames[i].closure.class # 0 =>
       Receives(stack[frames[i].slots], frames[i].closure.class)

Framed ==
  /\ frames \in Seq(FrameType) /\ frames # <<>>
  /\ \A i \in 1..Len(frames) : GoodFrame(i)
  /\ declaring # 0 => Operands = Locals

RInv == IInv /\ Owned /\ Valued /\ Framed

(* Classes and instances become more, and none changes what it is.         *)
Grows ==
  /\ Len(methods) <= Len(methods')
  /\ \A c \in 1..Len(super) : super'[c] = super[c] \/ super[c] = 0
  /\ Len(instances) <= Len(instances')
  /\ \A i \in 1..Len(instances) : instances'[i].klass = instances[i].klass

LEMMA Lengths ==
  ASSUME RInv
  PROVE  /\ Len(methods) \in Nat /\ DOMAIN methods = 1..Len(methods)
         /\ Len(super) = Len(methods) /\ Len(own) = Len(methods)
         /\ Len(instances) \in Nat /\ DOMAIN instances = 1..Len(instances)
         /\ Len(stack) \in Nat /\ Len(frames) \in Nat \ {0}
         /\ DOMAIN frames = 1..Len(frames)
         /\ declaring \in {0, Len(methods)}
         /\ Tables /\ Older
BY EmptySeq, LenProperties DEF RInv, IInv, Tables, Valued, Framed

LEMMA ValuesStayGood ==
  ASSUME RInv, IInv', Grows
  PROVE  /\ \A c \in 1..Len(methods) :
              Ancestry[c] \subseteq Ancestry'[c] /\ MethodsOf(c) \subseteq MethodsOf(c)'
         /\ Good \subseteq Good'
         /\ \A i \in 1..Len(instances), c \in Nat :
              Receives(Instance(i), c) => Receives(Instance(i), c)'
<1>1. Tables' /\ Older' /\ Len(super') = Len(methods') /\ Len(methods') \in Nat
  BY DEF IInv, Tables
<1>2. \A c \in 1..Len(methods) : Ancestry[c] \subseteq Ancestry'[c]
  BY <1>1, Lengths, AncestryGrows DEF Grows
<1>3. \A c \in 1..Len(methods) : MethodsOf(c) \subseteq MethodsOf(c)'
  BY <1>2 DEF MethodsOf
<1>4. \A i \in 1..Len(instances) :
        instances[i].klass \in 1..Len(methods) /\ instances'[i].klass = instances[i].klass
  <2>1. instances \in Seq(ObjectType)
    BY DEF RInv, Valued
  <2>2. \A i \in 1..Len(instances) : instances[i] \in ObjectType
    BY <2>1, ElementOfSeq
  <2> QED
    BY <2>2 DEF Grows, ObjectType
<1>5. \A i \in 1..Len(instances) : i \in 1..Len(instances')
  <2>1. Len(instances) <= Len(instances')
    BY DEF Grows
  <2> QED
    BY <2>1, Lengths
<1>6. Instances \subseteq Instances'
  BY <1>5 DEF Instances
<1>7. BoundMethods \subseteq BoundMethods'
  BY <1>3, <1>4, <1>5 DEF BoundMethods
<1>8. {Class(c) : c \in 1..Len(methods)} \subseteq {Class(c) : c \in 1..Len(methods)}'
  BY <1>1, Lengths DEF Grows
<1>9. Good \subseteq Good'
  BY <1>6, <1>7, <1>8 DEF Good
<1>10. \A i \in 1..Len(instances), c \in Nat :
              Receives(Instance(i), c) => Receives(Instance(i), c)'
  BY <1>2, <1>4 DEF Receives, Instance
<1> QED
  BY <1>2, <1>3, <1>9, <1>10

LEMMA GoodInstances ==
  ASSUME NEW v \in Good, v.kind = "instance"
  PROVE  v \in Instances
BY DEF Good, nil, Script, Function, Class, BoundMethods, Bound

(* A step that leaves the stack as it is, up to the last argument of call  *)
(* n, leaves the calls up to this one as they are.                         *)
LEMMA FramesStayGood ==
  ASSUME RInv, IInv', Grows, NEW n \in 1..Len(frames),
         \A i \in 1..n : frames'[i] = frames[i],
         LastArgument(n) <= Len(stack'), Len(stack') \in Nat,
         \A p \in 1..LastArgument(n) : stack'[p] = stack[p]
  PROVE  \A i \in 1..n : GoodFrame(i)'
<1>1. \A i \in 1..n : i \in 1..Len(frames) /\ GoodFrame(i)
  BY Lengths DEF RInv, Framed
<1>2. Closures \subseteq Closures' /\ FrameType \subseteq FrameType'
  <2>1. Len(methods') \in Nat /\ DOMAIN methods' = 1..Len(methods')
    BY DEF IInv, Tables
  <2>2. 1..Len(methods) \subseteq 1..Len(methods') /\ DOMAIN methods = 1..Len(methods)
    BY <2>1, Lengths DEF Grows
  <2>3. Closures \subseteq Closures'
    BY <2>1, <2>2 DEF Closures
  <2> QED
    BY <2>3 DEF FrameType
<1>3. \A i \in 1..n : LastArgument(i)' = LastArgument(i)
  BY DEF LastArgument
<1>4. \A i \in 1..Len(frames) : frames[i].slots \in Nat \ {0} /\ LastArgument(i) \in Nat
                                 /\ frames[i].slots <= LastArgument(i)
                                 /\ frames[i].closure.class \in Nat
  <2> SUFFICES ASSUME NEW i \in 1..Len(frames)
               PROVE  /\ frames[i].slots \in Nat \ {0} /\ LastArgument(i) \in Nat
                      /\ frames[i].slots <= LastArgument(i)
                      /\ frames[i].closure.class \in Nat
    OBVIOUS
  <2>1. frames[i].closure \in Closures /\ frames[i].slots \in Nat \ {0}
    BY DEF RInv, Framed, GoodFrame, FrameType
  <2>2. \A m \in Closures : m.class \in Nat /\ ArityOf(m) \in Nat
    BY Lengths, ValuesAssumption DEF Closures, Script, Function, Method, ArityOf
  <2> QED
    BY <2>1, <2>2 DEF LastArgument
<1>5. ASSUME NEW i \in 1..n PROVE LastArgument(i) <= LastArgument(n)
  <2>1. CASE i = n
    BY <2>1, <1>4
  <2>2. CASE i # n
    <3>1. i \in 1..(n - 1) /\ n \in 1..Len(frames) /\ GoodFrame(n)
      BY <2>2, <1>1, Lengths
    <3>2. LastArgument(i) < frames[n].slots
      BY <3>1 DEF GoodFrame
    <3> QED
      BY <3>1, <3>2, <1>1, <1>4
  <2> QED
    BY <2>1, <2>2
<1> SUFFICES ASSUME NEW i \in 1..n PROVE GoodFrame(i)'
  OBVIOUS
<1>6. GoodFrame(i) /\ i \in 1..Len(frames) /\ n \in 1..Len(frames)
  BY <1>1
<1>7. frames'[i] \in FrameType'
  BY <1>2, <1>6 DEF GoodFrame
<1>8. LastArgument(i)' <= Len(stack')
  BY <1>3, <1>4, <1>5, <1>6, Lengths, SMTT(30)
<1>9. ASSUME NEW j \in 1..(i - 1) PROVE LastArgument(j)' < frames'[i].slots
  <2>1. j \in 1..n
    BY Lengths
  <2> QED
    BY <2>1, <1>3, <1>6 DEF GoodFrame
<1>10. ASSUME frames[i].closure.class # 0
       PROVE  Receives(stack[frames[i].slots], frames[i].closure.class)'
  <2>1. frames[i].slots \in 1..LastArgument(n)
    BY <1>4, <1>5, <1>6
  <2>2. stack'[frames[i].slots] = stack[frames[i].slots]
    BY <2>1
  <2>3. Receives(stack[frames[i].slots], frames[i].closure.class)
    BY <1>6, <1>10 DEF GoodFrame
  <2>4. stack[frames[i].slots] \in Good
    <3>1. frames[i].slots \in 1..Len(stack)
      BY <1>4, <1>6, Lengths DEF GoodFrame
    <3> QED
      BY <3>1, ElementOfSeq DEF RInv, Valued
  <2>5. PICK o \in 1..Len(instances) : stack[frames[i].slots] = Instance(o)
    BY <2>3, <2>4, GoodInstances DEF Receives, Instances
  <2>6. PICK c : c = frames[i].closure.class
    OBVIOUS
  <2>7. Receives(Instance(o), c)'
    BY <2>3, <2>5, <2>6, <1>4, <1>6, ValuesStayGood
  <2> QED
    BY <2>2, <2>5, <2>6, <2>7
<1> QED
  BY <1>7, <1>8, <1>9, <1>10 DEF GoodFrame

LEMMA ObjectsStayGood ==
  ASSUME RInv, IInv', Grows
  PROVE  ObjectType \subseteq ObjectType' /\ Seq(Good) \subseteq Seq(Good')
         /\ Seq(ObjectType) \subseteq Seq(ObjectType')
<1>1. Good \subseteq Good'
  BY ValuesStayGood
<1>2. Len(methods') \in Nat /\ Len(methods) \in Nat /\ Len(methods) <= Len(methods')
  BY Lengths DEF IInv, Tables, Grows
<1>3. ObjectType \subseteq ObjectType'
  BY <1>1, <1>2 DEF ObjectType
<1>4. \A S, T : S \subseteq T => Seq(S) \subseteq Seq(T)
  BY SeqMonotonic
<1> QED
  BY <1>1, <1>3, <1>4

(* The call that runs: its slot 0, its operands above its last argument.   *)
Frontier == LastArgument(Len(frames))

LEMMA CodeFacts ==
  ASSUME RInv, NEW m \in Closures PROVE m.class \in Nat /\ ArityOf(m) \in Nat
BY Lengths, ValuesAssumption DEF Closures, Script, Function, Method, ArityOf

LEMMA FrameFacts ==
  ASSUME RInv
  PROVE  /\ frame = frames[Len(frames)]
         /\ frame.closure \in Closures /\ frame.slots \in Nat \ {0}
         /\ frame.slots + ArityOf(frame.closure) = Frontier
         /\ Frontier \in Nat /\ frame.slots <= Frontier /\ Frontier <= Len(stack)
         /\ Operands = Len(stack) - Frontier
         /\ this \in Good
         /\ frame.closure.class # 0 => Receives(this, frame.closure.class)
<1>1. frame = frames[Len(frames)] /\ Len(frames) \in 1..Len(frames)
  BY Lengths DEF frame, Last
<1>2. GoodFrame(Len(frames))
  BY <1>1 DEF RInv, Framed
<1>3. frame.closure \in Closures /\ frame.slots \in Nat \ {0}
  BY <1>1, <1>2 DEF GoodFrame, FrameType
<1>4. ArityOf(frame.closure) \in Nat
  BY <1>3, CodeFacts
<1>5. /\ frame.slots + ArityOf(frame.closure) = Frontier
      /\ Frontier \in Nat /\ frame.slots <= Frontier /\ Frontier <= Len(stack)
  BY <1>1, <1>2, <1>3, <1>4 DEF GoodFrame, Frontier, LastArgument
<1>6. Operands = Len(stack) - Frontier
  BY <1>3, <1>4, <1>5, Lengths DEF Operands
<1>7. this \in Good
  BY <1>3, <1>5, Lengths, ElementOfSeq DEF this, RInv, Valued
<1>8. frame.closure.class # 0 => Receives(this, frame.closure.class)
  BY <1>1, <1>2 DEF GoodFrame, this
<1> QED
  BY <1>1, <1>3, <1>5, <1>6, <1>7, <1>8

(* Instructions that change no declaration leave its tables right.         *)
LEMMA OwnedStays ==
  ASSUME RInv, IInv', Grows, NoClass PROVE Owned'
BY ValuesStayGood DEF RInv, Owned, NoClass

(* The first call of a script.                                             *)
LEMMA Begins ==
  ASSUME RInv, IInv', Owned', Grows, interpret, UNCHANGED instances PROVE RInv'
<1>1. /\ stack' = <<Script>> /\ declaring' = 0 /\ instances' = instances
      /\ frames' = <<[closure |-> Script.method, slots |-> 1]>>
  BY DEF interpret
<1>2. Valued'
  <2>1. instances' \in Seq(ObjectType')
    BY <1>1, ObjectsStayGood DEF RInv, Valued
  <2>2. stack' \in Seq(Good')
    BY <1>1 DEF Good
  <2> QED
    BY <2>1, <2>2 DEF Valued
<1>3. frames' \in Seq(FrameType') /\ frames' # <<>> /\ Len(frames') = 1
      /\ frames'[1] \in FrameType'
  BY <1>1 DEF FrameType, Closures
<1>4. GoodFrame(1)'
  <2>1. frames'[1].slots = 1 /\ frames'[1].closure.class = 0
        /\ LastArgument(1)' = 1 /\ Len(stack') = 1
    BY <1>1 DEF LastArgument, Script, Method, ArityOf
  <2>2. 1..(1 - 1) = {}
    OBVIOUS
  <2> QED
    BY <1>3, <2>1, <2>2 DEF GoodFrame
<1> QED
  BY <1>1, <1>2, <1>3, <1>4 DEF RInv, Framed

(* An instruction that works on the operands of the call that runs.        *)
LEMMA Computes ==
  ASSUME RInv, IInv', Grows, NoClass, declaring' = 0, frames' = frames,
         stack' \in Seq(Good'), instances' \in Seq(ObjectType'),
         Frontier <= Len(stack'), \A p \in 1..Frontier : stack'[p] = stack[p]
  PROVE  RInv'
<1>1. Owned' /\ Valued'
  BY OwnedStays DEF Valued
<1>2. Len(stack') \in Nat /\ Len(frames) \in 1..Len(frames)
  BY Lengths, LenProperties
<1>3. \A i \in 1..Len(frames) : GoodFrame(i)'
  BY <1>2, FramesStayGood DEF Frontier
<1>4. FrameType \subseteq FrameType'
  BY DEF NoClass, FrameType, Closures
<1>5. frames' \in Seq(FrameType') /\ frames' # <<>>
  BY <1>4, SeqMonotonic DEF RInv, Framed
<1> QED
  BY <1>1, <1>3, <1>5 DEF RInv, Framed

LEMMA CallFacts ==
  ASSUME RInv, NEW i \in 1..Len(frames)
  PROVE  /\ frames[i].closure \in Closures /\ frames[i].slots \in Nat \ {0}
         /\ LastArgument(i) \in Nat /\ frames[i].slots <= LastArgument(i)
         /\ LastArgument(i) <= Frontier
<1>1. ASSUME NEW j \in 1..Len(frames)
      PROVE  /\ frames[j].closure \in Closures /\ frames[j].slots \in Nat \ {0}
             /\ LastArgument(j) \in Nat /\ frames[j].slots <= LastArgument(j)
  <2>1. frames[j].closure \in Closures /\ frames[j].slots \in Nat \ {0}
    BY DEF RInv, Framed, GoodFrame, FrameType
  <2>2. ArityOf(frames[j].closure) \in Nat
    BY <2>1, CodeFacts
  <2> QED
    BY <2>1, <2>2 DEF LastArgument
<1>2. CASE i = Len(frames)
  BY <1>1, <1>2 DEF Frontier
<1>3. CASE i # Len(frames)
  <2>0. Len(frames) \in Nat \ {0}
    BY Lengths
  <2>1. i \in 1..(Len(frames) - 1) /\ Len(frames) \in 1..Len(frames)
    BY <1>3, <2>0
  <2>2. LastArgument(i) < frames[Len(frames)].slots
    BY <2>1 DEF RInv, Framed, GoodFrame
  <2> QED
    BY <1>1, <2>1, <2>2 DEF Frontier
<1> QED
  BY <1>2, <1>3

(* A call begins, on n arguments, with the instance below them as this if  *)
(* a method is called.                                                     *)
LEMMA Enters ==
  ASSUME RInv, IInv', Grows, NoClass, declaring' = 0,
         NEW n \in Nat, Frontier + n < Len(stack), NEW m \in Closures, ArityOf(m) = n,
         stack' \in Seq(Good'), instances' \in Seq(ObjectType'), Len(stack') = Len(stack),
         \A p \in 1..Frontier : stack'[p] = stack[p],
         frames' = Append(frames, [closure |-> m, slots |-> Len(stack) - n]),
         m.class # 0 => \E o \in 1..Len(instances') :
                          /\ stack'[Len(stack) - n] = Instance(o)
                          /\ m.class \in Ancestry'[instances'[o].klass]
  PROVE  RInv'
<1> DEFINE e == [closure |-> m, slots |-> Len(stack) - n]
           k == Len(frames) + 1
<1>1. Owned' /\ Valued'
  BY OwnedStays DEF Valued
<1>2. Len(stack) \in Nat /\ Len(frames) \in 1..Len(frames) /\ Len(frames) \in Nat \ {0}
  BY Lengths
<1>3. Closures' = Closures /\ FrameType' = FrameType
  BY DEF NoClass, FrameType, Closures
<1>4. Frontier \in Nat /\ Frontier <= Len(stack)
  BY FrameFacts
<1>5. Len(stack) - n \in Nat \ {0} /\ e \in FrameType
  BY <1>2, <1>4 DEF FrameType
<1>6. frames \in Seq(FrameType)
  BY DEF RInv, Framed
<1> HIDE DEF e
<1>7. /\ frames' \in Seq(FrameType) /\ Len(frames') = k /\ frames'[k] = e
      /\ \A i \in 1..Len(frames) : frames'[i] = frames[i]
  BY <1>5, <1>6, AppendProperties DEF e
<1>8. \A i \in 1..Len(frames) : GoodFrame(i)'
  BY <1>2, <1>4, <1>7, FramesStayGood DEF Frontier
<1>9. PICK q : q = k
  OBVIOUS
<1>10. GoodFrame(q)'
  <2>1. frames'[q] = e /\ e.closure = m /\ e.slots = Len(stack) - n
    BY <1>7, <1>9 DEF e
  <2>2. frames'[q] \in FrameType'
    BY <1>3, <1>5, <2>1
  <2>3. LastArgument(q)' <= Len(stack')
    <3>1. LastArgument(q)' = (Len(stack) - n) + n
      BY <2>1 DEF LastArgument
    <3> QED
      BY <3>1, <1>2
  <2>4. ASSUME NEW j \in 1..(q - 1) PROVE LastArgument(j)' < frames'[q].slots
    <3>1. j \in 1..Len(frames) /\ LastArgument(j)' = LastArgument(j)
      BY <1>2, <1>7, <1>9 DEF LastArgument
    <3>2. LastArgument(j) \in Nat /\ LastArgument(j) <= Frontier
      BY <3>1, CallFacts
    <3>3. LastArgument(j) < Len(stack) - n
      BY <3>2, <1>2, <1>4
    <3> QED
      BY <3>1, <3>3, <2>1
  <2>5. ASSUME m.class # 0
        PROVE  Receives(stack[frames[q].slots], frames[q].closure.class)'
    <3>1. PICK o \in 1..Len(instances') :
            /\ stack'[Len(stack) - n] = Instance(o)
            /\ m.class \in Ancestry'[instances'[o].klass]
      BY <2>5
    <3>2. stack'[frames'[q].slots] = Instance(o) /\ frames'[q].closure.class = m.class
      BY <2>1, <3>1
    <3>3. PICK c : c = m.class
      OBVIOUS
    <3>4. Receives(Instance(o), c)'
      BY <3>1, <3>3 DEF Receives, Instance
    <3> QED
      BY <3>2, <3>3, <3>4
  <2> QED
    BY <2>1, <2>2, <2>3, <2>4, <2>5 DEF GoodFrame
<1>11. \A i \in 1..Len(frames') : GoodFrame(i)'
  BY <1>2, <1>7, <1>8, <1>9, <1>10
<1>12. frames' \in Seq(FrameType') /\ frames' # <<>>
  BY <1>2, <1>3, <1>7, EmptySeq
<1> QED
  BY <1>1, <1>11, <1>12 DEF RInv, Framed

LEMMA SameGrows == ASSUME RInv, NoClass, UNCHANGED instances PROVE Grows
BY Lengths DEF Grows, NoClass

LEMMA Fails ==
  ASSUME RInv, IInv', NoClass, runtimeError PROVE RInv'
BY SameGrows, Begins, OwnedStays DEF runtimeError

(* t is s with v at position q.                                            *)
IsPut(t, s, q, v) ==
  Len(t) = Len(s) /\ \A p \in 1..Len(s) : t[p] = IF p = q THEN v ELSE s[p]

LEMMA Slot0Facts ==
  ASSUME NEW S, NEW s \in Seq(S), NEW n \in Nat, n < Len(s), NEW v \in S
  PROVE  Slot0(s, n, v) \in Seq(S) /\ IsPut(Slot0(s, n, v), s, Len(s) - n, v)
<1>1. Len(s) \in Nat
  BY LenProperties
<1>2. PICK q : q = Len(s) - n
  OBVIOUS
<1>3. q \in 1..Len(s)
  BY <1>1, <1>2
<1>4. Slot0(s, n, v) = [s EXCEPT ![q] = v]
  BY <1>2 DEF Slot0
<1>5. /\ [s EXCEPT ![q] = v] \in Seq(S) /\ Len([s EXCEPT ![q] = v]) = Len(s)
      /\ \A p \in 1..Len(s) : [s EXCEPT ![q] = v][p] = IF p = q THEN v ELSE s[p]
  BY <1>3, ExceptSeq
<1> QED
  BY <1>2, <1>4, <1>5 DEF IsPut

(* What a call of code needs of the stack s.                               *)
CanEnter(m, s, n) ==
  /\ m \in Closures
  /\ m.class # 0 => \E o \in 1..Len(instances) :
                      /\ s[Len(s) - n] = Instance(o)
                      /\ m.class \in Ancestry[instances[o].klass]

(* The stack, with other operands at most.                                 *)
OnOperands(s) ==
  /\ s \in Seq(Good) /\ Len(s) = Len(stack)
  /\ \A p \in 1..Frontier : s[p] = stack[p]

LEMMA CallStep ==
  ASSUME RInv, IInv', NoClass, declaring = 0, NEW n \in Nat, Frontier + n < Len(stack),
         NEW s, OnOperands(s), NEW m, CanEnter(m, s, n), call(m, s, n)
  PROVE  RInv'
<1>1. CASE n # ArityOf(m) \/ Len(frames) = FRAMES_MAX
  BY <1>1, Fails DEF call
<1>2. CASE ~(n # ArityOf(m) \/ Len(frames) = FRAMES_MAX)
  <2>1. /\ stack' = s /\ declaring' = 0 /\ instances' = instances
        /\ frames' = Append(frames, [closure |-> m, slots |-> Len(s) - n])
    BY <1>2 DEF call
  <2>2. Grows
    BY <2>1, SameGrows
  <2>3. stack' \in Seq(Good') /\ instances' \in Seq(ObjectType')
    BY <2>1, <2>2, ObjectsStayGood DEF RInv, Valued, OnOperands
  <2>4. Ancestry' = Ancestry
    BY DEF NoClass, Ancestry
  <2>5. m.class # 0 => \E o \in 1..Len(instances') :
                          /\ stack'[Len(stack) - n] = Instance(o)
                          /\ m.class \in Ancestry'[instances'[o].klass]
    BY <2>1, <2>4 DEF CanEnter, OnOperands
  <2> QED
    BY <1>2, <2>1, <2>2, <2>3, <2>5, Enters DEF CanEnter, OnOperands
<1> QED
  BY <1>1, <1>2

LEMMA MethodFacts ==
  ASSUME RInv, NEW c \in 1..Len(methods), NEW m \in MethodsOf(c)
  PROVE  m \in Closures /\ m.class \in Ancestry[c] /\ m.class # 0
<1>1. PICK k \in Ancestry[c], name \in Names : m = Method(k, name)
  BY DEF MethodsOf
<1>2. k \in 1..Len(methods)
  BY Lengths, Transitive
<1>3. m.class = k /\ m \in Closures
  BY <1>1, <1>2, Lengths DEF Method, Closures
<1> QED
  BY <1>2, <1>3, Lengths

LEMMA ObjectFacts ==
  ASSUME RInv, NEW i \in 1..Len(instances)
  PROVE  /\ instances[i].klass \in 1..Len(methods)
         /\ instances[i].fields \in [Names -> Good \cup {None}]
<1>1. instances[i] \in ObjectType
  BY ElementOfSeq DEF RInv, Valued
<1> QED
  BY <1>1 DEF ObjectType

(* The table of a class holds methods for its instances.                   *)
LEMMA FindMethodFacts ==
  ASSUME RInv, NEW c \in 0..Len(methods), NEW name \in Names,
         FindMethod(c, name) # NoMethod
  PROVE  c \in 1..Len(methods) /\ FindMethod(c, name) \in MethodsOf(c)
<1>1. c # 0 /\ FindMethod(c, name) = methods[c][name]
  BY DEF FindMethod
<1>2. c \in 1..Len(methods)
  BY <1>1, Lengths
<1> QED
  BY <1>1, <1>2 DEF RInv, Owned

LEMMA PutFacts ==
  ASSUME RInv, NEW n \in Nat, Frontier + n < Len(stack),
         NEW s, OnOperands(s), NEW v \in Good
  PROVE  OnOperands(Slot0(s, n, v)) /\ Slot0(s, n, v)[Len(Slot0(s, n, v)) - n] = v
<1>1. s \in Seq(Good) /\ Len(s) = Len(stack) /\ Len(s) \in Nat
  BY Lengths DEF OnOperands
<1>2. Frontier \in Nat /\ n < Len(s)
  BY <1>1, FrameFacts
<1>3. Slot0(s, n, v) \in Seq(Good) /\ IsPut(Slot0(s, n, v), s, Len(s) - n, v)
  BY <1>1, <1>2, Slot0Facts
<1>4. \A p \in 1..Frontier : p \in 1..Len(s) /\ p # Len(s) - n
  BY <1>1, <1>2
<1>5. Len(s) - n \in 1..Len(s)
  BY <1>1, <1>2
<1> QED
  BY <1>1, <1>3, <1>4, <1>5 DEF OnOperands, IsPut

(* What may be called.                                                     *)
LEMMA GoodKinds ==
  ASSUME NEW v \in Good
  PROVE  /\ v.kind = "bound" => v \in BoundMethods
         /\ v.kind = "closure" => v \in {Script, Function}
         /\ v.kind = "class" => v \in {Class(c) : c \in 1..Len(methods)}
         /\ v.kind = "instance" => v \in Instances
BY DEF Good, nil, Script, Function, Class, Instances, Instance, BoundMethods, Bound

LEMMA BoundStep ==
  ASSUME RInv, IInv', NoClass, declaring = 0, NEW n \in Nat, Frontier + n < Len(stack),
         NEW s, OnOperands(s), NEW v \in BoundMethods,
         call(v.method, Slot0(s, n, v.receiver), n)
  PROVE  RInv'
<1>0. PICK i \in 1..Len(instances) :
        v \in {Bound(Instance(i), m) : m \in MethodsOf(instances[i].klass)}
  BY DEF BoundMethods
<1>1. PICK m \in MethodsOf(instances[i].klass) : v = Bound(Instance(i), m)
  BY <1>0
<1>2. m \in Closures /\ m.class \in Ancestry[instances[i].klass]
  BY ObjectFacts, MethodFacts
<1>3. PICK r : r = Instance(i)
  OBVIOUS
<1>4. v.receiver = r /\ v.method = m /\ r \in Good
  BY <1>1, <1>3 DEF Bound, Good, Instances
<1>5. PICK t : t = Slot0(s, n, r)
  OBVIOUS
<1>6. OnOperands(t) /\ t[Len(t) - n] = r
  BY <1>4, <1>5, PutFacts
<1>7. CanEnter(m, t, n)
  BY <1>2, <1>3, <1>6 DEF CanEnter
<1>8. call(m, t, n)
  BY <1>4, <1>5
<1> QED
  BY <1>6, <1>7, <1>8, CallStep

(* The instance that the call of a class makes.                            *)
LEMMA MakesObject ==
  ASSUME RInv, IInv', NoClass, NEW c \in 1..Len(methods),
         instances' = Append(instances, [klass |-> c, fields |-> NoFields])
  PROVE  /\ Grows /\ instances' \in Seq(ObjectType')
         /\ Len(instances') = Len(instances) + 1
         /\ instances'[Len(instances) + 1].klass = c
         /\ Instance(Len(instances) + 1) \in Good'
<1> DEFINE o == [klass |-> c, fields |-> NoFields]
<1>1. Len(instances) \in Nat /\ instances \in Seq(ObjectType)
  BY Lengths DEF RInv, Valued
<1>2. o \in ObjectType
  BY DEF ObjectType, NoFields
<1> HIDE DEF o
<1>3. /\ instances' \in Seq(ObjectType) /\ Len(instances') = Len(instances) + 1
      /\ instances'[Len(instances) + 1] = o
      /\ \A i \in 1..Len(instances) : instances'[i] = instances[i]
  BY <1>1, <1>2, AppendProperties DEF o
<1>4. Grows
  BY <1>1, <1>3, Lengths DEF Grows, NoClass
<1>5. Instance(Len(instances) + 1) \in Good'
  <2>1. Len(instances) + 1 \in 1..Len(instances')
    BY <1>1, <1>3
  <2> QED
    BY <2>1 DEF Good, Instances
<1> QED
  BY <1>3, <1>4, <1>5, ObjectsStayGood DEF o

LEMMA ClassCallStep ==
  ASSUME RInv, IInv', NoClass, declaring = 0, NEW n \in Nat, Frontier + n < Len(stack),
         NEW s, OnOperands(s), NEW c \in 1..Len(methods), callValue(Class(c), s, n)
  PROVE  RInv'
<1> DEFINE m     == FindMethod(c, init)
           fails == \/ n # IF m # NoMethod THEN ArityOf(m) ELSE 0
                    \/ m # NoMethod /\ Len(frames) = FRAMES_MAX
           new   == Len(instances) + 1
           entry == [closure |-> m, slots |-> Len(s) - n]
           o     == [klass |-> c, fields |-> NoFields]
<1>1. IF fails THEN runtimeError
      ELSE /\ stack' = Slot0(s, n, Instance(new))
           /\ frames' = IF m = NoMethod THEN frames ELSE Append(frames, entry)
           /\ instances' = Append(instances, o)
           /\ declaring' = 0
  BY DEF callValue, Class
<1>2. CASE fails
  BY <1>1, <1>2, Fails
<1>3. CASE ~fails
  <2>1. /\ stack' = Slot0(s, n, Instance(new))
        /\ frames' = IF m = NoMethod THEN frames ELSE Append(frames, entry)
        /\ instances' = Append(instances, o)
        /\ declaring' = 0
    BY <1>1, <1>3
  <2>2. n = IF m # NoMethod THEN ArityOf(m) ELSE 0
    BY <1>3
  <2> HIDE DEF fails
  <2>3. /\ Grows /\ instances' \in Seq(ObjectType') /\ Len(instances') = new
        /\ instances'[new].klass = c /\ Instance(new) \in Good'
    BY <2>1, MakesObject
  <2>4. s \in Seq(Good) /\ Len(s) = Len(stack) /\ Len(s) \in Nat
    BY Lengths DEF OnOperands
  <2>5. s \in Seq(Good') /\ n < Len(s) /\ Frontier \in Nat
    BY <2>3, <2>4, ObjectsStayGood, FrameFacts
  <2>6. stack' \in Seq(Good') /\ IsPut(stack', s, Len(s) - n, Instance(new))
    BY <2>1, <2>3, <2>5, Slot0Facts
  <2>7. \A p \in 1..Frontier : p \in 1..Len(s) /\ p # Len(s) - n
    BY <2>4, <2>5
  <2>8. /\ Len(stack') = Len(stack) /\ stack'[Len(stack) - n] = Instance(new)
        /\ \A p \in 1..Frontier : stack'[p] = stack[p]
    <3>1. Len(s) - n \in 1..Len(s)
      BY <2>4, <2>5
    <3> QED
      BY <3>1, <2>4, <2>6, <2>7 DEF IsPut, OnOperands
  <2>9. CASE m = NoMethod
    <3>1. Frontier <= Len(stack') /\ frames' = frames
      BY <2>1, <2>8, <2>9, FrameFacts
    <3> QED
      BY <3>1, <2>1, <2>3, <2>6, <2>8, Computes
  <2>10. CASE m # NoMethod
    <3>1. m \in MethodsOf(c)
      BY <2>10, Lengths, FindMethodFacts, ValuesAssumption
    <3>2. m \in Closures /\ m.class \in Ancestry[c]
      BY <3>1, MethodFacts
    <3>3. Ancestry' = Ancestry
      BY DEF NoClass, Ancestry
    <3>4. new \in 1..Len(instances')
      BY <2>3, Lengths
    <3>5. \E k \in 1..Len(instances') :
            /\ stack'[Len(stack) - n] = Instance(k)
            /\ m.class \in Ancestry'[instances'[k].klass]
      BY <2>3, <2>8, <3>2, <3>3, <3>4
    <3>6. frames' = Append(frames, [closure |-> m, slots |-> Len(stack) - n]) /\ ArityOf(m) = n
      BY <2>1, <2>2, <2>4, <2>10
    <3> HIDE DEF m, new
    <3> QED
      BY <2>1, <2>3, <2>6, <2>8, <3>2, <3>5, <3>6, Enters
  <2> QED
    BY <2>9, <2>10
<1> QED
  BY <1>2, <1>3

LEMMA CallValueStep ==
  ASSUME RInv, IInv', NoClass, declaring = 0, NEW n \in Nat, Frontier + n < Len(stack),
         NEW s, OnOperands(s), NEW v \in Good, callValue(v, s, n)
  PROVE  RInv'
<1>1. CASE v.kind = "bound"
  <2>1. call(v.method, Slot0(s, n, v.receiver), n) /\ v \in BoundMethods
    BY <1>1, GoodKinds DEF callValue
  <2> QED
    BY <2>1, BoundStep
<1>2. CASE v.kind = "closure"
  <2>1. v \in {Script, Function} /\ call(v.method, s, n)
    BY <1>2, GoodKinds DEF callValue
  <2>2. v.method \in Closures /\ v.method.class = 0
    BY <2>1 DEF Closures, Script, Function, Method
  <2>3. CanEnter(v.method, s, n)
    BY <2>2 DEF CanEnter
  <2> QED
    BY <2>1, <2>3, CallStep
<1>3. CASE v.kind = "class"
  <2>1. PICK c \in 1..Len(methods) : v = Class(c)
    BY <1>3, GoodKinds
  <2> QED
    BY <2>1, ClassCallStep
<1>4. CASE v.kind \notin {"bound", "closure", "class"}
  BY <1>4, Fails DEF callValue
<1> QED
  BY <1>1, <1>2, <1>3, <1>4

(* The operand n places below the top.                                     *)
LEMMA PeekFacts ==
  ASSUME RInv, NEW n \in Nat, Operands > n
  PROVE  /\ Frontier + n < Len(stack) /\ Len(stack) - n \in 1..Len(stack)
         /\ peek(n) \in Good /\ peek(n) = stack[Len(stack) - n]
         /\ OnOperands(stack)
<1>1. Frontier + n < Len(stack) /\ Len(stack) - n \in 1..Len(stack)
  BY Lengths, FrameFacts
<1>2. stack \in Seq(Good)
  BY DEF RInv, Valued
<1> QED
  BY <1>1, <1>2, ElementOfSeq DEF peek, OnOperands

LEMMA InvokeStep ==
  ASSUME RInv, IInv', NoClass, declaring = 0,
         NEW name \in Names, NEW n \in Nat, Operands > n, invoke(name, n)
  PROVE  RInv'
<1>1. CASE peek(n).kind # "instance"
  BY <1>1, Fails DEF invoke
<1>2. CASE peek(n).kind = "instance"
  <2>1. Frontier + n < Len(stack) /\ peek(n) \in Good /\ OnOperands(stack)
    BY PeekFacts
  <2>2. PICK i \in 1..Len(instances) : peek(n) = Instance(i)
    BY <1>2, <2>1, GoodInstances DEF Instances
  <2>3. peek(n).id = i
    BY <2>2 DEF Instance
  <2>4. /\ instances[i].klass \in 1..Len(methods)
        /\ instances[i].fields[name] \in Good \cup {None}
    BY ObjectFacts
  <2>5. PICK f : f = instances[i].fields[name]
    OBVIOUS
  <2>6. CASE f # None
    <3>1. callValue(f, Slot0(stack, n, f), n) /\ f \in Good
      BY <1>2, <2>3, <2>4, <2>5, <2>6 DEF invoke
    <3>2. PICK t : t = Slot0(stack, n, f)
      OBVIOUS
    <3>3. OnOperands(t) /\ callValue(f, t, n)
      BY <2>1, <3>1, <3>2, PutFacts
    <3> QED
      BY <2>1, <3>1, <3>3, CallValueStep
  <2>7. CASE f = None
    <3>1. PICK c \in 1..Len(methods) : c = instances[i].klass
      BY <2>4
    <3>2. invokeFromClass(c, name, stack, n)
      BY <1>2, <2>3, <2>5, <2>7, <3>1 DEF invoke
    <3>3. CASE FindMethod(c, name) = NoMethod
      BY <3>2, <3>3, Fails DEF invokeFromClass
    <3>4. CASE FindMethod(c, name) # NoMethod
      <4>1. call(FindMethod(c, name), stack, n)
        BY <3>2, <3>4 DEF invokeFromClass
      <4>2. FindMethod(c, name) \in MethodsOf(c)
        BY <3>4, Lengths, FindMethodFacts
      <4>3. CanEnter(FindMethod(c, name), stack, n)
        BY <4>2, <2>2, <3>1, PeekFacts, MethodFacts DEF CanEnter
      <4> QED
        BY <4>1, <4>3, <2>1, CallStep
    <3> QED
      BY <3>3, <3>4
  <2> QED
    BY <2>6, <2>7
<1> QED
  BY <1>1, <1>2

LEMMA DropFacts ==
  ASSUME NEW S, NEW s \in Seq(S), NEW k \in 0..Len(s)
  PROVE  /\ Drop(s, k) \in Seq(S) /\ Len(Drop(s, k)) = Len(s) - k
         /\ \A p \in 1..(Len(s) - k) : Drop(s, k)[p] = s[p]
<1>1. PICK q : q = Len(s) - k
  OBVIOUS
<1>2. q \in 0..Len(s) /\ Len(s) \in Nat
  BY <1>1, LenProperties
<1>3. Drop(s, k) = SubSeq(s, 1, q)
  BY <1>1 DEF Drop
<1>4. \A p \in 1..q : s[p] \in S
  BY <1>2, ElementOfSeq
<1>5. /\ SubSeq(s, 1, q) \in Seq(S) /\ Len(SubSeq(s, 1, q)) = q
      /\ \A p \in 1..q : SubSeq(s, 1, q)[p] = s[p]
  BY <1>2, <1>4, SubSeqProperties
<1> QED
  BY <1>1, <1>3, <1>5

(* k operands give way to v.                                               *)
LEMMA Replaces ==
  ASSUME RInv, IInv', Grows, NoClass, declaring' = 0, frames' = frames,
         instances' \in Seq(ObjectType'), NEW k \in Nat, k <= Operands,
         NEW v \in Good, stack' = Push(Drop(stack, k), v)
  PROVE  RInv'
<1>1. Len(stack) \in Nat /\ Frontier \in Nat /\ Frontier <= Len(stack) - k /\ k \in 0..Len(stack)
  BY Lengths, FrameFacts
<1>2. stack \in Seq(Good)
  BY DEF RInv, Valued
<1>3. PICK t : t = Drop(stack, k)
  OBVIOUS
<1>4. t \in Seq(Good) /\ Len(t) = Len(stack) - k /\ \A p \in 1..(Len(stack) - k) : t[p] = stack[p]
  BY <1>1, <1>2, <1>3, DropFacts
<1>5. stack' = Append(t, v)
  BY <1>3 DEF Push
<1>6. /\ stack' \in Seq(Good) /\ Len(stack') = Len(t) + 1
      /\ \A p \in 1..Len(t) : stack'[p] = t[p]
  <2>1. t \in Seq(Good)
    BY <1>4
  <2>2. /\ Append(t, v) \in Seq(Good) /\ Len(Append(t, v)) = Len(t) + 1
        /\ \A p \in 1..Len(t) : Append(t, v)[p] = t[p]
    BY <2>1, AppendProperties
  <2> QED
    BY <1>5, <2>2
<1>7. Frontier <= Len(stack') /\ \A p \in 1..Frontier : stack'[p] = stack[p]
  <2>1. \A p \in 1..Frontier : p \in 1..Len(t)
    BY <1>1, <1>4
  <2>2. Frontier <= Len(stack')
    BY <1>1, <1>4, <1>6
  <2> QED
    BY <1>4, <1>6, <2>1, <2>2
<1>8. stack' \in Seq(Good')
  BY <1>6, ObjectsStayGood
<1> QED
  BY <1>7, <1>8, Computes

LEMMA SameObjects ==
  ASSUME RInv, IInv', NoClass, UNCHANGED instances
  PROVE  Grows /\ instances' \in Seq(ObjectType')
BY SameGrows, ObjectsStayGood DEF RInv, Valued

LEMMA VariableStep ==
  ASSUME RInv, IInv', variable PROVE RInv'
<1>1. /\ NoClass /\ declaring' = 0 /\ UNCHANGED <<instances, frames>>
      /\ \E v \in {nil, Function} \cup {this : m \in {frame.closure.class} \ {0}}
                \cup {Class(c) : c \in DOMAIN methods}
                \cup {Instance(i) : i \in DOMAIN instances} : stack' = Push(stack, v)
  BY DEF variable, Running
<1>2. PICK v \in Good : stack' = Push(stack, v)
  <2>1. this \in Good
    BY FrameFacts
  <2> QED
    BY <1>1, <2>1, Lengths DEF Good, Instances
<1>3. Drop(stack, 0) = stack
  <2>1. stack \in Seq(Good) /\ Len(stack) \in Nat
    BY Lengths DEF RInv, Valued
  <2>2. /\ Drop(stack, 0) \in Seq(Good) /\ Len(Drop(stack, 0)) = Len(stack)
        /\ \A p \in 1..Len(stack) : Drop(stack, 0)[p] = stack[p]
    BY <2>1, DropFacts
  <2> QED
    BY <2>1, <2>2, SeqEqual
<1>4. 0 <= Operands
  BY Lengths, FrameFacts
<1> QED
  BY <1>1, <1>2, <1>3, <1>4, SameObjects, Replaces

LEMMA PopStep ==
  ASSUME RInv, IInv', pop PROVE RInv'
<1>1. /\ NoClass /\ declaring' = 0 /\ UNCHANGED <<instances, frames>>
      /\ stack' = Drop(stack, 1) /\ Operands > 0
  BY DEF pop, Running
<1>2. stack \in Seq(Good) /\ Len(stack) \in Nat /\ 1 \in 0..Len(stack)
      /\ Frontier \in Nat /\ Frontier <= Len(stack) - 1
  BY <1>1, Lengths, FrameFacts DEF RInv, Valued
<1>3. /\ stack' \in Seq(Good) /\ Len(stack') = Len(stack) - 1
      /\ \A p \in 1..(Len(stack) - 1) : stack'[p] = stack[p]
  BY <1>1, <1>2, DropFacts
<1>4. Grows /\ instances' \in Seq(ObjectType')
  BY <1>1, SameObjects
<1>5. stack' \in Seq(Good')
  BY <1>3, <1>4, ObjectsStayGood
<1>6. Frontier <= Len(stack') /\ \A p \in 1..Frontier : stack'[p] = stack[p]
  BY <1>2, <1>3
<1> QED
  BY <1>1, <1>4, <1>5, <1>6, Computes

(* A method that the table of c holds is bound to an instance of which c   *)
(* is the class, or is above it.                                           *)
LEMMA BindStep ==
  ASSUME RInv, IInv', NoClass, declaring = 0, Operands > 0,
         NEW i \in 1..Len(instances), peek(0) = Instance(i),
         NEW c \in 0..Len(methods), c = 0 \/ c \in Ancestry[instances[i].klass],
         NEW name \in Names, bindMethod(c, name, stack)
  PROVE  RInv'
<1>1. CASE FindMethod(c, name) = NoMethod
  BY <1>1, Fails DEF bindMethod
<1>2. CASE FindMethod(c, name) # NoMethod
  <2>1. PICK m : m = FindMethod(c, name)
    OBVIOUS
  <2>2. /\ stack' = Push(Drop(stack, 1), Bound(Last(stack), m))
        /\ declaring' = 0 /\ instances' = instances /\ frames' = frames
    BY <1>2, <2>1 DEF bindMethod
  <2>3. c \in 1..Len(methods) /\ m \in MethodsOf(c)
    BY <1>2, <2>1, FindMethodFacts
  <2>4. Ancestry[c] \subseteq Ancestry[instances[i].klass]
    BY <2>3, ObjectFacts, Lengths, Transitive
  <2>5. m \in MethodsOf(instances[i].klass)
    BY <2>3, <2>4 DEF MethodsOf
  <2>6. Last(stack) = Instance(i)
    BY Lengths DEF Last, peek
  <2>7. Bound(Last(stack), m) \in Good
    BY <2>5, <2>6 DEF Good, BoundMethods
  <2>8. 1 <= Operands
    BY Lengths, FrameFacts
  <2>9. Grows /\ instances' \in Seq(ObjectType')
    BY <2>2, SameObjects
  <2> QED
    BY <2>2, <2>7, <2>8, <2>9, Replaces
<1> QED
  BY <1>1, <1>2

LEMMA GetPropertyStep ==
  ASSUME RInv, IInv', NEW name \in Names, getProperty(name) PROVE RInv'
<1>1. NoClass /\ declaring = 0 /\ Operands > 0
  BY DEF getProperty, Running
<1>2. CASE peek(0).kind # "instance"
  BY <1>1, <1>2, Fails DEF getProperty
<1>3. CASE peek(0).kind = "instance"
  <2>1. PICK i \in 1..Len(instances) : peek(0) = Instance(i)
    BY <1>1, <1>3, PeekFacts, GoodInstances DEF Instances
  <2>2. peek(0).id = i
    BY <2>1 DEF Instance
  <2>3. /\ instances[i].klass \in 1..Len(methods)
        /\ instances[i].fields[name] \in Good \cup {None}
    BY ObjectFacts
  <2>4. PICK f : f = instances[i].fields[name]
    OBVIOUS
  <2>5. CASE f # None
    <3>1. stack' = Push(Drop(stack, 1), f) /\ UNCHANGED <<declaring, instances, frames>>
      BY <1>3, <2>2, <2>4, <2>5 DEF getProperty
    <3>2. f \in Good /\ 1 <= Operands
      BY <1>1, <2>3, <2>4, <2>5, Lengths, FrameFacts
    <3> QED
      BY <1>1, <3>1, <3>2, SameObjects, Replaces
  <2>6. CASE f = None
    <3>1. PICK c \in 1..Len(methods) : c = instances[i].klass
      BY <2>3
    <3>2. bindMethod(c, name, stack)
      BY <1>3, <2>2, <2>4, <2>6, <3>1 DEF getProperty
    <3>3. c \in 0..Len(methods) /\ c \in Ancestry[instances[i].klass]
      BY <3>1, Lengths, AncestryFacts
    <3> QED
      BY <1>1, <2>1, <3>2, <3>3, BindStep
  <2> QED
    BY <2>5, <2>6
<1> QED
  BY <1>2, <1>3

LEMMA SetPropertyStep ==
  ASSUME RInv, IInv', NEW name \in Names, setProperty(name) PROVE RInv'
<1>1. NoClass /\ declaring = 0 /\ Operands > 1
  BY DEF setProperty, Running
<1>2. CASE peek(1).kind # "instance"
  BY <1>1, <1>2, Fails DEF setProperty
<1>3. CASE peek(1).kind = "instance"
  <2>1. PICK i \in 1..Len(instances) : peek(1) = Instance(i)
    BY <1>1, <1>3, PeekFacts, GoodInstances DEF Instances
  <2>2. peek(1).id = i
    BY <2>1 DEF Instance
  <2>3. Operands > 0 /\ 2 <= Operands
    BY <1>1, Lengths, FrameFacts
  <2>4. PICK v \in Good : v = peek(0)
    BY <2>3, PeekFacts
  <2>5. /\ instances' = [instances EXCEPT ![i].fields[name] = v]
        /\ stack' = Push(Drop(stack, 2), v) /\ declaring' = 0 /\ frames' = frames
    BY <1>1, <1>3, <2>2, <2>4 DEF setProperty
  <2>6. PICK o : o = [instances[i] EXCEPT !.fields[name] = v]
    OBVIOUS
  <2>7. instances \in Seq(ObjectType) /\ instances[i] \in ObjectType
    BY ElementOfSeq DEF RInv, Valued
  <2>8. o \in ObjectType /\ o.klass = instances[i].klass
    BY <2>6, <2>7 DEF ObjectType
  <2>9. instances' = [instances EXCEPT ![i] = o]
    BY <2>5, <2>6
  <2>10. /\ instances' \in Seq(ObjectType) /\ Len(instances') = Len(instances)
         /\ \A j \in 1..Len(instances) : instances'[j] = IF j = i THEN o ELSE instances[j]
    BY <2>7, <2>8, <2>9, ExceptSeq
  <2>11. Grows
    BY <1>1, <2>8, <2>10, Lengths DEF Grows, NoClass
  <2>12. instances' \in Seq(ObjectType')
    BY <2>10, <2>11, ObjectsStayGood
  <2> QED
    BY <1>1, <2>3, <2>5, <2>11, <2>12, Replaces
<1> QED
  BY <1>2, <1>3

(* In a method of a subclass the superclass is above the class of this.    *)
LEMMA SuperFacts ==
  ASSUME RInv, InSubclass
  PROVE  /\ super[frame.closure.class] \in 1..Len(methods)
         /\ \E i \in 1..Len(instances) :
              /\ this = Instance(i)
              /\ super[frame.closure.class] \in Ancestry[instances[i].klass]
<1>1. PICK c : c = frame.closure.class
  OBVIOUS
<1>2. c # 0 /\ super[c] # 0 /\ this \in Good /\ Receives(this, c)
  BY <1>1, FrameFacts DEF InSubclass
<1>3. PICK i \in 1..Len(instances) : this = Instance(i)
  BY <1>2, GoodInstances DEF Instances, Receives
<1>4. c \in Ancestry[instances[i].klass]
  BY <1>2, <1>3 DEF Receives, Instance
<1>5. /\ Ancestry[c] \subseteq Ancestry[instances[i].klass]
      /\ c \in 1..Len(super)
  BY <1>4, ObjectFacts, Lengths, Transitive
<1>6. super[c] \in 1..Len(super)
  BY <1>2, <1>5, Lengths DEF Tables, Older
<1>7. super[c] \in Ancestry[c]
  BY <1>5, <1>6, Lengths, AncestryFacts
<1> QED
  BY <1>1, <1>3, <1>5, <1>6, <1>7, Lengths

LEMMA GetSuperStep ==
  ASSUME RInv, IInv', NEW name \in Names, getSuper(name) PROVE RInv'
<1>1. /\ NoClass /\ declaring = 0 /\ Operands > 0 /\ InSubclass /\ peek(0) = this
      /\ bindMethod(super[frame.closure.class], name, stack)
  BY DEF getSuper, Running
<1>2. PICK c : c = super[frame.closure.class]
  OBVIOUS
<1>3. c \in 0..Len(methods)
  BY <1>1, <1>2, SuperFacts, Lengths
<1>4. PICK i \in 1..Len(instances) :
        peek(0) = Instance(i) /\ c \in Ancestry[instances[i].klass]
  BY <1>1, <1>2, SuperFacts
<1> QED
  BY <1>1, <1>2, <1>3, <1>4, BindStep

LEMMA SuperInvokeStep ==
  ASSUME RInv, IInv', NEW name \in Names, NEW n \in Nat, superInvoke(name, n) PROVE RInv'
<1>1. /\ NoClass /\ declaring = 0 /\ Operands > n /\ InSubclass /\ peek(n) = this
      /\ invokeFromClass(super[frame.closure.class], name, stack, n)
  BY DEF superInvoke, Running
<1>2. PICK c : c = super[frame.closure.class]
  OBVIOUS
<1>3. c \in 1..Len(methods)
  BY <1>1, <1>2, SuperFacts
<1>4. PICK i \in 1..Len(instances) :
        peek(n) = Instance(i) /\ c \in Ancestry[instances[i].klass]
  BY <1>1, <1>2, SuperFacts
<1>5. CASE FindMethod(c, name) = NoMethod
  BY <1>1, <1>2, <1>5, Fails DEF invokeFromClass
<1>6. CASE FindMethod(c, name) # NoMethod
  <2>1. PICK m : m = FindMethod(c, name)
    OBVIOUS
  <2>2. call(m, stack, n)
    BY <1>1, <1>2, <1>6, <2>1 DEF invokeFromClass
  <2>3. m \in MethodsOf(c)
    BY <1>3, <1>6, <2>1, Lengths, FindMethodFacts
  <2>4. m \in Closures /\ m.class \in Ancestry[c]
    BY <1>3, <2>3, MethodFacts
  <2>5. Ancestry[c] \subseteq Ancestry[instances[i].klass]
    BY <1>4, ObjectFacts, Lengths, Transitive
  <2>6. CanEnter(m, stack, n)
    BY <1>1, <1>4, <2>4, <2>5, PeekFacts DEF CanEnter
  <2> QED
    BY <1>1, <2>2, <2>6, PeekFacts, CallStep
<1> QED
  BY <1>5, <1>6

LEMMA ReturnStep ==
  ASSUME RInv, IInv', return PROVE RInv'
<1>1. PICK v : v = IF frame.closure.class # 0 /\ frame.closure.name = init
                   THEN this ELSE IF Operands > 0 THEN peek(0) ELSE nil
  OBVIOUS
<1>2. /\ NoClass /\ declaring = 0
      /\ IF Len(frames) = 1 THEN interpret /\ UNCHANGED instances
         ELSE /\ stack' = Push(SubSeq(stack, 1, frame.slots - 1), v)
              /\ frames' = Front(frames)
              /\ UNCHANGED <<declaring, instances>>
  BY <1>1 DEF return, Running
<1>3. CASE Len(frames) = 1
  <2>1. interpret /\ UNCHANGED instances
    BY <1>2, <1>3
  <2>2. Grows
    BY <1>2, <2>1, SameGrows
  <2> QED
    BY <1>2, <2>1, <2>2, OwnedStays, Begins
<1>4. CASE Len(frames) # 1
  <2>1. /\ stack' = Push(SubSeq(stack, 1, frame.slots - 1), v)
        /\ frames' = Front(frames) /\ declaring' = 0 /\ instances' = instances
    BY <1>2, <1>4
  <2>2. v \in Good
    <3>1. Operands > 0 => peek(0) \in Good
      BY PeekFacts
    <3>2. this \in Good /\ nil \in Good
      BY FrameFacts DEF Good
    <3> QED
      BY <1>1, <3>1, <3>2
  <2>3. Len(frames) \in Nat \ {0, 1}
    BY <1>4, Lengths
  <2>4. PICK n : n = Len(frames) - 1
    OBVIOUS
  <2>5. n \in 1..Len(frames) /\ n \in Nat
    BY <2>3, <2>4
  <2>6. PICK b : b = frame.slots - 1
    OBVIOUS
  <2>7. /\ frame = frames[Len(frames)] /\ frame.slots \in Nat \ {0}
        /\ frame.slots <= Len(stack)
    BY FrameFacts, Lengths
  <2>8. b \in 0..Len(stack) /\ Len(stack) \in Nat
    BY <2>6, <2>7, Lengths
  <2>9. LastArgument(n) <= b
    <3>1. LastArgument(n) < frames[Len(frames)].slots
      BY <2>3, <2>4 DEF RInv, Framed, GoodFrame
    <3>2. LastArgument(n) \in Nat
      BY <2>5, CallFacts
    <3> QED
      BY <2>6, <2>7, <3>1, <3>2
  <2>10. PICK k : k = Len(stack) - b
    OBVIOUS
  <2>11. k \in 0..Len(stack) /\ Len(stack) - k = b
    BY <2>8, <2>10
  <2>12. PICK t : t = SubSeq(stack, 1, b)
    OBVIOUS
  <2>13. t = Drop(stack, k) /\ stack \in Seq(Good)
    BY <2>11, <2>12 DEF Drop, RInv, Valued
  <2>14. t \in Seq(Good) /\ Len(t) = b /\ \A p \in 1..b : t[p] = stack[p]
    BY <2>11, <2>13, DropFacts
  <2>15. stack' = Append(t, v)
    BY <2>1, <2>6, <2>12 DEF Push
  <2>16. /\ stack' \in Seq(Good) /\ Len(stack') = b + 1
         /\ \A p \in 1..b : stack'[p] = stack[p]
    BY <2>2, <2>14, <2>15, AppendProperties
  <2>17. Grows /\ instances' \in Seq(ObjectType')
    BY <1>2, <2>1, SameObjects
  <2>18. stack' \in Seq(Good')
    BY <2>16, <2>17, ObjectsStayGood
  <2>19. frames \in Seq(FrameType) /\ FrameType' = FrameType
    BY <1>2 DEF RInv, Framed, NoClass, FrameType, Closures
  <2>20. /\ frames' \in Seq(FrameType) /\ Len(frames') = n
         /\ \A i \in 1..n : frames'[i] = frames[i]
    <3>1. Front(frames) = SubSeq(frames, 1, n) /\ n \in 1..Len(frames)
      BY <2>4, <2>5 DEF Front
    <3>2. \A i \in 1..n : frames[i] \in FrameType
      BY <2>5, <2>19, ElementOfSeq, Lengths
    <3>3. /\ SubSeq(frames, 1, n) \in Seq(FrameType) /\ Len(SubSeq(frames, 1, n)) = n
          /\ \A i \in 1..n : SubSeq(frames, 1, n)[i] = frames[i]
      BY <2>5, <3>2, SubSeqProperties
    <3> QED
      BY <2>1, <3>1, <3>3
  <2>21. \A i \in 1..n : GoodFrame(i)'
    <3>1. LastArgument(n) \in Nat
      BY <2>5, CallFacts
    <3>2. LastArgument(n) <= Len(stack') /\ Len(stack') \in Nat
      BY <3>1, <2>8, <2>9, <2>16
    <3>3. \A p \in 1..LastArgument(n) : stack'[p] = stack[p]
      BY <3>1, <2>8, <2>9, <2>16
    <3> QED
      BY <3>2, <3>3, <2>5, <2>17, <2>20, FramesStayGood
  <2>22. frames' # <<>>
    BY <2>5, <2>20
  <2>23. Owned'
    BY <1>2, <2>17, OwnedStays
  <2> QED
    BY <2>1, <2>17, <2>18, <2>19, <2>20, <2>21, <2>22, <2>23 DEF RInv, Valued, Framed
<1> QED
  BY <1>3, <1>4

---------------------------------------------------------------------------
(* Declarations leave the calls alone.                                     *)

(* What a declaration has to keep, besides the tables.                     *)
LEMMA Declaration ==
  ASSUME RInv, IInv', Grows, Owned', UNCHANGED <<instances, frames>>,
         stack' \in Seq(Good'), Frontier <= Len(stack'),
         \A p \in 1..Frontier : stack'[p] = stack[p],
         declaring' # 0 => Len(stack') - Frontier = Locals'
  PROVE  RInv'
<1>1. Len(stack') \in Nat /\ Len(frames) \in 1..Len(frames)
  BY Lengths, LenProperties
<1>2. \A i \in 1..Len(frames) : GoodFrame(i)'
  BY <1>1, FramesStayGood DEF Frontier
<1>3. instances' \in Seq(ObjectType')
  BY ObjectsStayGood DEF RInv, Valued
<1>4. FrameType \subseteq FrameType'
  <2>1. Len(methods') \in Nat /\ DOMAIN methods' = 1..Len(methods')
    BY DEF IInv, Tables
  <2>2. 1..Len(methods) \subseteq 1..Len(methods') /\ DOMAIN methods = 1..Len(methods)
    BY <2>1, Lengths DEF Grows
  <2>3. Closures \subseteq Closures'
    BY <2>1, <2>2 DEF Closures
  <2> QED
    BY <2>3 DEF FrameType
<1>5. frames' \in Seq(FrameType') /\ frames' # <<>>
  BY <1>4, SeqMonotonic DEF RInv, Framed
<1>6. Operands' = Len(stack') - Frontier
  <2>1. frame' = frame
    BY DEF frame
  <2>2. /\ frame.slots \in Nat /\ ArityOf(frame.closure) \in Nat
        /\ frame.slots + ArityOf(frame.closure) = Frontier
    BY FrameFacts, CodeFacts
  <2> QED
    BY <1>1, <2>1, <2>2 DEF Operands
<1> QED
  BY <1>2, <1>3, <1>5, <1>6 DEF RInv, Valued, Framed

LEMMA ClassKeeps ==
  ASSUME RInv, IInv', class PROVE RInv'
<1> DEFINE n == Len(methods) + 1
<1>1. /\ declaring = 0 /\ Operands = 0
      /\ methods' = Append(methods, NoMethods)
      /\ super' = Append(super, 0) /\ own' = Append(own, NoMethods)
      /\ declaring' = n /\ UNCHANGED <<instances, stack, frames>>
  BY DEF class
<1>2. /\ methods \in Seq([Names -> Code]) /\ own \in Seq([Names -> Code])
      /\ super \in Seq(Nat) /\ Len(super) = Len(methods) /\ Len(own) = Len(methods)
      /\ Len(methods) \in Nat /\ Len(instances) \in Nat
  BY Lengths DEF Tables
<1>3. /\ Len(methods') = n /\ methods'[n] = NoMethods
      /\ Len(own') = n /\ own'[n] = NoMethods /\ super'[n] = 0
      /\ \A c \in 1..Len(methods) :
           methods'[c] = methods[c] /\ own'[c] = own[c] /\ super'[c] = super[c]
  BY <1>1, <1>2, NoMethodIsCode, AppendProperties
<1>4. Grows
  BY <1>1, <1>2, <1>3 DEF Grows
<1>5. Owned'
  <2> SUFFICES ASSUME NEW c \in 1..n, NEW name \in Names
               PROVE  /\ methods'[c][name] \in MethodsOf(c)' \cup {NoMethod}
                      /\ own'[c][name] \in {Method(c, name), NoMethod}
    BY <1>3 DEF Owned
  <2>1. CASE c = n
    BY <2>1, <1>3 DEF NoMethods
  <2>2. CASE c # n
    <3>1. c \in 1..Len(methods)
      BY <2>2, <1>2
    <3> QED
      BY <3>1, <1>3, <1>4, ValuesStayGood DEF RInv, Owned
  <2> QED
    BY <2>1, <2>2
<1>6. Locals' = 0
  BY <1>1, <1>3 DEF Locals
<1>7. stack' \in Seq(Good')
  BY <1>1, <1>4, ObjectsStayGood DEF RInv, Valued
<1>8. Len(stack) - Frontier = 0 /\ Frontier <= Len(stack)
  BY <1>1, FrameFacts
<1> QED
  BY <1>1, <1>4, <1>5, <1>6, <1>7, <1>8, Declaration

LEMMA MethodKeeps ==
  ASSUME RInv, IInv', NEW m \in Names, method(m) PROVE RInv'
<1> DEFINE d == declaring
<1>1. /\ declaring # 0
      /\ methods' = [methods EXCEPT ![d][m] = Method(d, m)]
      /\ own' = [own EXCEPT ![d][m] = Method(d, m)]
      /\ UNCHANGED <<super, declaring, instances, stack, frames>>
  BY DEF method
<1>2. /\ methods \in Seq([Names -> Code]) /\ own \in Seq([Names -> Code])
      /\ Len(super) = Len(methods) /\ Len(own) = Len(methods)
      /\ Len(methods) \in Nat /\ d \in 1..Len(methods)
  BY <1>1, Lengths DEF Tables
<1>3. /\ Len(methods') = Len(methods)
      /\ \A c \in 1..Len(methods) : \A name \in Names :
           /\ methods'[c][name] = IF c = d /\ name = m THEN Method(d, m) ELSE methods[c][name]
           /\ own'[c][name] = IF c = d /\ name = m THEN Method(d, m) ELSE own[c][name]
  BY <1>1, <1>2
<1>4. Grows
  BY <1>1, <1>2, <1>3, Lengths DEF Grows
<1>5. Owned'
  <2> SUFFICES ASSUME NEW c \in 1..Len(methods), NEW name \in Names
               PROVE  /\ methods'[c][name] \in MethodsOf(c)' \cup {NoMethod}
                      /\ own'[c][name] \in {Method(c, name), NoMethod}
    BY <1>3 DEF Owned
  <2>1. CASE c = d /\ name = m
    <3>1. c \in Ancestry[c]
      BY <1>2, Lengths, AncestryFacts
    <3>2. c \in Ancestry'[c]
      BY <3>1, <1>4, ValuesStayGood
    <3> QED
      BY <2>1, <3>2, <1>3 DEF MethodsOf
  <2>2. CASE ~(c = d /\ name = m)
    BY <2>2, <1>3, <1>4, ValuesStayGood DEF RInv, Owned
  <2> QED
    BY <2>1, <2>2
<1>6. Locals' = Locals
  BY <1>1 DEF Locals
<1>7. stack' \in Seq(Good')
  BY <1>1, <1>4, ObjectsStayGood DEF RInv, Valued
<1>8. Len(stack) - Frontier = Locals /\ Frontier <= Len(stack)
  BY <1>1, FrameFacts DEF RInv, Framed
<1> QED
  BY <1>1, <1>4, <1>5, <1>6, <1>7, <1>8, Declaration

LEMMA InheritKeeps ==
  ASSUME RInv, IInv', NEW s \in 1..Len(methods), inherit(Class(s)) PROVE RInv'
<1> DEFINE d == declaring
<1>1. /\ d # 0 /\ super[d] = 0 /\ own[d] = NoMethods /\ s # d
      /\ methods' = [methods EXCEPT ![d] = tableAddAll(methods[s], methods[d])]
      /\ super' = [super EXCEPT ![d] = s]
      /\ stack' = Push(stack, Class(s))
      /\ UNCHANGED <<own, declaring, instances, frames>>
  BY DEF inherit, Class
<1>2. /\ methods \in Seq([Names -> Code]) /\ super \in Seq(Nat)
      /\ Len(super) = Len(methods) /\ Len(own) = Len(methods)
      /\ Len(methods) \in Nat /\ d \in 1..Len(methods)
  BY <1>1, Lengths DEF Tables
<1>3. /\ Len(methods') = Len(methods) /\ super'[d] = s
      /\ \A c \in 1..Len(methods) : c # d => methods'[c] = methods[c] /\ super'[c] = super[c]
      /\ \A name \in Names : methods'[d][name] \in {methods[s][name], methods[d][name]}
  BY <1>1, <1>2 DEF tableAddAll
<1>4. Grows
  BY <1>1, <1>2, <1>3, Lengths DEF Grows
<1>5. MethodsOf(s)' \subseteq MethodsOf(d)'
  <2>1. Tables' /\ Older' /\ Len(super') = Len(methods')
    BY DEF IInv, Tables
  <2>2. \A c \in 1..Len(super') : Ancestry'[c] = {c} \cup Ancestry'[super'[c]]
    BY <2>1, AncestryIsThen
  <2>3. Ancestry'[super'[d]] \subseteq Ancestry'[d]
    BY <2>1, <2>2, <1>2, <1>3
  <2>4. Ancestry'[s] \subseteq Ancestry'[d]
    BY <2>3, <1>3
  <2> QED
    BY <2>4, <1>1 DEF MethodsOf
<1>6. Owned'
  <2> SUFFICES ASSUME NEW c \in 1..Len(methods), NEW name \in Names
               PROVE  /\ methods'[c][name] \in MethodsOf(c)' \cup {NoMethod}
                      /\ own'[c][name] \in {Method(c, name), NoMethod}
    BY <1>3 DEF Owned
  <2>1. own'[c][name] \in {Method(c, name), NoMethod}
    BY <1>1 DEF RInv, Owned
  <2>2. /\ methods[c][name] \in MethodsOf(c)' \cup {NoMethod}
        /\ methods[s][name] \in MethodsOf(s)' \cup {NoMethod}
    BY <1>4, ValuesStayGood DEF RInv, Owned
  <2>3. CASE c = d
    BY <2>1, <2>2, <2>3, <1>1, <1>3, <1>5
  <2>4. CASE c # d
    BY <2>1, <2>2, <2>4, <1>3
  <2> QED
    BY <2>3, <2>4
<1>7. Locals = 0 /\ Locals' = 1
  <2>1. s # 0
    BY <1>2
  <2> QED
    BY <2>1, <1>1, <1>3 DEF Locals
<1>8. /\ stack \in Seq(Good) /\ Len(stack) \in Nat /\ Frontier \in Nat
      /\ Len(stack) = Frontier
  <2>1. Len(stack) - Frontier = 0
    BY <1>1, <1>7, FrameFacts DEF RInv, Framed
  <2> QED
    BY <2>1, Lengths, FrameFacts DEF RInv, Valued
<1>9. /\ stack' \in Seq(Good) /\ Len(stack') = Len(stack) + 1
      /\ \A p \in 1..Len(stack) : stack'[p] = stack[p]
  <2>1. Class(s) \in Good
    BY DEF Good
  <2> QED
    BY <2>1, <1>1, <1>8, AppendProperties DEF Push
<1>10. stack' \in Seq(Good')
  BY <1>4, <1>9, ObjectsStayGood
<1>11. /\ Frontier <= Len(stack') /\ Len(stack') - Frontier = 1
       /\ \A p \in 1..Frontier : stack'[p] = stack[p]
  BY <1>8, <1>9
<1> QED
  BY <1>1, <1>4, <1>6, <1>7, <1>10, <1>11, Declaration

LEMMA InheritFails ==
  ASSUME RInv, IInv', inherit(nil) PROVE RInv'
BY Fails DEF inherit, nil, NoClass

LEMMA EndClassKeeps ==
  ASSUME RInv, IInv', endClass PROVE RInv'
<1>1. /\ declaring # 0 /\ declaring' = 0 /\ NoClass /\ UNCHANGED <<instances, frames>>
      /\ stack' = IF super[declaring] # 0 THEN Drop(stack, 1) ELSE stack
  BY DEF endClass
<1>2. Len(stack) - Frontier = Locals
  BY <1>1, FrameFacts DEF RInv, Framed
<1>3. Grows /\ Owned'
  BY <1>1, SameGrows, OwnedStays
<1>4. stack \in Seq(Good) /\ Len(stack) \in Nat /\ Frontier \in Nat
  BY Lengths, FrameFacts DEF RInv, Valued
<1>5. CASE super[declaring] = 0
  <2>1. stack' = stack /\ Frontier <= Len(stack)
    BY <1>1, <1>5, FrameFacts
  <2>2. stack' \in Seq(Good')
    BY <2>1, <1>3, <1>4, ObjectsStayGood
  <2> QED
    BY <2>1, <2>2, <1>1, <1>3, Declaration
<1>6. CASE super[declaring] # 0
  <2>1. Len(stack) = Frontier + 1 /\ 1 \in 0..Len(stack)
    BY <1>1, <1>2, <1>4, <1>6 DEF Locals
  <2>2. /\ stack' \in Seq(Good) /\ Len(stack') = Len(stack) - 1
        /\ \A p \in 1..(Len(stack) - 1) : stack'[p] = stack[p]
    BY <2>1, <1>1, <1>4, <1>6, DropFacts
  <2>3. stack' \in Seq(Good')
    BY <2>2, <1>3, ObjectsStayGood
  <2>4. Frontier <= Len(stack') /\ \A p \in 1..Frontier : stack'[p] = stack[p]
    BY <2>1, <2>2, <1>4
  <2> QED
    BY <2>3, <2>4, <1>1, <1>3, Declaration
<1> QED
  BY <1>5, <1>6

LEMMA Retyped ==
  ASSUME NEW S, NEW T, NEW s \in Seq(S), \A i \in 1..Len(s) : s[i] \in T
  PROVE  s \in Seq(T)
OBVIOUS

---------------------------------------------------------------------------
LEMMA RBase == Init => RInv
<1> SUFFICES ASSUME Init PROVE RInv
  OBVIOUS
<1>1. /\ methods = <<>> /\ super = <<>> /\ own = <<>> /\ instances = <<>>
      /\ declaring = 0 /\ stack = <<Script>>
      /\ frames = <<[closure |-> Script.method, slots |-> 1]>>
  BY DEF Init
<1>2. IInv
  BY Base
<1>3. Owned /\ Valued
  BY <1>1 DEF Owned, Valued, Good
<1>4. frames \in Seq(FrameType) /\ frames # <<>> /\ Len(frames) = 1 /\ frames[1] \in FrameType
  BY <1>1 DEF FrameType, Closures
<1>5. GoodFrame(1)
  <2>1. frames[1].slots = 1 /\ frames[1].closure.class = 0
        /\ LastArgument(1) = 1 /\ Len(stack) = 1
    BY <1>1 DEF LastArgument, Script, Method, ArityOf
  <2>2. 1..(1 - 1) = {}
    OBVIOUS
  <2> QED
    BY <1>4, <2>1, <2>2 DEF GoodFrame
<1> QED
  BY <1>1, <1>2, <1>3, <1>4, <1>5 DEF RInv, Framed

LEMMA RStep == RInv /\ [Next]_vars => RInv'
<1> SUFFICES ASSUME RInv, [Next]_vars PROVE RInv'
  OBVIOUS
<1>0. IInv'
  BY Step DEF RInv
<1>1. CASE class
  BY <1>0, <1>1, ClassKeeps
<1>2. CASE \E name \in Names : method(name)
  BY <1>0, <1>2, MethodKeeps
<1>3. ASSUME NEW c \in DOMAIN methods, inherit(Class(c)) PROVE RInv'
  BY <1>0, <1>3, Lengths, InheritKeeps
<1>4. CASE inherit(nil)
  BY <1>0, <1>4, InheritFails
<1>5. CASE endClass
  BY <1>0, <1>5, EndClassKeeps
<1>6. CASE variable
  BY <1>0, <1>6, VariableStep
<1>7. CASE pop
  BY <1>0, <1>7, PopStep
<1>8. CASE return
  BY <1>0, <1>8, ReturnStep
<1>9. ASSUME NEW name \in Names, getProperty(name) PROVE RInv'
  BY <1>0, <1>9, GetPropertyStep
<1>10. ASSUME NEW name \in Names, setProperty(name) PROVE RInv'
  BY <1>0, <1>10, SetPropertyStep
<1>11. ASSUME NEW name \in Names, getSuper(name) PROVE RInv'
  BY <1>0, <1>11, GetSuperStep
<1>12. \A n \in 0..(MaxOperands - 1) : n \in Nat
  BY ClassesAssumption
<1>13. ASSUME NEW name \in Names, NEW n \in 0..(MaxOperands - 1), invokesName(name, n)
       PROVE  RInv'
  BY <1>0, <1>12, <1>13, InvokeStep DEF invokesName, Running
<1>14. ASSUME NEW name \in Names, NEW n \in 0..(MaxOperands - 1), superInvoke(name, n)
       PROVE  RInv'
  BY <1>0, <1>12, <1>14, SuperInvokeStep
<1>15. ASSUME NEW n \in 0..(MaxOperands - 1), callsValue(n) PROVE RInv'
  BY <1>0, <1>12, <1>15, PeekFacts, CallValueStep DEF callsValue, Running
<1>16. CASE UNCHANGED vars
  <2>1. NoClass /\ UNCHANGED <<declaring, instances, stack, frames>>
    BY <1>16 DEF vars, NoClass
  <2>2. Grows /\ Owned'
    BY <1>0, <2>1, SameGrows, OwnedStays
  <2>3. stack' \in Seq(Good')
    BY <1>0, <2>1, <2>2, ObjectsStayGood DEF RInv, Valued
  <2>4. Locals' = Locals
    BY <2>1 DEF Locals, NoClass
  <2>5. declaring # 0 => Len(stack) - Frontier = Locals
    BY FrameFacts DEF RInv, Framed
  <2> QED
    BY <1>0, <2>1, <2>2, <2>3, <2>4, <2>5, FrameFacts, Declaration
<1> QED
  BY <1>1, <1>2, <1>3, <1>4, <1>5, <1>6, <1>7, <1>8, <1>9, <1>10, <1>11, <1>13,
     <1>14, <1>15, <1>16 DEF Next

LEMMA Receivers == Spec => []RInv
BY RBase, RStep, PTL DEF Spec

(* TypeOK: the tables hold methods, the calls lie within the stack.        *)
THEOREM ClassesTypeCorrect == Spec => []TypeOK
<1>1. RInv => TypeOK
  <2> SUFFICES ASSUME RInv PROVE TypeOK
    OBVIOUS
  <2>1. DOMAIN methods = 1..Len(methods) /\ Len(methods) \in Nat
    BY Lengths
  <2>2. \A c \in 1..Len(methods) : MethodsOf(c) \subseteq Closures
    BY MethodFacts
  <2>3. \A c \in 1..Len(methods) :
          /\ methods[c] \in [Names -> Closures \cup {NoMethod}]
          /\ own[c] \in [Names -> Closures \cup {NoMethod}]
    <3>1. \A c \in 1..Len(methods), name \in Names : Method(c, name) \in Closures
      BY <2>1 DEF Closures
    <3>2. \A c \in 1..Len(methods) :
            methods[c] \in [Names -> Code] /\ own[c] \in [Names -> Code]
      BY Lengths, ElementOfSeq DEF Tables
    <3> QED
      BY <2>2, <3>1, <3>2 DEF RInv, Owned
  <2>4. /\ methods \in Seq([Names -> Closures \cup {NoMethod}])
        /\ own \in Seq([Names -> Closures \cup {NoMethod}])
    BY <2>3, Lengths, Retyped DEF Tables
  <2>5. super \in Seq(0..Len(methods))
    <3>1. \A c \in 1..Len(super) : super[c] \in 0..Len(methods)
      BY <2>1, Lengths DEF Tables, Older
    <3> QED
      BY <3>1, Lengths, Retyped DEF Tables
  <2>6. \A i \in 1..Len(frames) :
          frames[i] \in [closure : Closures, slots : DOMAIN stack]
    <3> SUFFICES ASSUME NEW i \in 1..Len(frames)
                 PROVE  frames[i] \in [closure : Closures, slots : DOMAIN stack]
      OBVIOUS
    <3>1. frames[i].slots \in 1..Len(stack)
      BY CallFacts, FrameFacts, Lengths
    <3>2. DOMAIN stack = 1..Len(stack)
      BY DEF RInv, Valued
    <3> QED
      BY <3>1, <3>2 DEF RInv, Framed, GoodFrame, FrameType
  <2>7. frames \in Seq([closure : Closures, slots : DOMAIN stack])
    BY <2>6, Lengths, Retyped DEF RInv, Framed
  <2> QED
    BY <2>1, <2>4, <2>5, <2>7, Lengths, ObjectFacts DEF TypeOK, RInv, Framed
<1> QED
  BY <1>1, Receivers, PTL

(* ThisIsAnInstance: slot 0 of a method's call holds an instance of its    *)
(* class or of a subclass (vm.c, callValue, invoke and bindMethod), for    *)
(* chains of subclasses of any length.                                     *)
THEOREM MethodsReceiveInstances == Spec => []ThisIsAnInstance
<1>1. RInv => ThisIsAnInstance
  BY Lengths DEF RInv, Framed, GoodFrame, Receives, ThisIsAnInstance
<1> QED
  BY <1>1, Receivers, PTL

---------------------------------------------------------------------------
(***************************************************************************)
(* The machine's classes and calls implement those of the language: tables *)
(* filled by copying, invocations that bind no method, and one stack for   *)
(* all calls are not to be told from lookup along the chain of             *)
(* superclasses, from a get followed by a call, and from calls that each   *)
(* have their own values.                                                  *)
(***************************************************************************)

---------------------------------------------------------------------------
(* Parts of a sequence, and sequences of which the end changes.            *)

(* What s has above position a, up to position b.                          *)
Part(s, a, b) == SubSeq(s, a + 1, b)

LEMMA PartFacts ==
  ASSUME NEW S, NEW s \in Seq(S), NEW b \in 0..Len(s), NEW a \in 0..b
  PROVE  /\ Part(s, a, b) \in Seq(S) /\ Len(Part(s, a, b)) = b - a
         /\ \A p \in 1..(b - a) : Part(s, a, b)[p] = s[a + p]
<1>1. Len(s) \in Nat
  BY LenProperties
<1>2. PICK m : m = a + 1
  OBVIOUS
<1>3. m \in Int /\ b \in Int /\ \A i \in m..b : s[i] \in S
  BY <1>1, <1>2, ElementOfSeq
<1>4. /\ SubSeq(s, m, b) \in Seq(S)
      /\ Len(SubSeq(s, m, b)) = IF m <= b THEN b - m + 1 ELSE 0
      /\ \A i \in 1..(b - m + 1) : SubSeq(s, m, b)[i] = s[m + i - 1]
  BY <1>3, SubSeqProperties
<1>5. Len(SubSeq(s, m, b)) = b - a
  BY <1>1, <1>2, <1>4
<1>6. ASSUME NEW p \in 1..(b - a) PROVE SubSeq(s, m, b)[p] = s[a + p]
  <2>1. p \in 1..(b - m + 1) /\ m + p - 1 = a + p
    BY <1>1, <1>2
  <2> QED
    BY <1>4, <2>1
<1> QED
  BY <1>2, <1>4, <1>5, <1>6 DEF Part

LEMMA SameParts ==
  ASSUME NEW S, NEW s \in Seq(S), NEW t \in Seq(S), NEW b \in 0..Len(s), NEW a \in 0..b,
         b <= Len(t), \A p \in (a + 1)..b : s[p] = t[p]
  PROVE  Part(s, a, b) = Part(t, a, b)
<1>1. Len(s) \in Nat /\ Len(t) \in Nat /\ b \in 0..Len(t)
  BY LenProperties
<1>2. /\ Part(s, a, b) \in Seq(S) /\ Len(Part(s, a, b)) = b - a
      /\ \A p \in 1..(b - a) : Part(s, a, b)[p] = s[a + p]
  BY PartFacts
<1>3. /\ Part(t, a, b) \in Seq(S) /\ Len(Part(t, a, b)) = b - a
      /\ \A p \in 1..(b - a) : Part(t, a, b)[p] = t[a + p]
  BY <1>1, PartFacts
<1>4. \A p \in 1..(b - a) : s[a + p] = t[a + p]
  BY <1>1
<1> QED
  BY <1>2, <1>3, <1>4, SeqEqual

LEMMA DropPart ==
  ASSUME NEW S, NEW s \in Seq(S), NEW b \in 0..Len(s), NEW a \in 0..b, NEW k \in 0..(b - a)
  PROVE  Drop(Part(s, a, b), k) = Part(s, a, b - k)
<1>1. Len(s) \in Nat
  BY LenProperties
<1>2. PICK t : t = Part(s, a, b)
  OBVIOUS
<1>3. t \in Seq(S) /\ Len(t) = b - a /\ \A p \in 1..(b - a) : t[p] = s[a + p]
  BY <1>2, PartFacts
<1>4. k \in 0..Len(t)
  BY <1>3
<1>5. /\ Drop(t, k) \in Seq(S) /\ Len(Drop(t, k)) = Len(t) - k
      /\ \A p \in 1..(Len(t) - k) : Drop(t, k)[p] = t[p]
  BY <1>3, <1>4, DropFacts
<1>6. PICK c : c = b - k
  OBVIOUS
<1>7. c \in 0..Len(s) /\ a \in 0..c /\ c - a = Len(t) - k
  BY <1>1, <1>3, <1>6
<1>8. /\ Part(s, a, c) \in Seq(S) /\ Len(Part(s, a, c)) = c - a
      /\ \A p \in 1..(c - a) : Part(s, a, c)[p] = s[a + p]
  BY <1>7, PartFacts
<1>9. ASSUME NEW p \in 1..(c - a) PROVE Drop(t, k)[p] = Part(s, a, c)[p]
  <2>1. p \in 1..(Len(t) - k) /\ p \in 1..(b - a)
    BY <1>1, <1>3, <1>7
  <2>2. Drop(t, k)[p] = t[p] /\ t[p] = s[a + p]
    BY <1>3, <1>5, <2>1
  <2> QED
    BY <1>8, <2>2
<1>10. Drop(t, k) = Part(s, a, c)
  BY <1>5, <1>7, <1>8, <1>9, SeqEqual
<1> QED
  BY <1>2, <1>6, <1>10

LEMMA TopPart ==
  ASSUME NEW S, NEW s \in Seq(S), NEW b \in 0..Len(s), NEW a \in 0..b, NEW n \in 0..(b - a)
  PROVE  Top(Part(s, a, b), n) = Part(s, b - n, b)
<1>1. Len(s) \in Nat
  BY LenProperties
<1>2. PICK t : t = Part(s, a, b)
  OBVIOUS
<1>3. t \in Seq(S) /\ Len(t) = b - a /\ \A p \in 1..(b - a) : t[p] = s[a + p]
  BY <1>2, PartFacts
<1>4. PICK d : d = Len(t) - n
  OBVIOUS
<1>5. Len(t) \in 0..Len(t) /\ d \in 0..Len(t) /\ Len(t) - d = n
  BY <1>3, <1>4
<1>6. /\ Part(t, d, Len(t)) \in Seq(S) /\ Len(Part(t, d, Len(t))) = n
      /\ \A p \in 1..n : Part(t, d, Len(t))[p] = t[d + p]
  <2>1. PICK e : e = Len(t)
    OBVIOUS
  <2>2. e \in 0..Len(t) /\ d \in 0..e /\ e - d = n
    BY <2>1, <1>5
  <2>3. /\ Part(t, d, e) \in Seq(S) /\ Len(Part(t, d, e)) = e - d
        /\ \A p \in 1..(e - d) : Part(t, d, e)[p] = t[d + p]
    BY <2>2, <1>3, PartFacts, ZenonT(30)
  <2> QED
    BY <2>1, <2>2, <2>3
<1>7. Top(t, n) = Part(t, d, Len(t))
  BY <1>4 DEF Top, Part
<1>8. PICK c : c = b - n
  OBVIOUS
<1>9. c \in 0..b /\ b - c = n
  BY <1>1, <1>8
<1>10. /\ Part(s, c, b) \in Seq(S) /\ Len(Part(s, c, b)) = n
       /\ \A p \in 1..n : Part(s, c, b)[p] = s[c + p]
  BY <1>9, PartFacts
<1>11. ASSUME NEW p \in 1..n PROVE Top(t, n)[p] = Part(s, c, b)[p]
  <2>1. d + p \in 1..(b - a) /\ a + (d + p) = c + p
    BY <1>1, <1>3, <1>4, <1>8
  <2> QED
    BY <1>3, <1>6, <1>7, <1>10, <2>1
<1>12. Top(t, n) = Part(s, c, b)
  BY <1>6, <1>7, <1>10, <1>11, SeqEqual
<1> QED
  BY <1>2, <1>8, <1>12

LEMMA AppendToPart ==
  ASSUME NEW S, NEW s \in Seq(S), NEW t \in Seq(S), NEW b \in 0..Len(s), NEW a \in 0..b,
         b + 1 <= Len(t), \A p \in (a + 1)..b : t[p] = s[p]
  PROVE  Part(t, a, b + 1) = Append(Part(s, a, b), t[b + 1])
<1>1. Len(s) \in Nat /\ Len(t) \in Nat
  BY LenProperties
<1>2. PICK c : c = b + 1
  OBVIOUS
<1>3. c \in 0..Len(t) /\ a \in 0..c /\ c \in 1..Len(t) /\ c - a = (b - a) + 1
  BY <1>1, <1>2
<1>4. PICK v \in S : v = t[c]
  BY <1>3, ElementOfSeq
<1>5. PICK u : u = Part(s, a, b)
  OBVIOUS
<1>6. u \in Seq(S) /\ Len(u) = b - a /\ \A p \in 1..(b - a) : u[p] = s[a + p]
  BY <1>5, PartFacts
<1>7. PICK w : w = Append(u, v)
  OBVIOUS
<1>8. /\ w \in Seq(S) /\ Len(w) = Len(u) + 1 /\ w[Len(u) + 1] = v
      /\ \A p \in 1..Len(u) : w[p] = u[p]
  BY <1>6, <1>7, AppendProperties
<1>9. /\ Part(t, a, c) \in Seq(S) /\ Len(Part(t, a, c)) = c - a
      /\ \A p \in 1..(c - a) : Part(t, a, c)[p] = t[a + p]
  BY <1>3, PartFacts
<1>10. ASSUME NEW p \in 1..(c - a) PROVE Part(t, a, c)[p] = w[p]
  <2>1. CASE p = c - a
    <3>1. a + p = c /\ p = Len(u) + 1
      BY <2>1, <1>1, <1>3, <1>6
    <3> QED
      BY <3>1, <1>4, <1>8, <1>9
  <2>2. CASE p # c - a
    <3>1. p \in 1..(b - a) /\ a + p \in (a + 1)..b
      BY <2>2, <1>1, <1>3
    <3> QED
      BY <3>1, <1>6, <1>8, <1>9
  <2> QED
    BY <2>1, <2>2
<1>11. Part(t, a, c) = w
  BY <1>3, <1>6, <1>8, <1>9, <1>10, SeqEqual
<1> QED
  BY <1>2, <1>4, <1>5, <1>7, <1>11

---------------------------------------------------------------------------
(* Lookup along the chain finds what copying left in the table.            *)

LEMMA LookupIs ==
  ASSUME RInv
  PROVE  \A c \in 0..Len(methods), name \in Names :
           Promise!Lookup[c][name] = FindMethod(c, name)
<1> DEFINE R(f) == f = [c \in 0..Len(own) |->
                         IF c = 0 THEN NoMethods
                         ELSE [name \in Names |->
                                IF own[c][name] # NoMethod THEN own[c][name]
                                ELSE f[super[c]][name]]]
           g    == [c \in 0..Len(own) |-> [name \in Names |-> FindMethod(c, name)]]
<1>1. /\ Len(own) \in Nat /\ Len(own) = Len(methods)
      /\ \A c \in 1..Len(own) : super[c] \in 0..(c - 1)
  BY Lengths DEF Tables, Older
<1>2. \A c \in 1..Len(own), name \in Names :
        FindMethod(c, name) = IF own[c][name] # NoMethod THEN own[c][name]
                              ELSE FindMethod(super[c], name)
  BY <1>1 DEF RInv, IInv, Inherited, FindMethod
<1>3. \A c \in 0..Len(own) :
        g[c] = IF c = 0 THEN NoMethods
               ELSE [name \in Names |-> IF own[c][name] # NoMethod THEN own[c][name]
                                        ELSE g[super[c]][name]]
  <2> SUFFICES ASSUME NEW c \in 0..Len(own)
               PROVE g[c] = IF c = 0 THEN NoMethods
                            ELSE [name \in Names |->
                                   IF own[c][name] # NoMethod THEN own[c][name]
                                   ELSE g[super[c]][name]]
    OBVIOUS
  <2>1. CASE c = 0
    BY <2>1 DEF FindMethod, NoMethods
  <2>2. CASE c # 0
    <3>1. c \in 1..Len(own) /\ super[c] \in 0..Len(own)
      BY <2>2, <1>1
    <3> QED
      BY <2>2, <3>1, <1>2
  <2> QED
    BY <2>1, <2>2
<1>4. R(g)
  BY <1>3, Zenon
<1>5. Promise!Lookup = CHOOSE f : R(f)
  BY DEF Promise!Lookup, Promise!NoMethods, Promise!NoMethod, Promise!Method,
         NoMethods, NoMethod, Method
<1> DEFINE l == Promise!Lookup
<1> HIDE DEF g, l
<1>6. R(l)
  BY <1>4, <1>5, Zenon DEF l
<1>7. \A c \in 0..Len(own) :
        l[c] = IF c = 0 THEN NoMethods
               ELSE [name \in Names |-> IF own[c][name] # NoMethod THEN own[c][name]
                                        ELSE l[super[c]][name]]
  BY <1>6
<1> DEFINE Misses == {c \in 0..Len(own) : \E name \in Names : l[c][name] # FindMethod(c, name)}
<1>8. ASSUME Misses # {} PROVE FALSE
  <2>1. Misses \subseteq Nat
    OBVIOUS
  <2> HIDE DEF Misses
  <2>2. PICK c \in Misses : \A d \in Misses : c <= d
    BY <1>8, <2>1, Least
  <2>3. PICK name \in Names : c \in 0..Len(own) /\ l[c][name] # FindMethod(c, name)
    BY <2>2 DEF Misses
  <2>4. CASE c = 0
    BY <2>3, <2>4, <1>7 DEF FindMethod, NoMethods
  <2>5. CASE c # 0
    <3>1. c \in 1..Len(own) /\ super[c] \in 0..Len(own) /\ ~(c <= super[c])
      BY <2>3, <2>5, <1>1
    <3>2. l[super[c]][name] = FindMethod(super[c], name)
      BY <2>2, <3>1 DEF Misses
    <3>3. l[c][name] = IF own[c][name] # NoMethod THEN own[c][name] ELSE l[super[c]][name]
      <4>1. l[c] = [k \in Names |-> IF own[c][k] # NoMethod THEN own[c][k]
                                    ELSE l[super[c]][k]]
        BY <2>3, <2>5, <1>7
      <4> QED
        BY <4>1
    <3> QED
      BY <2>3, <3>1, <3>2, <3>3, <1>2
  <2> QED
    BY <2>4, <2>5
<1>9. \A c \in 0..Len(own), name \in Names : l[c][name] = FindMethod(c, name)
  BY <1>8
<1> QED
  BY <1>1, <1>9 DEF l

---------------------------------------------------------------------------
(* The calls, as sequences of which the end changes.                       *)

LEMMA FrontFacts ==
  ASSUME NEW S, NEW s \in Seq(S), Len(s) > 0
  PROVE  /\ Front(s) \in Seq(S) /\ Len(Front(s)) = Len(s) - 1
         /\ \A i \in 1..(Len(s) - 1) : Front(s)[i] = s[i]
         /\ Last(s) = s[Len(s)] /\ Last(s) \in S
<1>1. Len(s) \in Nat
  BY LenProperties
<1>2. 1 \in 0..Len(s) /\ Len(s) \in 1..Len(s)
  BY <1>1
<1>3. Front(s) = Drop(s, 1)
  BY DEF Front, Drop
<1>4. Last(s) = s[Len(s)] /\ Last(s) \in S
  BY <1>2, ElementOfSeq DEF Last
<1>5. /\ Drop(s, 1) \in Seq(S) /\ Len(Drop(s, 1)) = Len(s) - 1
      /\ \A i \in 1..(Len(s) - 1) : Drop(s, 1)[i] = s[i]
  BY <1>2, DropFacts
<1> QED
  BY <1>3, <1>4, <1>5

LEMMA FrontOfAppend ==
  ASSUME NEW S, NEW s \in Seq(S), NEW x \in S
  PROVE  Front(Append(s, x)) = s /\ Last(Append(s, x)) = x
<1>1. PICK t : t = Append(s, x)
  OBVIOUS
<1>2. /\ t \in Seq(S) /\ Len(t) = Len(s) + 1 /\ t[Len(s) + 1] = x
      /\ \A i \in 1..Len(s) : t[i] = s[i]
  BY <1>1, AppendProperties
<1>3. Len(s) \in Nat
  BY LenProperties
<1>4. /\ Front(t) \in Seq(S) /\ Len(Front(t)) = Len(s) /\ Last(t) = x
      /\ \A i \in 1..Len(s) : Front(t)[i] = t[i]
  BY <1>2, <1>3, FrontFacts
<1>5. Front(t) = s
  BY <1>2, <1>4, SeqEqual
<1> QED
  BY <1>1, <1>4, <1>5

(* One element follows k elements of s.                                    *)
LEMMA EndsWith ==
  ASSUME NEW S, NEW s \in Seq(S), NEW t \in Seq(S), NEW x \in S,
         Len(t) = Len(s) + 1, \A i \in 1..Len(s) : t[i] = s[i], t[Len(t)] = x
  PROVE  t = Append(s, x)
<1>1. Len(s) \in Nat
  BY LenProperties
<1>2. PICK u : u = Append(s, x)
  OBVIOUS
<1>3. /\ u \in Seq(S) /\ Len(u) = Len(s) + 1 /\ u[Len(s) + 1] = x
      /\ \A i \in 1..Len(s) : u[i] = s[i]
  BY <1>2, AppendProperties
<1>4. \A i \in 1..Len(t) : t[i] = u[i]
  BY <1>1, <1>3
<1>5. t = u
  BY <1>3, <1>4, SeqEqual
<1> QED
  BY <1>2, <1>5

LEMMA RangeIsSeq ==
  ASSUME NEW S, NEW n \in Nat, NEW f, f \in [1..n -> S]
  PROVE  f \in Seq(S) /\ Len(f) = n
<1>1. f \in Seq(S)
  BY SeqDef
<1>2. DOMAIN f = 1..n /\ DOMAIN f = 1..Len(f) /\ Len(f) \in Nat
  BY <1>1, LenProperties
<1> QED
  BY <1>1, <1>2

(* The call of frame i, of which the values end below the next one's.      *)
EndOf(i)  == IF i = Len(frames) THEN Len(stack) - Locals ELSE frames[i + 1].slots - 1
CallAt(i) == [method |-> frames[i].closure, this |-> stack[frames[i].slots],
              values |-> Part(stack, frames[i].slots, EndOf(i))]
CallType  == [method : Closures, this : Good, values : Seq(Good)]

Called == /\ Calls \in Seq(CallType) /\ Len(Calls) = Len(frames)
          /\ \A i \in 1..Len(frames) :
               /\ Calls[i] = CallAt(i)
               /\ frames[i].slots <= EndOf(i) /\ EndOf(i) \in 0..Len(stack)

LEMMA CallsAre == RInv => Called
<1> SUFFICES ASSUME RInv PROVE Called
  OBVIOUS
<1>1. Len(frames) \in Nat \ {0} /\ DOMAIN frames = 1..Len(frames) /\ Len(stack) \in Nat
  BY Lengths
<1>2. Locals \in {0, 1} /\ Frontier <= Len(stack) - Locals /\ Frontier \in Nat
  <2>1. Operands = Len(stack) - Frontier /\ Frontier \in Nat /\ Frontier <= Len(stack)
    BY FrameFacts
  <2>2. Framed
    BY DEF RInv
  <2>3. PICK l : l = Locals
    OBVIOUS
  <2>4. l \in {0, 1} /\ (declaring = 0 => l = 0)
    BY <2>3 DEF Locals
  <2>5. declaring # 0 => Operands = l
    BY <2>2, <2>3, Zenon DEF Framed
  <2>6. l = 0 \/ Operands = l
    BY <2>4, <2>5
  <2> QED
    BY <2>1, <2>3, <2>4, <2>6, <1>1
<1>3. ASSUME NEW i \in 1..Len(frames)
      PROVE  /\ frames[i].closure \in Closures /\ frames[i].slots \in 1..Len(stack)
             /\ frames[i].slots <= EndOf(i) /\ EndOf(i) \in 0..Len(stack)
  <2>1. /\ frames[i].closure \in Closures /\ frames[i].slots \in Nat \ {0}
        /\ LastArgument(i) \in Nat /\ frames[i].slots <= LastArgument(i)
        /\ LastArgument(i) <= Frontier
    BY CallFacts
  <2>2. CASE i = Len(frames)
    BY <2>1, <2>2, <1>1, <1>2 DEF EndOf
  <2>3. CASE i # Len(frames)
    <3>1. PICK j : j = i + 1
      OBVIOUS
    <3>0. PICK n \in Nat : n = Len(frames)
      BY <1>1
    <3>2. j \in 1..Len(frames) /\ i \in 1..(j - 1)
      BY <2>3, <3>0, <3>1
    <3>3. LastArgument(i) < frames[j].slots
      BY <3>2 DEF RInv, Framed, GoodFrame
    <3>4. frames[j].slots \in Nat /\ frames[j].slots <= Len(stack)
      BY <3>2, <1>1, <1>2, CallFacts
    <3>5. EndOf(i) = frames[j].slots - 1
      BY <2>3, <3>1 DEF EndOf
    <3> QED
      BY <2>1, <3>3, <3>4, <3>5, <1>1, SMTT(30)
  <2>4. frames[i].slots \in 1..Len(stack)
    <3>1. frames[i].slots <= Len(stack)
      BY <2>1, <1>1, <1>2
    <3> QED
      BY <2>1, <3>1, <1>1
  <2> QED
    BY <2>1, <2>2, <2>3, <2>4
<1>4. ASSUME NEW i \in 1..Len(frames) PROVE CallAt(i) \in CallType
  <2>1. stack \in Seq(Good)
    BY DEF RInv, Valued
  <2>2. PICK a : a = frames[i].slots
    OBVIOUS
  <2>3. PICK b : b = EndOf(i)
    OBVIOUS
  <2>4. b \in 0..Len(stack) /\ a \in 0..b /\ a \in 1..Len(stack)
    BY <1>1, <1>3, <2>2, <2>3
  <2>5. Part(stack, a, b) \in Seq(Good) /\ stack[a] \in Good
    BY <2>1, <2>4, PartFacts, ElementOfSeq
  <2> QED
    BY <1>3, <2>2, <2>3, <2>5 DEF CallAt, CallType
<1>5. Calls = [i \in 1..Len(frames) |-> CallAt(i)]
  BY <1>1 DEF Calls, CallAt, EndOf, Part
<1>6. Calls \in Seq(CallType) /\ Len(Calls) = Len(frames)
  BY <1>1, <1>4, <1>5, RangeIsSeq
<1> QED
  BY <1>3, <1>5, <1>6 DEF Called

LEMMA CallsAreThen == ASSUME RInv' PROVE Called'
<1>1. (RInv => Called)'
  BY CallsAre, PTL
<1> QED
  BY <1>1

(* The calls cs, of which the last one has other values.                   *)
With(cs, values) ==
  Append(Front(cs), [method |-> Last(cs).method, this |-> Last(cs).this,
                     values |-> values])

LEMMA ChangesEnd ==
  ASSUME NEW S, NEW cs \in Seq(S), NEW ds \in Seq(S), Len(cs) > 0, Len(ds) = Len(cs),
         \A i \in 1..(Len(cs) - 1) : ds[i] = cs[i], NEW values,
         ds[Len(cs)] = [method |-> cs[Len(cs)].method, this |-> cs[Len(cs)].this,
                        values |-> values]
  PROVE  ds = With(cs, values)
<1>1. Len(cs) \in Nat \ {0} /\ Len(cs) \in 1..Len(cs)
  BY LenProperties
<1>2. PICK s : s = Front(cs)
  OBVIOUS
<1>3. /\ s \in Seq(S) /\ Len(s) = Len(cs) - 1 /\ Last(cs) = cs[Len(cs)]
      /\ \A i \in 1..(Len(cs) - 1) : s[i] = cs[i]
  BY <1>2, FrontFacts
<1>4. PICK x : x = ds[Len(cs)]
  OBVIOUS
<1>5. x \in S
  BY <1>1, <1>4, ElementOfSeq
<1>6. Len(ds) = Len(s) + 1 /\ \A i \in 1..Len(s) : ds[i] = s[i]
  BY <1>1, <1>3
<1>7. ds = Append(s, x)
  BY <1>3, <1>4, <1>5, <1>6, EndsWith
<1> QED
  BY <1>2, <1>3, <1>4, <1>7 DEF With

(* The promise's operators, so written.                                    *)
LEMMA PromiseForms ==
  /\ Promise!call = Last(Calls)
  /\ \A n : Promise!Caller(n) = With(Calls, Drop(Last(Calls).values, n))
  /\ \A cs, v : Promise!Give(cs, v) = With(cs, Append(Last(cs).values, v))
  /\ \A m, v, n : Promise!WithCall(m, v, n) =
       Append(With(Calls, Drop(Last(Calls).values, n + 1)),
              [method |-> m, this |-> v, values |-> Top(Last(Calls).values, n)])
BY DEF Promise!call, Promise!Caller, Promise!Give, Promise!WithCall, Promise!NewCall,
       Promise!Drop, Promise!Top, Promise!Last, Promise!Front, Last, Front, Drop, Top, With

---------------------------------------------------------------------------
(* What a step of the machine does to the calls.                           *)

LEMMA CommonTypes ==
  ASSUME RInv, RInv'
  PROVE  \E G, S : /\ stack \in Seq(G) /\ stack' \in Seq(G) /\ Good \subseteq G
                   /\ Calls \in Seq(S) /\ Calls' \in Seq(S)
<1>1. stack \in Seq(Good) /\ stack' \in Seq(Good')
  BY DEF RInv, Valued
<1>2. Calls \in Seq(CallType) /\ Calls' \in Seq(CallType')
  BY CallsAre, CallsAreThen DEF Called
<1>3. \A S, T, s : s \in Seq(S) => s \in Seq(S \cup T) /\ s \in Seq(T \cup S)
  BY SeqMonotonic
<1>4. stack \in Seq(Good \cup Good') /\ stack' \in Seq(Good \cup Good')
  BY <1>1, <1>3
<1>5. Calls \in Seq(CallType \cup CallType') /\ Calls' \in Seq(CallType \cup CallType')
  BY <1>2, <1>3
<1> QED
  BY <1>4, <1>5

LEMMA CallFactsThen ==
  ASSUME RInv', NEW i \in 1..Len(frames')
  PROVE  /\ Calls'[i] = CallAt(i)' /\ Len(Calls') = Len(frames')
         /\ frames'[i].slots \in Nat \ {0} /\ Len(frames') \in Nat /\ Len(stack') \in Nat
         /\ frames'[i].slots <= EndOf(i)' /\ EndOf(i)' \in 0..Len(stack')
<1>1. Called'
  BY CallsAreThen
<1>2. frames' \in Seq(FrameType') /\ stack' \in Seq(Good')
  BY DEF RInv, Framed, Valued
<1>3. Len(frames') \in Nat /\ Len(stack') \in Nat
  BY <1>2, LenProperties
<1>4. frames'[i].slots \in Nat \ {0}
  <2>1. frames'[i] \in FrameType'
    BY <1>2, ElementOfSeq
  <2> QED
    BY <2>1 DEF FrameType
<1> QED
  BY <1>1, <1>3, <1>4 DEF Called

(* What lies below slot 0 of call n is not the concern of a step that      *)
(* leaves the stack alone up to there.                                     *)
LEMMA KeepsCalls ==
  ASSUME RInv, RInv', NEW n \in 1..Len(frames), n <= Len(frames'),
         \A i \in 1..n : frames'[i] = frames[i],
         frames[n].slots <= Len(stack'),
         \A p \in 1..frames[n].slots : stack'[p] = stack[p]
  PROVE  /\ \A i \in 1..(n - 1) : Calls'[i] = Calls[i]
         /\ Calls'[n].method = Calls[n].method /\ Calls'[n].this = Calls[n].this
<1>1. PICK G, S : stack \in Seq(G) /\ stack' \in Seq(G)
  BY CommonTypes
<1>2. /\ Len(frames) \in Nat /\ Len(stack) \in Nat /\ n \in Nat
      /\ Called /\ \A i \in 1..Len(frames) : frames[i].slots \in Nat \ {0}
  BY Lengths, CallsAre, CallFacts
<1>3. /\ Len(frames') \in Nat /\ Len(stack') \in Nat /\ n \in 1..Len(frames')
  <2>1. frames' \in Seq(FrameType') /\ stack' \in Seq(Good')
    BY DEF RInv, Framed, Valued
  <2>2. Len(frames') \in Nat /\ Len(stack') \in Nat
    BY <2>1, LenProperties
  <2> QED
    BY <2>2, <1>2
<1>4. PICK t : t = frames[n].slots
  OBVIOUS
<1>5. t \in Nat \ {0} /\ t <= Len(stack') /\ \A p \in 1..t : stack'[p] = stack[p]
  BY <1>2, <1>4
<1>6. ASSUME NEW i \in 1..n PROVE frames[i].slots <= t
  <2>1. CASE i = n
    BY <2>1, <1>4, <1>5
  <2>2. CASE i # n
    <3>1. i \in 1..(n - 1) /\ i \in 1..Len(frames)
      BY <2>2, <1>2
    <3>2. LastArgument(i) < t /\ frames[i].slots <= LastArgument(i) /\ LastArgument(i) \in Nat
      BY <3>1, <1>4, CallFacts DEF RInv, Framed, GoodFrame
    <3> QED
      BY <3>1, <3>2, <1>2, <1>5
  <2> QED
    BY <2>1, <2>2
<1>7. ASSUME NEW i \in 1..(n - 1) PROVE Calls'[i] = Calls[i]
  <2>1. PICK j : j = i + 1
    OBVIOUS
  <2>2. /\ i \in 1..n /\ j \in 1..n /\ i \in 1..Len(frames) /\ i \in 1..Len(frames')
        /\ i # Len(frames) /\ i # Len(frames')
    BY <2>1, <1>2, <1>3
  <2>3. EndOf(i) = frames[j].slots - 1 /\ EndOf(i)' = frames'[j].slots - 1
    BY <2>1, <2>2 DEF EndOf
  <2>4. PICK a : a = frames[i].slots
    OBVIOUS
  <2>5. PICK b : b = frames[j].slots - 1
    OBVIOUS
  <2>6. frames'[i] = frames[i] /\ frames'[j] = frames[j]
    BY <2>2
  <2>7. EndOf(i) = b /\ EndOf(i)' = b
    BY <2>3, <2>5, <2>6
  <2>8. b \in 0..Len(stack) /\ a <= b /\ a \in Nat \ {0}
    BY <2>2, <2>4, <2>7, <1>2 DEF Called
  <2>9. b < t
    <3>1. frames[j].slots <= t /\ frames[j].slots \in Nat
      BY <2>2, <1>2, <1>6
    <3> QED
      BY <3>1, <2>5, <1>5
  <2>10. a \in 0..b /\ b <= Len(stack') /\ \A p \in (a + 1)..b : stack[p] = stack'[p]
    BY <2>8, <2>9, <1>3, <1>5
  <2>11. Part(stack, a, b) = Part(stack', a, b)
    BY <2>8, <2>10, <1>1, SameParts
  <2>12. stack'[a] = stack[a]
    BY <2>8, <2>9, <1>5
  <2>13. Calls[i] = [method |-> frames[i].closure, this |-> stack[a],
                     values |-> Part(stack, a, b)]
    BY <2>2, <2>4, <2>7, <1>2 DEF Called, CallAt
  <2>14. Calls'[i] = [method |-> frames[i].closure, this |-> stack'[a],
                      values |-> Part(stack', a, b)]
    <3>1. Calls'[i] = CallAt(i)'
      BY <2>2, CallFactsThen
    <3> QED
      BY <3>1, <2>4, <2>6, <2>7 DEF CallAt
  <2> QED
    BY <2>11, <2>12, <2>13, <2>14
<1>8. Calls'[n].method = Calls[n].method /\ Calls'[n].this = Calls[n].this
  <2>1. Calls'[n] = CallAt(n)' /\ Calls[n] = CallAt(n) /\ n \in 1..n
    BY <1>2, <1>3, CallFactsThen DEF Called
  <2>2. frames'[n] = frames[n] /\ stack'[t] = stack[t]
    BY <2>1, <1>5
  <2> QED
    BY <2>1, <2>2, <1>4 DEF CallAt
<1> QED
  BY <1>7, <1>8

(* The call that runs, while no class is declared.                         *)
LEMMA TopCall ==
  ASSUME RInv, declaring = 0
  PROVE  /\ Len(Calls) = Len(frames) /\ Len(frames) \in Nat \ {0}
         /\ Last(Calls) = Calls[Len(frames)]
         /\ Last(Calls).method = frame.closure /\ Last(Calls).this = this
         /\ Last(Calls).values = Part(stack, frame.slots, Len(stack))
         /\ Last(Calls).values \in Seq(Good)
         /\ Len(Last(Calls).values) = Len(stack) - frame.slots
         /\ \A n \in Nat : Operands > n =>
              /\ Promise!Value(n) = peek(n) /\ Promise!Value(n) = stack[Len(stack) - n]
              /\ n \in 0..(Len(Last(Calls).values) - 1)
<1>1. Len(Calls) = Len(frames) /\ Len(frames) \in Nat \ {0} /\ Called
  BY Lengths, CallsAre DEF Called
<1>2. Last(Calls) = Calls[Len(frames)] /\ frame = frames[Len(frames)]
  BY <1>1 DEF Last, frame
<1>3. EndOf(Len(frames)) = Len(stack)
  BY Lengths DEF EndOf, Locals
<1>4. /\ Last(Calls).method = frame.closure /\ Last(Calls).this = this
      /\ Last(Calls).values = Part(stack, frame.slots, Len(stack))
  <2>1. Calls[Len(frames)] = CallAt(Len(frames))
    BY <1>1 DEF Called
  <2> QED
    BY <2>1, <1>2, <1>3 DEF CallAt, this
<1>5. PICK a : a = frame.slots
  OBVIOUS
<1>6. PICK b : b = Len(stack)
  OBVIOUS
<1>7. /\ b \in 0..Len(stack) /\ a \in 0..b /\ a \in Nat \ {0} /\ b \in Nat
      /\ stack \in Seq(Good) /\ a <= Frontier /\ Frontier \in Nat
      /\ Operands = b - Frontier
  BY <1>5, <1>6, Lengths, FrameFacts DEF RInv, Valued
<1>8. PICK w : w = Part(stack, a, b)
  OBVIOUS
<1>9. w \in Seq(Good) /\ Len(w) = b - a /\ \A p \in 1..(b - a) : w[p] = stack[a + p]
  BY <1>7, <1>8, PartFacts
<1>10. ASSUME NEW n \in Nat, Operands > n
       PROVE  /\ Promise!Value(n) = peek(n) /\ Promise!Value(n) = stack[Len(stack) - n]
              /\ n \in 0..(Len(Last(Calls).values) - 1)
  <2>1. Promise!Value(n) = w[Len(w) - n]
    BY <1>4, <1>5, <1>6, <1>8 DEF Promise!Value, Promise!call, Promise!Last, Last
  <2>2. PICK p : p = Len(w) - n
    OBVIOUS
  <2>3. p \in 1..(b - a) /\ a + p = b - n /\ n \in 0..(Len(w) - 1)
    BY <2>2, <1>7, <1>9, <1>10
  <2>4. w[p] = stack[b - n]
    BY <2>3, <1>9
  <2> QED
    BY <2>1, <2>2, <2>3, <2>4, <1>4, <1>5, <1>6, <1>8 DEF peek
<1> QED
  BY <1>1, <1>2, <1>4, <1>5, <1>6, <1>8, <1>9, <1>10

LEMMA WithWith ==
  ASSUME NEW S, NEW cs \in Seq(S), Len(cs) > 0, NEW x, NEW y
  PROVE  With(With(cs, x), y) = With(cs, y) /\ Last(With(cs, x)).values = x
<1>1. PICK e : e = [method |-> Last(cs).method, this |-> Last(cs).this, values |-> x]
  OBVIOUS
<1>2. PICK f : f = Front(cs)
  OBVIOUS
<1>3. f \in Seq(S)
  BY <1>2, FrontFacts
<1>4. f \in Seq(S \cup {e})
  BY <1>3, SeqMonotonic
<1>5. Front(Append(f, e)) = f /\ Last(Append(f, e)) = e
  BY <1>4, FrontOfAppend
<1>6. With(cs, x) = Append(f, e)
  BY <1>1, <1>2 DEF With
<1> QED
  BY <1>1, <1>2, <1>5, <1>6 DEF With

(* The calls up to the n-th, of which only this one has other values.      *)
Agree(s, t, n) == \A i \in 1..n : s[i] = t[i]

LEMMA CallsUpTo ==
  ASSUME RInv, RInv', NEW n \in 1..Len(frames), n <= Len(frames'),
         Agree(frames', frames, n), NEW a, a = frames[n].slots,
         a <= Len(stack'), Agree(stack', stack, a),
         NEW S, NEW cs \in Seq(S), Len(cs) = n, Agree(cs, Calls, n),
         NEW ds \in Seq(S), Len(ds) = n, Agree(ds, Calls', n),
         NEW b, EndOf(n)' = b
  PROVE  ds = With(cs, Part(stack', a, b))
<1>0. /\ \A i \in 1..n : frames'[i] = frames[i]
      /\ \A p \in 1..frames[n].slots : stack'[p] = stack[p]
      /\ \A i \in 1..n : cs[i] = Calls[i] /\ ds[i] = Calls'[i]
  BY DEF Agree
<1>1. n \in Nat \ {0} /\ n \in 1..n /\ n \in 1..Len(frames')
  <2>1. frames' \in Seq(FrameType')
    BY DEF RInv, Framed
  <2>2. Len(frames') \in Nat
    BY <2>1, LenProperties
  <2> QED
    BY <2>2, Lengths
<1>2. /\ \A i \in 1..(n - 1) : Calls'[i] = Calls[i]
      /\ Calls'[n].method = Calls[n].method /\ Calls'[n].this = Calls[n].this
  BY <1>0, KeepsCalls
<1>3. PICK w : w = Part(stack', a, b)
  OBVIOUS
<1>4. Calls'[n] = [method |-> Calls[n].method, this |-> Calls[n].this, values |-> w]
  <2>1. Calls'[n] = CallAt(n)' /\ frames'[n] = frames[n]
    BY <1>0, <1>1, CallFactsThen
  <2> QED
    BY <2>1, <1>2, <1>3 DEF CallAt
<1>5. /\ Len(ds) = Len(cs) /\ Len(cs) > 0
      /\ \A i \in 1..(Len(cs) - 1) : ds[i] = cs[i]
      /\ ds[Len(cs)] = [method |-> cs[Len(cs)].method, this |-> cs[Len(cs)].this,
                        values |-> w]
  BY <1>0, <1>1, <1>2, <1>4
<1>6. ds = With(cs, w)
  BY <1>5, ChangesEnd
<1> QED
  BY <1>3, <1>6

LEMMA Heights ==
  ASSUME RInv
  PROVE  /\ frame.slots \in Nat \ {0} /\ Frontier \in Nat /\ Len(stack) \in Nat
         /\ frame.slots <= Frontier /\ Frontier <= Len(stack)
         /\ Operands = Len(stack) - Frontier
BY Lengths, FrameFacts

(* The call that runs goes on, with other operands.                        *)
LEMMA RunsOn ==
  ASSUME RInv, RInv', declaring' = 0, frames' = frames,
         frame.slots <= Len(stack'), \A p \in 1..frame.slots : stack'[p] = stack[p]
  PROVE  Calls' = With(Calls, Part(stack', frame.slots, Len(stack')))
<1>1. PICK G, S : Calls \in Seq(S) /\ Calls' \in Seq(S)
  BY CommonTypes
<1>2. PICK n : n = Len(frames)
  OBVIOUS
<1>3. n \in 1..Len(frames) /\ n <= Len(frames') /\ frame = frames[n] /\ n = Len(frames')
  BY <1>2, Lengths, FrameFacts
<1>4. Len(Calls) = n /\ Len(Calls') = n
  BY <1>2, CallsAre, CallsAreThen DEF Called
<1>5. PICK cs \in Seq(S) : cs = Calls
  BY <1>1
<1>6. PICK ds \in Seq(S) : ds = Calls'
  BY <1>1
<1>7. PICK b : b = EndOf(n)'
  OBVIOUS
<1>8. ds = With(cs, Part(stack', frames[n].slots, b))
  <2>1. PICK a : a = frames[n].slots
    OBVIOUS
  <2>2. /\ Agree(frames', frames, n) /\ Agree(stack', stack, a) /\ a <= Len(stack')
        /\ Agree(cs, Calls, n) /\ Agree(ds, Calls', n) /\ Len(cs) = n /\ Len(ds) = n
    BY <2>1, <1>3, <1>4, <1>5, <1>6 DEF Agree
  <2>3. ds = With(cs, Part(stack', a, b))
    BY <2>1, <2>2, <1>3, <1>7, CallsUpTo
  <2> QED
    BY <2>1, <2>3
<1>9. b = Len(stack')
  <2>1. b = Len(stack') - 0
    BY <1>3, <1>7 DEF EndOf, Locals
  <2>2. PICK m \in Nat : m = Len(stack')
    <3>1. stack' \in Seq(Good')
      BY DEF RInv, Valued
    <3> QED
      BY <3>1, LenProperties
  <2> QED
    BY <2>1, <2>2
<1> QED
  BY <1>3, <1>5, <1>6, <1>8, <1>9

LEMMA CallerGives ==
  ASSUME RInv, NEW k, NEW v
  PROVE  Promise!Give(Promise!Caller(k), v)
           = With(Calls, Append(Drop(Last(Calls).values, k), v))
<1>1. Calls \in Seq(CallType) /\ Len(Calls) > 0
  BY Lengths, CallsAre DEF Called
<1>2. PICK cs \in Seq(CallType) : cs = Calls /\ Len(cs) > 0
  BY <1>1
<1>3. PICK d : d = Drop(Last(Calls).values, k)
  OBVIOUS
<1>4. PICK w : w = Append(d, v)
  OBVIOUS
<1>5. With(With(cs, d), w) = With(cs, w) /\ Last(With(cs, d)).values = d
  BY <1>2, WithWith
<1>6. Promise!Caller(k) = With(cs, d)
  BY <1>2, <1>3, PromiseForms
<1>7. Promise!Give(With(cs, d), v) = With(With(cs, d), w)
  BY <1>4, <1>5, PromiseForms
<1> QED
  BY <1>2, <1>3, <1>4, <1>5, <1>6, <1>7

(* An instruction leaves v in the place of k operands.                     *)
LEMMA ReplacesOperands ==
  ASSUME RInv, RInv', declaring = 0, declaring' = 0, frames' = frames,
         NEW k \in Nat, k <= Operands, NEW v, Len(stack') = Len(stack) - k + 1,
         \A p \in 1..(Len(stack) - k) : stack'[p] = stack[p], stack'[Len(stack')] = v
  PROVE  Calls' = With(Calls, Append(Drop(Last(Calls).values, k), v))
<1>1. PICK G, S : stack \in Seq(G) /\ stack' \in Seq(G)
  BY CommonTypes
<1>2. PICK a : a = frame.slots
  OBVIOUS
<1>3. PICK b : b = Len(stack)
  OBVIOUS
<1>4. PICK c : c = b - k
  OBVIOUS
<1>5. /\ b \in 0..Len(stack) /\ b \in Nat /\ a \in 0..b /\ a \in Nat \ {0}
      /\ c \in 0..Len(stack) /\ a \in 0..c /\ c \in Nat /\ k \in 0..(b - a)
  BY <1>2, <1>3, <1>4, Heights
<1>6. Len(stack') = c + 1 /\ \A p \in 1..c : stack'[p] = stack[p]
  BY <1>3, <1>4
<1>7. stack'[c + 1] = v
  BY <1>6
<1>8. frame.slots <= Len(stack') /\ \A p \in 1..frame.slots : stack'[p] = stack[p]
  BY <1>2, <1>5, <1>6
<1>9. Calls' = With(Calls, Part(stack', a, c + 1))
  BY <1>2, <1>6, <1>8, RunsOn
<1>10. Last(Calls).values = Part(stack, a, b)
  BY <1>2, <1>3, TopCall
<1>11. Drop(Part(stack, a, b), k) = Part(stack, a, c)
  BY <1>1, <1>4, <1>5, DropPart
<1>12. c + 1 <= Len(stack') /\ \A p \in (a + 1)..c : stack'[p] = stack[p]
  BY <1>5, <1>6
<1>13. Part(stack', a, c + 1) = Append(Part(stack, a, c), stack'[c + 1])
  BY <1>1, <1>5, <1>12, AppendToPart
<1> QED
  BY <1>7, <1>9, <1>10, <1>11, <1>13

(* An instruction drops an operand.                                        *)
LEMMA DropsOperand ==
  ASSUME RInv, RInv', declaring = 0, declaring' = 0, frames' = frames,
         Operands > 0, Len(stack') = Len(stack) - 1,
         \A p \in 1..(Len(stack) - 1) : stack'[p] = stack[p]
  PROVE  Calls' = Promise!Caller(1)
<1>1. PICK G, S : stack \in Seq(G) /\ stack' \in Seq(G)
  BY CommonTypes
<1>2. PICK a : a = frame.slots
  OBVIOUS
<1>3. PICK b : b = Len(stack)
  OBVIOUS
<1>4. PICK c : c = b - 1
  OBVIOUS
<1>5. /\ b \in 0..Len(stack) /\ b \in Nat /\ a \in 0..b /\ a \in Nat \ {0}
      /\ c \in 0..Len(stack) /\ a \in 0..c /\ c \in Nat /\ 1 \in 0..(b - a)
  BY <1>2, <1>3, <1>4, Heights
<1>6. Len(stack') = c /\ \A p \in 1..c : stack'[p] = stack[p]
  BY <1>3, <1>4
<1>7. frame.slots <= Len(stack') /\ \A p \in 1..frame.slots : stack'[p] = stack[p]
  BY <1>2, <1>5, <1>6
<1>8. Calls' = With(Calls, Part(stack', a, c))
  BY <1>2, <1>6, <1>7, RunsOn
<1>9. Last(Calls).values = Part(stack, a, b)
  BY <1>2, <1>3, TopCall
<1>10. Drop(Part(stack, a, b), 1) = Part(stack, a, c)
  BY <1>1, <1>4, <1>5, DropPart
<1>11. c <= Len(stack') /\ \A p \in (a + 1)..c : stack[p] = stack'[p]
  BY <1>5, <1>6
<1>12. Part(stack, a, c) = Part(stack', a, c)
  BY <1>1, <1>5, <1>11, SameParts
<1> QED
  BY <1>8, <1>9, <1>10, <1>12, PromiseForms

(* A call begins, with v in slot 0 and n arguments above it.               *)
LEMMA EntersCall ==
  ASSUME RInv, RInv', declaring = 0, declaring' = 0,
         NEW n \in Nat, Frontier + n < Len(stack), NEW m, NEW v,
         frames' = Append(frames, [closure |-> m, slots |-> Len(stack) - n]),
         m \in Closures, IsPut(stack', stack, Len(stack) - n, v)
  PROVE  Calls' = Promise!WithCall(m, v, n)
<1>1. PICK G, S : /\ stack \in Seq(G) /\ stack' \in Seq(G)
                  /\ Calls \in Seq(S) /\ Calls' \in Seq(S)
  BY CommonTypes
<1>2. PICK l : l = Len(frames)
  OBVIOUS
<1>3. PICK a : a = frame.slots
  OBVIOUS
<1>4. PICK b : b = Len(stack)
  OBVIOUS
<1>5. PICK q : q = b - n
  OBVIOUS
<1>6. PICK c : c = q - 1
  OBVIOUS
<1>7. /\ l \in 1..Len(frames) /\ l \in Nat \ {0} /\ frame = frames[l]
      /\ b \in 0..Len(stack) /\ b \in Nat /\ a \in 0..b /\ a \in Nat \ {0}
      /\ q \in 1..b /\ c \in 0..Len(stack) /\ a \in 0..c /\ c \in Nat
      /\ n + 1 \in 0..(b - a) /\ n \in 0..(b - a) /\ c = b - (n + 1)
  <2>1. l \in 1..Len(frames) /\ l \in Nat \ {0} /\ frame = frames[l]
    BY <1>2, Lengths, FrameFacts
  <2>2. PICK h \in Nat : h = Frontier
    BY Heights
  <2>3. a \in Nat \ {0} /\ a <= h /\ h + n < b /\ b \in Nat
    BY <1>3, <1>4, <2>2, Heights
  <2>4. q \in 1..b /\ a \in 0..c /\ c \in 0..b /\ c = b - (n + 1)
    BY <1>5, <1>6, <2>2, <2>3
  <2>5. n + 1 \in 0..(b - a) /\ n \in 0..(b - a) /\ a \in 0..b /\ b \in 0..b
    BY <2>2, <2>3
  <2> QED
    BY <1>4, <2>1, <2>3, <2>4, <2>5
<1>8. PICK k : k = l + 1
  OBVIOUS
<1>9. PICK e : e = [closure |-> m, slots |-> q]
  OBVIOUS
<1>10. /\ Len(frames') = k /\ frames'[k] = e /\ \A i \in 1..l : frames'[i] = frames[i]
  <2>1. e \in FrameType
    BY <1>7, <1>9 DEF FrameType
  <2>2. frames' = Append(frames, e) /\ frames \in Seq(FrameType)
    BY <1>4, <1>5, <1>9 DEF RInv, Framed
  <2> QED
    BY <2>1, <2>2, <1>2, <1>8, AppendProperties
<1>11. Len(stack') = b /\ \A p \in 1..b : stack'[p] = IF p = q THEN v ELSE stack[p]
  BY <1>4, <1>5 DEF IsPut
<1>12. PICK w : w = Part(stack, a, b)
  OBVIOUS
<1>13. w = Last(Calls).values
  BY <1>3, <1>4, <1>12, TopCall
<1>14. Part(stack', a, c) = Drop(w, n + 1)
  <2>1. c <= Len(stack') /\ \A p \in (a + 1)..c : stack[p] = stack'[p]
    <3>1. c < q /\ c <= b /\ \A p \in (a + 1)..c : p \in 1..b /\ p # q
      BY <1>6, <1>7
    <3> QED
      BY <3>1, <1>11
  <2>2. Part(stack, a, c) = Part(stack', a, c)
    BY <2>1, <1>1, <1>7, SameParts
  <2>3. PICK j : j = n + 1
    OBVIOUS
  <2>4. Drop(Part(stack, a, b), j) = Part(stack, a, b - j)
    BY <2>3, <1>1, <1>7, DropPart
  <2> QED
    BY <2>2, <2>3, <2>4, <1>7, <1>12
<1>15. Part(stack', q, b) = Top(w, n)
  <2>1. \A p \in (q + 1)..b : stack[p] = stack'[p]
    BY <1>7, <1>11
  <2>2. q \in 0..b /\ b <= Len(stack')
    BY <1>7, <1>11
  <2>3. Part(stack, q, b) = Part(stack', q, b)
    BY <2>1, <2>2, <1>1, <1>7, SameParts
  <2>4. Top(Part(stack, a, b), n) = Part(stack, b - n, b)
    BY <1>1, <1>7, TopPart
  <2> QED
    BY <2>3, <2>4, <1>5, <1>12
<1>16. PICK cs \in Seq(S) : cs = Calls
  BY <1>1
<1>17. PICK ds \in Seq(S) : ds = Calls'
  BY <1>1
<1>18. Len(cs) = l /\ Len(ds) = k /\ Len(ds) > 0 /\ k \in 1..Len(frames') /\ k - 1 = l
  BY <1>2, <1>7, <1>8, <1>10, <1>16, <1>17, CallsAre, CallsAreThen DEF Called
<1>19. PICK f : f = Front(ds)
  OBVIOUS
<1>20. f \in Seq(S) /\ Len(f) = l /\ \A i \in 1..l : f[i] = ds[i]
  BY <1>18, <1>19, FrontFacts
<1>21. f = With(cs, Part(stack', a, c))
  <2>1. /\ l <= Len(frames') /\ frames[l].slots = a /\ a <= Len(stack')
        /\ \A p \in 1..a : stack'[p] = stack[p]
    <3>1. a <= b /\ \A p \in 1..a : p \in 1..b /\ p # q
      BY <1>6, <1>7
    <3>2. l <= Len(frames') /\ frames[l].slots = a
      BY <1>3, <1>7, <1>8, <1>10
    <3> QED
      BY <3>1, <3>2, <1>11
  <2>2. EndOf(l)' = c
    <3>1. l # Len(frames') /\ frames'[l + 1].slots = q
      BY <1>7, <1>8, <1>9, <1>10
    <3> QED
      BY <3>1, <1>6 DEF EndOf
  <2>3. /\ Agree(frames', frames, l) /\ Agree(stack', stack, a)
        /\ Agree(cs, Calls, l) /\ Agree(f, Calls', l)
    BY <2>1, <1>10, <1>16, <1>17, <1>20 DEF Agree
  <2>4. f \in Seq(S) /\ Len(f) = l /\ Len(cs) = l /\ l \in 1..Len(frames)
    BY <1>7, <1>18, <1>20
  <2> QED
    BY <2>1, <2>2, <2>3, <2>4, CallsUpTo, SMTT(30)
<1>22. ds[k] = [method |-> m, this |-> v, values |-> Part(stack', q, b)]
  <2>1. Calls'[k] = CallAt(k)'
    BY <1>18, CallFactsThen
  <2>2. EndOf(k)' = b
    <3>1. EndOf(k)' = Len(stack') - 0
      BY <1>10 DEF EndOf, Locals
    <3> QED
      BY <3>1, <1>7, <1>11
  <2>3. frames'[k].closure = m /\ frames'[k].slots = q /\ stack'[q] = v
    BY <1>7, <1>9, <1>10, <1>11
  <2> QED
    BY <2>1, <2>2, <2>3, <1>17 DEF CallAt
<1>23. PICK x : x = ds[k]
  OBVIOUS
<1>24. ds = Append(f, x)
  <2>1. x \in S
    BY <1>10, <1>18, <1>23, ElementOfSeq
  <2>2. Len(ds) = Len(f) + 1 /\ ds[Len(ds)] = x /\ \A i \in 1..Len(f) : ds[i] = f[i]
    BY <1>8, <1>18, <1>20, <1>23
  <2> QED
    BY <2>1, <2>2, <1>20, EndsWith
<1>25. Promise!WithCall(m, v, n) =
         Append(With(Calls, Drop(w, n + 1)),
                [method |-> m, this |-> v, values |-> Top(w, n)])
  BY <1>13, PromiseForms
<1> QED
  BY <1>14, <1>15, <1>16, <1>17, <1>21, <1>22, <1>23, <1>24, <1>25

(* The call that runs ends, and v goes to its caller.                      *)
LEMMA ReturnsCall ==
  ASSUME RInv, RInv', declaring' = 0, Len(frames) > 1, NEW v,
         frames' = Front(frames), Len(stack') = frame.slots,
         \A p \in 1..(frame.slots - 1) : stack'[p] = stack[p],
         stack'[frame.slots] = v
  PROVE  Calls' = Promise!Give(Front(Calls), v)
<1>1. PICK G, S : /\ stack \in Seq(G) /\ stack' \in Seq(G)
                  /\ Calls \in Seq(S) /\ Calls' \in Seq(S)
  BY CommonTypes
<1>2. PICK l : l = Len(frames)
  OBVIOUS
<1>3. PICK n : n = l - 1
  OBVIOUS
<1>4. /\ l \in 1..Len(frames) /\ l \in Nat \ {0} /\ frame = frames[l]
      /\ n \in 1..Len(frames) /\ n \in 1..(l - 1) /\ n + 1 = l /\ n # Len(frames)
      /\ n \in Nat \ {0}
  BY <1>2, <1>3, Lengths, FrameFacts
<1>5. PICK a : a = frames[n].slots
  OBVIOUS
<1>6. PICK t : t = frame.slots
  OBVIOUS
<1>7. PICK b : b = t - 1
  OBVIOUS
<1>8. /\ t \in Nat \ {0} /\ a \in Nat \ {0} /\ a \in 0..b /\ b \in 0..Len(stack)
      /\ t = b + 1 /\ b \in Nat
  <2>1. a <= LastArgument(n) /\ LastArgument(n) \in Nat /\ a \in Nat \ {0}
    BY <1>4, <1>5, CallFacts
  <2>2. LastArgument(n) < t
    BY <1>2, <1>4, <1>6 DEF RInv, Framed, GoodFrame
  <2>3. t \in Nat \ {0} /\ t <= Len(stack) /\ Len(stack) \in Nat
    BY <1>6, Lengths, FrameFacts
  <2> QED
    BY <1>7, <2>1, <2>2, <2>3
<1>9. Len(stack') = b + 1 /\ stack'[b + 1] = v /\ \A p \in 1..b : stack'[p] = stack[p]
  BY <1>6, <1>7, <1>8
<1>10. Len(frames') = n /\ \A i \in 1..n : frames'[i] = frames[i]
  <2>1. frames \in Seq(FrameType) /\ Len(frames) > 0
    BY <1>4, <1>2 DEF RInv, Framed
  <2> QED
    BY <2>1, <1>2, <1>3, FrontFacts
<1>11. PICK cs : cs = Front(Calls)
  OBVIOUS
<1>12. /\ cs \in Seq(S) /\ Len(cs) = n /\ \A i \in 1..n : cs[i] = Calls[i]
  <2>1. Len(Calls) = l /\ Len(Calls) > 0
    BY <1>2, <1>4, CallsAre DEF Called
  <2> QED
    BY <2>1, <1>1, <1>3, <1>11, FrontFacts
<1>13. PICK ds \in Seq(S) : ds = Calls'
  BY <1>1
<1>14. Len(ds) = n /\ \A i \in 1..n : ds[i] = Calls'[i]
  BY <1>10, <1>13, CallsAreThen DEF Called
<1>15. EndOf(n)' = t
  <2>1. EndOf(n)' = Len(stack') - 0
    BY <1>10 DEF EndOf, Locals
  <2> QED
    BY <2>1, <1>6, <1>8
<1>16. ds = With(cs, Part(stack', a, t))
  <2>1. /\ frames[n].slots <= Len(stack')
        /\ \A p \in 1..frames[n].slots : stack'[p] = stack[p]
    BY <1>5, <1>8, <1>9
  <2>2. n <= Len(frames') /\ n \in 1..Len(frames)
    BY <1>4, <1>10
  <2>3. /\ Agree(frames', frames, n) /\ Agree(stack', stack, a) /\ a <= Len(stack')
        /\ Agree(cs, Calls, n) /\ Agree(ds, Calls', n)
    BY <2>1, <1>5, <1>10, <1>12, <1>14 DEF Agree
  <2> QED
    BY <2>2, <2>3, <1>5, <1>12, <1>14, <1>15, CallsUpTo
<1>17. Last(cs).values = Part(stack, a, b)
  <2>1. Last(cs) = Calls[n]
    BY <1>4, <1>12 DEF Last
  <2>2. Calls[n] = CallAt(n)
    BY <1>4, CallsAre DEF Called
  <2>3. EndOf(n) = b
    BY <1>4, <1>6, <1>7 DEF EndOf
  <2> QED
    BY <2>1, <2>2, <2>3, <1>5 DEF CallAt
<1>18. Part(stack', a, t) = Append(Part(stack, a, b), v)
  <2>1. b + 1 <= Len(stack') /\ \A p \in (a + 1)..b : stack'[p] = stack[p]
    BY <1>8, <1>9
  <2>2. Part(stack', a, b + 1) = Append(Part(stack, a, b), stack'[b + 1])
    BY <2>1, <1>1, <1>8, AppendToPart
  <2> QED
    BY <2>2, <1>8, <1>9
<1>19. Promise!Give(cs, v) = With(cs, Append(Last(cs).values, v))
  BY PromiseForms
<1> QED
  BY <1>11, <1>13, <1>16, <1>17, <1>18, <1>19

(* A script that ends is followed by the next one.                         *)
LEMMA Restarts ==
  ASSUME RInv, RInv', interpret, UNCHANGED instances
  PROVE  Promise!NextScript
<1>1. /\ stack' = <<Script>> /\ declaring' = 0 /\ instances' = instances
      /\ frames' = <<[closure |-> Script.method, slots |-> 1]>>
  BY DEF interpret
<1>2. Len(frames') = 1 /\ 1 \in 1..Len(frames') /\ Len(stack') = 1
  BY <1>1
<1>3. Calls'[1] = CallAt(1)' /\ Len(Calls') = 1
  BY <1>2, CallFactsThen
<1>4. EndOf(1)' = 1
  BY <1>1, <1>2 DEF EndOf, Locals
<1>5. Part(stack', 1, 1) = <<>>
  <2>1. stack' \in Seq(Good') /\ 1 \in 0..Len(stack') /\ 1 \in 0..1
    BY <1>2 DEF RInv, Valued
  <2>2. Part(stack', 1, 1) \in Seq(Good') /\ Len(Part(stack', 1, 1)) = 1 - 1
    BY <2>1, PartFacts
  <2> QED
    BY <2>2, EmptySeq
<1>6. PICK x : x = [method |-> Script.method, this |-> Script, values |-> <<>>]
  OBVIOUS
<1>7. Calls'[1] = x
  BY <1>1, <1>3, <1>4, <1>5, <1>6 DEF CallAt
<1>8. Calls' = <<x>>
  <2>1. Calls' \in Seq(CallType')
    BY CallsAreThen DEF Called
  <2>2. PICK s \in Seq(CallType') : s = Calls'
    BY <2>1
  <2>3. Len(s) = 1 /\ s[1] = x
    BY <2>2, <1>3, <1>7
  <2> QED
    BY <2>2, <2>3
<1>9. Heap' = Heap
  BY <1>1 DEF Heap
<1> QED
  BY <1>1, <1>6, <1>8, <1>9 DEF Promise!NextScript, Promise!NewCall, Promise!Script,
     Promise!Method, Script, Method

---------------------------------------------------------------------------
(* The objects.                                                            *)

HeapType == [class : 1..Len(methods), fields : [Names -> Good \cup {None}]]

LEMMA HeapFacts ==
  ASSUME RInv
  PROVE  /\ Heap \in Seq(HeapType) /\ Len(Heap) = Len(instances)
         /\ DOMAIN Heap = 1..Len(instances)
         /\ \A i \in 1..Len(instances) :
              Heap[i] = [class |-> instances[i].klass, fields |-> instances[i].fields]
<1>1. DOMAIN instances = 1..Len(instances) /\ Len(instances) \in Nat
  BY Lengths
<1>2. Heap = [i \in 1..Len(instances) |-> [class |-> instances[i].klass,
                                           fields |-> instances[i].fields]]
  BY <1>1 DEF Heap
<1>3. Heap \in [1..Len(instances) -> HeapType]
  BY <1>2, ObjectFacts DEF HeapType
<1>4. Heap \in Seq(HeapType) /\ Len(Heap) = Len(instances)
  BY <1>1, <1>3, RangeIsSeq
<1> QED
  BY <1>2, <1>4

LEMMA HeapFactsThen ==
  ASSUME RInv'
  PROVE  /\ Len(Heap') = Len(instances') /\ DOMAIN Heap' = 1..Len(instances')
         /\ \E S : Heap' \in Seq(S)
         /\ \A i \in 1..Len(instances') :
              Heap'[i] = [class |-> instances'[i].klass, fields |-> instances'[i].fields]
<1>1. instances' \in Seq(ObjectType')
  BY DEF RInv, Valued
<1>2. DOMAIN instances' = 1..Len(instances') /\ Len(instances') \in Nat
  BY <1>1, LenProperties
<1>3. Heap' = [i \in 1..Len(instances') |-> [class |-> instances'[i].klass,
                                             fields |-> instances'[i].fields]]
  BY <1>2 DEF Heap
<1>4. PICK S : S = {[class |-> instances'[i].klass, fields |-> instances'[i].fields]
                     : i \in 1..Len(instances')}
  OBVIOUS
<1>5. Heap' \in [1..Len(instances') -> S]
  BY <1>3, <1>4
<1>6. Heap' \in Seq(S) /\ Len(Heap') = Len(instances')
  BY <1>2, <1>5, RangeIsSeq
<1> QED
  BY <1>3, <1>6

LEMMA MakesInHeap ==
  ASSUME RInv, RInv', NEW c \in 1..Len(methods),
         instances' = Append(instances, [klass |-> c, fields |-> NoFields])
  PROVE  Heap' = Append(Heap, [class |-> c, fields |-> NoFields])
<1>1. PICK o : o = [klass |-> c, fields |-> NoFields]
  OBVIOUS
<1>2. o \in ObjectType
  BY <1>1 DEF ObjectType, NoFields
<1>3. instances \in Seq(ObjectType) /\ instances' = Append(instances, o)
  BY <1>1 DEF RInv, Valued
<1>4. /\ Len(instances') = Len(instances) + 1 /\ instances'[Len(instances) + 1] = o
      /\ \A i \in 1..Len(instances) : instances'[i] = instances[i]
  BY <1>2, <1>3, AppendProperties
<1>5. PICK S : Heap' \in Seq(S)
  BY HeapFactsThen
<1>6. PICK T : T = S \cup HeapType
  OBVIOUS
<1>7. PICK x : x = [class |-> c, fields |-> NoFields]
  OBVIOUS
<1>8. x \in HeapType
  BY <1>7 DEF HeapType, NoFields
<1>9. PICK h : h = Heap
  OBVIOUS
<1>10. PICK g : g = Heap'
  OBVIOUS
<1>11. h \in Seq(HeapType) /\ g \in Seq(S)
  BY <1>5, <1>9, <1>10, HeapFacts
<1>12. h \in Seq(T) /\ g \in Seq(T) /\ x \in T
  <2>1. HeapType \subseteq T /\ S \subseteq T
    BY <1>6, SMTT(30)
  <2> QED
    BY <2>1, <1>8, <1>11, SeqMonotonic
<1>13. PICK n \in Nat : n = Len(instances)
  BY Lengths
<1>14. Len(h) = n /\ Len(g) = n + 1
  BY <1>4, <1>9, <1>10, <1>13, HeapFacts, HeapFactsThen
<1>15. g[n + 1] = x
  <2>1. n + 1 \in 1..Len(instances')
    BY <1>4, <1>13
  <2> QED
    BY <2>1, <1>1, <1>4, <1>7, <1>10, <1>13, HeapFactsThen
<1>16. \A i \in 1..n : g[i] = h[i]
  <2> SUFFICES ASSUME NEW i \in 1..n PROVE g[i] = h[i]
    OBVIOUS
  <2>1. i \in 1..Len(instances') /\ i \in 1..Len(instances)
    BY <1>4, <1>13
  <2>2. h[i] = [class |-> instances[i].klass, fields |-> instances[i].fields]
    BY <2>1, <1>9, HeapFacts
  <2>3. g[i] = [class |-> instances'[i].klass, fields |-> instances'[i].fields]
    BY <2>1, <1>10, HeapFactsThen
  <2> QED
    BY <2>1, <2>2, <2>3, <1>4
<1>17. g = Append(h, x)
  BY <1>12, <1>14, <1>15, <1>16, EndsWith
<1> QED
  BY <1>7, <1>9, <1>10, <1>17

SetsField(i, name, v) == instances' = [instances EXCEPT ![i].fields[name] = v]
SetsSlot(i, name, v)  == Heap' = [Heap EXCEPT ![i].fields[name] = v]

LEMMA SetsInHeap ==
  ASSUME RInv, RInv', NEW i \in 1..Len(instances), NEW name \in Names, NEW v,
         SetsField(i, name, v)
  PROVE  SetsSlot(i, name, v)
<1>0. instances' = [instances EXCEPT ![i].fields[name] = v]
  BY DEF SetsField
<1>1. /\ DOMAIN instances = 1..Len(instances)
      /\ \A j \in 1..Len(instances) : instances[j] \in ObjectType
  BY Lengths, ElementOfSeq DEF RInv, Valued
<1>2. DOMAIN instances' = 1..Len(instances)
  BY <1>0, <1>1
<1>3. \A j \in 1..Len(instances) :
        /\ instances'[j].klass = instances[j].klass
        /\ instances'[j].fields = IF j = i THEN [instances[i].fields EXCEPT ![name] = v]
                                  ELSE instances[j].fields
  BY <1>0, <1>1 DEF ObjectType
<1>4. Heap' = [j \in 1..Len(instances) |-> [class |-> instances'[j].klass,
                                            fields |-> instances'[j].fields]]
  BY <1>2 DEF Heap
<1>5. Heap = [j \in 1..Len(instances) |-> [class |-> instances[j].klass,
                                           fields |-> instances[j].fields]]
  BY <1>1 DEF Heap
<1> QED
  BY <1>3, <1>4, <1>5 DEF SetsSlot

---------------------------------------------------------------------------
(* Calls and properties, as promised.                                      *)

LEMMA SameNames ==
  /\ \A c, name : Promise!Method(c, name) = Method(c, name)
  /\ Promise!NoMethod = NoMethod /\ Promise!None = None
  /\ Promise!Script = Script /\ Promise!Function = Function /\ Promise!nil = nil
  /\ Promise!NoFields = NoFields /\ Promise!NoMethods = NoMethods
  /\ \A i : Promise!Instance(i) = Instance(i)
  /\ \A c : Promise!Class(c) = Class(c)
  /\ \A r, m : Promise!Bound(r, m) = Bound(r, m)
  /\ \A m : Promise!ArityOf(m) = ArityOf(m)
BY DEF Promise!Method, Promise!NoMethod, Promise!None, Promise!Script, Promise!Function,
       Promise!nil, Promise!NoFields, Promise!NoMethods, Promise!Instance, Promise!Class,
       Promise!Bound, Promise!ArityOf, Method, NoMethod, None, Script, Function, nil,
       NoFields, NoMethods, Instance, Class, Bound, ArityOf

LEMMA NoneIsNoValue ==
  /\ None \notin Good
  /\ \A r, m : Bound(r, m) # None /\ Bound(r, m).kind = "bound"
               /\ Bound(r, m).receiver = r /\ Bound(r, m).method = m
<1>1. None \notin Good
  <2>1. \A v \in Good : v.kind \in {"nil", "closure", "class", "instance", "bound"}
    BY DEF Good, nil, Script, Function, Class, Instances, Instance, BoundMethods, Bound
  <2>2. None.kind = "none"
    BY DEF None
  <2>3. \A v \in Good : v.kind # None.kind
    BY <2>1, <2>2
  <2> QED
    BY <2>3
<1>2. \A r, m : Bound(r, m) # None /\ Bound(r, m).kind = "bound"
               /\ Bound(r, m).receiver = r /\ Bound(r, m).method = m
  <2>1. None.kind = "none"
    BY DEF None
  <2>2. \A r, m : Bound(r, m).kind = "bound" /\ Bound(r, m).receiver = r
                  /\ Bound(r, m).method = m
    BY DEF Bound
  <2> QED
    BY <2>1, <2>2
<1> QED
  BY <1>1, <1>2

(* getProperty and invoke look for the same things in the same order.      *)
LEMMA PropertyOfObject ==
  ASSUME RInv, NEW i \in 1..Len(instances), NEW name \in Names, NEW f, NEW m,
         f = instances[i].fields[name], m = FindMethod(instances[i].klass, name)
  PROVE  Promise!Property(Instance(i), name) =
           IF f # None THEN f ELSE IF m # NoMethod THEN Bound(Instance(i), m) ELSE None
<1>1. instances[i].klass \in 0..Len(methods)
  BY ObjectFacts, Lengths
<1>2. Heap[i].fields[name] = f /\ Heap[i].class = instances[i].klass
  BY HeapFacts
<1>3. Promise!Lookup[Heap[i].class][name] = m
  BY <1>1, <1>2, LookupIs
<1>4. PICK v : v = Instance(i)
  OBVIOUS
<1>5. v.kind = "instance" /\ v.id = i
  BY <1>4 DEF Instance
<1>6. Promise!Property(v, name) =
        IF f # None THEN f ELSE IF m # NoMethod THEN Bound(v, m) ELSE None
  BY <1>2, <1>3, <1>5, SameNames DEF Promise!Property
<1> QED
  BY <1>4, <1>6

LEMMA NoProperty ==
  ASSUME NEW v, NEW name, v.kind # "instance"
  PROVE  Promise!Property(v, name) = None
BY SameNames DEF Promise!Property

LEMMA EntersAsPromised ==
  ASSUME RInv, RInv', declaring = 0, NEW n \in Nat, Frontier + n < Len(stack),
         NEW m \in Closures, NEW s, NEW v, Len(s) = Len(stack),
         IsPut(s, stack, Len(stack) - n, v), call(m, s, n)
  PROVE  Promise!Enter(m, v, n)
<1>1. Promise!Refused(m, n) <=> n # ArityOf(m) \/ Len(frames) = FRAMES_MAX
  BY SameNames, TopCall DEF Promise!Refused
<1>2. CASE n # ArityOf(m) \/ Len(frames) = FRAMES_MAX
  <2>1. interpret /\ UNCHANGED instances
    BY <1>2 DEF call, runtimeError
  <2> QED
    BY <2>1, <1>1, <1>2, Restarts DEF Promise!Enter
<1>3. CASE ~(n # ArityOf(m) \/ Len(frames) = FRAMES_MAX)
  <2>1. /\ stack' = s /\ declaring' = 0 /\ declaring' = declaring /\ instances' = instances
        /\ frames' = Append(frames, [closure |-> m, slots |-> Len(stack) - n])
    BY <1>3 DEF call
  <2>2. IsPut(stack', stack, Len(stack) - n, v)
    BY <2>1
  <2>3. Calls' = Promise!WithCall(m, v, n)
    BY <2>1, <2>2, EntersCall
  <2>4. Heap' = Heap
    BY <2>1 DEF Heap
  <2> QED
    BY <2>1, <2>3, <2>4, <1>1, <1>3 DEF Promise!Enter
<1> QED
  BY <1>2, <1>3

(* The stack of a call of v: the machine has put v below the arguments.    *)
CalledOn(s, v, n) == s \in Seq(Good) /\ Len(s) = Len(stack)
                     /\ IsPut(s, stack, Len(stack) - n, v)

LEMMA PutAgain ==
  ASSUME RInv, NEW n \in Nat, n < Len(stack), NEW v, NEW s, CalledOn(s, v, n), NEW w
  PROVE  /\ Len(Slot0(s, n, w)) = Len(stack)
         /\ IsPut(Slot0(s, n, w), stack, Len(stack) - n, w)
         /\ w \in Good => CalledOn(Slot0(s, n, w), w, n)
<1>1. PICK G : G = Good \cup {w}
  OBVIOUS
<1>2. s \in Seq(Good) /\ Len(s) = Len(stack) /\ IsPut(s, stack, Len(stack) - n, v)
      /\ Len(stack) \in Nat
  BY Lengths DEF CalledOn
<1>3. s \in Seq(G) /\ w \in G
  BY <1>1, <1>2, SeqMonotonic
<1>4. PICK t : t = Slot0(s, n, w)
  OBVIOUS
<1>5. t \in Seq(G) /\ IsPut(t, s, Len(s) - n, w)
  BY <1>2, <1>3, <1>4, Slot0Facts
<1>6. IsPut(t, stack, Len(stack) - n, w) /\ Len(t) = Len(stack)
  BY <1>2, <1>5 DEF IsPut
<1>7. w \in Good => t \in Seq(Good)
  BY <1>2, <1>4, Slot0Facts
<1> QED
  BY <1>4, <1>6, <1>7 DEF CalledOn

LEMMA ConstructsAsPromised ==
  ASSUME RInv, RInv', NoClass, declaring = 0, NEW n \in Nat, Frontier + n < Len(stack),
         NEW c \in 1..Len(methods), NEW s, NEW v, CalledOn(s, v, n),
         callValue(Class(c), s, n)
  PROVE  Promise!Construct(c, n)
<1>1. PICK m : m = FindMethod(c, init)
  OBVIOUS
<1>2. PICK new : new = Len(instances) + 1
  OBVIOUS
<1>3. PICK fails : fails = (\/ n # IF m # NoMethod THEN ArityOf(m) ELSE 0
                            \/ m # NoMethod /\ Len(frames) = FRAMES_MAX)
  OBVIOUS
<1>4. IF fails THEN runtimeError
      ELSE /\ stack' = Slot0(s, n, Instance(new))
           /\ frames' = IF m = NoMethod THEN frames
                        ELSE Append(frames, [closure |-> m, slots |-> Len(s) - n])
           /\ instances' = Append(instances, [klass |-> c, fields |-> NoFields])
           /\ declaring' = declaring
  BY <1>1, <1>2, <1>3 DEF callValue, Class
<1>5. /\ Promise!Lookup[c][init] = m /\ Len(Heap) + 1 = new
      /\ Promise!Refused(m, n) <=> n # ArityOf(m) \/ Len(frames) = FRAMES_MAX
  <2>1. c \in 0..Len(methods) /\ init \in Names
    BY Lengths, ValuesAssumption
  <2> QED
    BY <2>1, <1>1, <1>2, LookupIs, HeapFacts, SameNames, TopCall DEF Promise!Refused
<1>6. Promise!Construct(c, n) <=>
        IF (m = NoMethod /\ n # 0) \/ (m # NoMethod /\ Promise!Refused(m, n))
        THEN Promise!NextScript
        ELSE /\ Heap' = Append(Heap, [class |-> c, fields |-> NoFields])
             /\ Calls' = IF m = NoMethod THEN Promise!Give(Promise!Caller(1), Instance(new))
                         ELSE Promise!WithCall(m, Instance(new), n)
             /\ declaring' = declaring
  BY <1>5, SameNames DEF Promise!Construct
<1>7. ((m = NoMethod /\ n # 0) \/ (m # NoMethod /\ Promise!Refused(m, n))) <=> fails
  BY <1>3, <1>5
<1>8. CASE fails
  <2>1. interpret /\ UNCHANGED instances
    BY <1>4, <1>8 DEF runtimeError
  <2> QED
    BY <2>1, <1>6, <1>7, <1>8, Restarts
<1>9. CASE ~fails
  <2>1. /\ stack' = Slot0(s, n, Instance(new))
        /\ frames' = IF m = NoMethod THEN frames
                     ELSE Append(frames, [closure |-> m, slots |-> Len(s) - n])
        /\ instances' = Append(instances, [klass |-> c, fields |-> NoFields])
        /\ declaring' = declaring
    BY <1>4, <1>9
  <2>2. Heap' = Append(Heap, [class |-> c, fields |-> NoFields])
    BY <2>1, MakesInHeap
  <2>3. PICK w : w = Instance(new)
    OBVIOUS
  <2>4. Frontier \in Nat /\ n < Len(stack) /\ Len(s) = Len(stack) /\ Len(stack) \in Nat
    BY Lengths, FrameFacts DEF CalledOn
  <2>5. IsPut(stack', stack, Len(stack) - n, w)
    BY <2>1, <2>3, <2>4, PutAgain
  <2>6. CASE m = NoMethod
    <3>1. n = 0 /\ frames' = frames
      BY <2>1, <2>6, <1>3, <1>9
    <3>2. /\ Len(stack') = Len(stack) - 1 + 1
          /\ \A p \in 1..(Len(stack) - 1) : stack'[p] = stack[p]
          /\ stack'[Len(stack')] = w
      BY <3>1, <2>4, <2>5 DEF IsPut
    <3>3. 1 <= Operands
      BY <2>4, FrameFacts
    <3>4. Calls' = With(Calls, Append(Drop(Last(Calls).values, 1), w))
      BY <3>1, <3>2, <3>3, <2>1, ReplacesOperands
    <3>5. Calls' = Promise!Give(Promise!Caller(1), w)
      BY <3>4, CallerGives
    <3> QED
      BY <3>5, <2>1, <2>2, <2>3, <2>6, <1>6, <1>7, <1>9
  <2>7. CASE m # NoMethod
    <3>1. frames' = Append(frames, [closure |-> m, slots |-> Len(stack) - n])
      BY <2>1, <2>4, <2>7
    <3>2. m \in Closures
      BY <2>7, <1>1, Lengths, FindMethodFacts, MethodFacts, ValuesAssumption
    <3>3. Calls' = Promise!WithCall(m, w, n)
      BY <3>1, <3>2, <2>1, <2>5, EntersCall
    <3> QED
      BY <3>3, <2>1, <2>2, <2>3, <2>7, <1>6, <1>7, <1>9
  <2> QED
    BY <2>6, <2>7
<1> QED
  BY <1>8, <1>9

LEMMA AppliesAsPromised ==
  ASSUME RInv, RInv', NoClass, declaring = 0, NEW n \in Nat, Frontier + n < Len(stack),
         NEW u \in Good, NEW s, CalledOn(s, u, n), callValue(u, s, n)
  PROVE  Promise!Apply(u, n)
<1>1. Frontier \in Nat /\ n < Len(stack) /\ Len(s) = Len(stack)
      /\ IsPut(s, stack, Len(stack) - n, u)
  BY Lengths, FrameFacts DEF CalledOn
<1>2. CASE u.kind = "bound"
  <2>1. call(u.method, Slot0(s, n, u.receiver), n)
    BY <1>2 DEF callValue
  <2>2. PICK m : m = u.method
    OBVIOUS
  <2>3. PICK w : w = u.receiver
    OBVIOUS
  <2>4. m \in Closures
    <3>1. u \in BoundMethods
      BY <1>2, GoodKinds
    <3>2. PICK i \in 1..Len(instances) :
            u \in {Bound(Instance(i), k) : k \in MethodsOf(instances[i].klass)}
      BY <3>1 DEF BoundMethods
    <3>3. u.method \in MethodsOf(instances[i].klass)
      BY <3>2 DEF Bound
    <3> QED
      BY <3>3, <2>2, ObjectFacts, MethodFacts
  <2>5. PICK t : t = Slot0(s, n, w)
    OBVIOUS
  <2>6. Len(t) = Len(stack) /\ IsPut(t, stack, Len(stack) - n, w)
    BY <2>5, <1>1, PutAgain
  <2>7. Promise!Enter(m, w, n)
    BY <2>1, <2>2, <2>3, <2>4, <2>5, <2>6, EntersAsPromised
  <2> QED
    BY <2>2, <2>3, <2>7, <1>2 DEF Promise!Apply
<1>3. CASE u.kind = "closure"
  <2>1. call(u.method, s, n)
    BY <1>3 DEF callValue
  <2>2. u.method \in Closures
    BY <1>3, GoodKinds DEF Closures
  <2>3. Promise!Enter(u.method, u, n)
    BY <2>1, <2>2, <1>1, EntersAsPromised
  <2> QED
    BY <2>3, <1>3 DEF Promise!Apply
<1>4. CASE u.kind = "class"
  <2>1. PICK c \in 1..Len(methods) : u = Class(c)
    BY <1>4, GoodKinds
  <2>2. Promise!Construct(c, n)
    BY <2>1, ConstructsAsPromised
  <2>3. u.id = c
    BY <2>1 DEF Class
  <2> QED
    BY <2>2, <2>3, <1>4 DEF Promise!Apply
<1>5. CASE u.kind \notin {"bound", "closure", "class"}
  <2>1. interpret /\ UNCHANGED instances
    BY <1>5 DEF callValue, runtimeError
  <2> QED
    BY <2>1, <1>5, Restarts DEF Promise!Apply
<1> QED
  BY <1>2, <1>3, <1>4, <1>5

LEMMA OnStack ==
  ASSUME RInv, NEW n \in Nat, Operands > n
  PROVE  CalledOn(stack, peek(n), n) /\ Frontier + n < Len(stack) /\ n < Len(stack)
<1>1. stack \in Seq(Good) /\ Frontier + n < Len(stack) /\ Frontier \in Nat
      /\ peek(n) = stack[Len(stack) - n] /\ Len(stack) \in Nat
  BY PeekFacts, Lengths, FrameFacts DEF RInv, Valued
<1> QED
  BY <1>1 DEF CalledOn, IsPut

(* A call of a property binds no method, and is a call of the one it would *)
(* bind.                                                                   *)
LEMMA InvokesAsPromised ==
  ASSUME RInv, RInv', NoClass, declaring = 0, NEW n \in Nat, Operands > n,
         NEW name \in Names, invoke(name, n)
  PROVE  Promise!CallProperty(name, n)
<1>1. /\ CalledOn(stack, peek(n), n) /\ Frontier + n < Len(stack) /\ n < Len(stack)
      /\ Promise!Value(n) = peek(n) /\ peek(n) \in Good
  BY OnStack, TopCall, PeekFacts
<1>2. CASE peek(n).kind # "instance"
  <2>1. interpret /\ UNCHANGED instances
    BY <1>2 DEF invoke, runtimeError
  <2>2. Promise!Property(peek(n), name) = None
    BY <1>2, NoProperty
  <2> QED
    BY <2>1, <2>2, <1>1, Restarts, SameNames DEF Promise!CallProperty
<1>3. CASE peek(n).kind = "instance"
  <2>1. PICK i \in 1..Len(instances) : peek(n) = Instance(i)
    BY <1>1, <1>3, GoodInstances DEF Instances
  <2>2. peek(n).id = i
    BY <2>1 DEF Instance
  <2>3. PICK f : f = instances[i].fields[name]
    OBVIOUS
  <2>4. PICK c \in 1..Len(methods) : c = instances[i].klass
    BY ObjectFacts
  <2>5. PICK m : m = FindMethod(c, name)
    OBVIOUS
  <2>6. PICK w : w = Instance(i)
    OBVIOUS
  <2>7. Promise!Property(w, name) =
          IF f # None THEN f ELSE IF m # NoMethod THEN Bound(w, m) ELSE None
    BY <2>3, <2>4, <2>5, <2>6, PropertyOfObject
  <2>8. CASE f # None
    <3>1. f \in Good
      BY <2>3, <2>8, ObjectFacts
    <3>2. callValue(f, Slot0(stack, n, f), n)
      BY <1>3, <2>2, <2>3, <2>8 DEF invoke
    <3>3. PICK t : t = Slot0(stack, n, f)
      OBVIOUS
    <3>4. CalledOn(t, f, n)
      BY <3>1, <3>3, <1>1, PutAgain
    <3>5. Promise!Apply(f, n)
      BY <3>1, <3>2, <3>3, <3>4, <1>1, AppliesAsPromised
    <3> QED
      BY <3>5, <2>1, <2>6, <2>7, <2>8, <1>1, SameNames DEF Promise!CallProperty
  <2>9. CASE f = None
    <3>1. invokeFromClass(c, name, stack, n)
      BY <1>3, <2>2, <2>3, <2>4, <2>9 DEF invoke
    <3>2. CASE m = NoMethod
      <4>1. interpret /\ UNCHANGED instances
        BY <3>1, <3>2, <2>5 DEF invokeFromClass, runtimeError
      <4> QED
        BY <4>1, <3>2, <2>1, <2>6, <2>7, <2>9, <1>1, Restarts, SameNames
           DEF Promise!CallProperty
    <3>3. CASE m # NoMethod
      <4>1. call(m, stack, n)
        BY <3>1, <3>3, <2>5 DEF invokeFromClass
      <4>2. m \in Closures
        BY <3>3, <2>5, Lengths, FindMethodFacts, MethodFacts
      <4>3. Promise!Enter(m, w, n)
        BY <4>1, <4>2, <1>1, <2>1, <2>6, EntersAsPromised DEF CalledOn
      <4>4. PICK b : b = Bound(w, m)
        OBVIOUS
      <4>5. b # None /\ b.kind = "bound" /\ b.receiver = w /\ b.method = m
        BY <4>4, NoneIsNoValue
      <4>6. Promise!Apply(b, n)
        BY <4>3, <4>5 DEF Promise!Apply
      <4>7. Promise!Property(Promise!Value(n), name) = b
        BY <4>4, <3>3, <2>1, <2>6, <2>7, <2>9, <1>1
      <4> QED
        BY <4>5, <4>6, <4>7, SameNames DEF Promise!CallProperty
    <3> QED
      BY <3>2, <3>3
  <2> QED
    BY <2>8, <2>9
<1> QED
  BY <1>2, <1>3

---------------------------------------------------------------------------
(* The instructions of expressions are computations of the promise.        *)

LEMMA DropNone == ASSUME NEW S, NEW s \in Seq(S) PROVE Drop(s, 0) = s
<1>1. Len(s) \in Nat
  BY LenProperties
<1>2. PICK t : t = Drop(s, 0)
  OBVIOUS
<1>3. 0 \in 0..Len(s)
  BY <1>1
<1>4. t \in Seq(S) /\ Len(t) = Len(s) - 0 /\ \A p \in 1..(Len(s) - 0) : t[p] = s[p]
  BY <1>2, <1>3, DropFacts
<1>5. Len(t) = Len(s) /\ \A p \in 1..Len(s) : t[p] = s[p]
  BY <1>1, <1>4
<1>6. t = s
  BY <1>4, <1>5, SeqEqual
<1> QED
  BY <1>2, <1>6

LEMMA GivesAsPromised ==
  ASSUME RInv, RInv', declaring = 0, NEW k \in Nat, k <= Operands, NEW v,
         stack' = Push(Drop(stack, k), v), UNCHANGED <<declaring, frames>>
  PROVE  /\ Calls' = Promise!Give(Promise!Caller(k), v)
         /\ k = 0 => Calls' = Promise!Give(Calls, v)
<1>1. PICK S : S = Good \cup {v}
  OBVIOUS
<1>2. PICK b \in Nat : b = Len(stack)
  BY Lengths
<1>3. k \in 0..b
  BY <1>2, FrameFacts
<1>4. PICK t : t = Drop(stack, k)
  OBVIOUS
<1>5. /\ stack \in Seq(Good) /\ t \in Seq(Good) /\ Len(t) = b - k
      /\ \A p \in 1..(b - k) : t[p] = stack[p]
  BY <1>2, <1>3, <1>4, DropFacts DEF RInv, Valued
<1>6. t \in Seq(S) /\ v \in S
  BY <1>1, <1>5, SeqMonotonic
<1>7. PICK w : w = Append(t, v)
  OBVIOUS
<1>8. Len(w) = Len(t) + 1 /\ w[Len(t) + 1] = v /\ \A p \in 1..Len(t) : w[p] = t[p]
  BY <1>6, <1>7, AppendProperties
<1>9. stack' = w
  BY <1>4, <1>7 DEF Push
<1>10. /\ Len(stack') = Len(stack) - k + 1
       /\ \A p \in 1..(Len(stack) - k) : stack'[p] = stack[p]
       /\ stack'[Len(stack')] = v
  BY <1>2, <1>5, <1>8, <1>9
<1>11. Calls' = With(Calls, Append(Drop(Last(Calls).values, k), v))
  BY <1>10, ReplacesOperands
<1>12. k = 0 => Drop(Last(Calls).values, k) = Last(Calls).values
  BY TopCall, DropNone
<1> QED
  BY <1>11, <1>12, CallerGives, PromiseForms

LEMMA HasOperands ==
  ASSUME RInv, declaring = 0, NEW n \in Nat, Operands > n
  PROVE  /\ Promise!call.values # <<>> /\ n \in 0..(Len(Promise!call.values) - 1)
         /\ n > 0 => Len(Promise!call.values) > 1
<1>1. PICK w : w = Promise!call.values
  OBVIOUS
<1>2. n \in 0..(Len(w) - 1) /\ w \in Seq(Good)
  BY <1>1, TopCall, PromiseForms
<1>3. Len(w) \in Nat
  BY <1>2, LenProperties
<1>4. Len(w) > 0 /\ (n > 0 => Len(w) > 1)
  BY <1>2, <1>3
<1>5. w # <<>>
  BY <1>4, EmptySeq
<1> QED
  BY <1>1, <1>2, <1>4, <1>5

LEMMA GetsAsPromised ==
  ASSUME RInv, RInv', NEW name \in Names, getProperty(name) PROVE Promise!Compute
<1>1. NoClass /\ declaring = 0 /\ Operands > 0 /\ 1 <= Operands
  BY Lengths, FrameFacts DEF getProperty, Running
<1>2. Promise!Value(0) = peek(0) /\ peek(0) \in Good
  BY <1>1, TopCall, PeekFacts
<1>3. Promise!Get(name)
  <2>1. CASE peek(0).kind # "instance"
    <3>1. interpret /\ UNCHANGED instances
      BY <2>1 DEF getProperty, runtimeError
    <3>2. Promise!Property(peek(0), name) = None
      BY <2>1, NoProperty
    <3> QED
      BY <3>1, <3>2, <1>2, Restarts, SameNames DEF Promise!Get
  <2>2. CASE peek(0).kind = "instance"
    <3>1. PICK i \in 1..Len(instances) : peek(0) = Instance(i)
      BY <1>2, <2>2, GoodInstances DEF Instances
    <3>2. peek(0).id = i
      BY <3>1 DEF Instance
    <3>3. PICK f : f = instances[i].fields[name]
      OBVIOUS
    <3>4. PICK c \in 1..Len(methods) : c = instances[i].klass
      BY ObjectFacts
    <3>5. PICK m : m = FindMethod(c, name)
      OBVIOUS
    <3>6. PICK w : w = Instance(i)
      OBVIOUS
    <3>7. PICK v : v = IF f # None THEN f ELSE IF m # NoMethod THEN Bound(w, m) ELSE None
      OBVIOUS
    <3>8. Promise!Property(Promise!Value(0), name) = v
      BY <1>2, <3>1, <3>3, <3>4, <3>5, <3>6, <3>7, PropertyOfObject
    <3>9. CASE v = None
      <4>1. f = None /\ m = NoMethod
        BY <3>7, <3>9, NoneIsNoValue
      <4>2. interpret /\ UNCHANGED instances
        BY <4>1, <2>2, <3>2, <3>3, <3>4, <3>5 DEF getProperty, bindMethod, runtimeError
      <4> QED
        BY <4>2, <3>8, <3>9, Restarts, SameNames DEF Promise!Get
    <3>10. CASE v # None
      <4>1. stack' = Push(Drop(stack, 1), v) /\ UNCHANGED <<declaring, instances, frames>>
        <5>1. Last(stack) = w
          BY <3>1, <3>6, Lengths DEF Last, peek
        <5>2. CASE f # None
          BY <5>2, <2>2, <3>2, <3>3, <3>7 DEF getProperty
        <5>3. CASE f = None
          <6>1. bindMethod(c, name, stack)
            BY <5>3, <2>2, <3>2, <3>3, <3>4 DEF getProperty
          <6>2. m # NoMethod /\ v = Bound(w, m)
            BY <5>3, <3>7, <3>10
          <6> QED
            BY <6>1, <6>2, <5>1, <3>5 DEF bindMethod
        <5> QED
          BY <5>2, <5>3
      <4>2. Calls' = Promise!Give(Promise!Caller(1), v)
        BY <4>1, <1>1, GivesAsPromised
      <4>3. Heap' = Heap
        BY <4>1 DEF Heap
      <4> QED
        BY <4>1, <4>2, <4>3, <3>8, <3>10, SameNames DEF Promise!Get
    <3> QED
      BY <3>9, <3>10
  <2> QED
    BY <2>1, <2>2
<1>4. Promise!call.values # <<>>
  BY <1>1, HasOperands
<1>5. super' = super /\ own' = own
  BY <1>1 DEF NoClass
<1> QED
  BY <1>1, <1>3, <1>4, <1>5 DEF Promise!Compute

LEMMA SetsAsPromised ==
  ASSUME RInv, RInv', NEW name \in Names, setProperty(name) PROVE Promise!Compute
<1>1. NoClass /\ declaring = 0 /\ Operands > 0 /\ Operands > 1 /\ 2 <= Operands
  BY Lengths, FrameFacts DEF setProperty, Running
<1>2. /\ Promise!Value(0) = peek(0) /\ Promise!Value(1) = peek(1) /\ peek(1) \in Good
  BY <1>1, TopCall, PeekFacts
<1>3. Promise!Set(name)
  <2>1. CASE peek(1).kind # "instance"
    <3>1. interpret /\ UNCHANGED instances
      BY <2>1 DEF setProperty, runtimeError
    <3> QED
      BY <3>1, <2>1, <1>2, Restarts DEF Promise!Set
  <2>2. CASE peek(1).kind = "instance"
    <3>1. PICK i \in 1..Len(instances) : peek(1) = Instance(i)
      BY <1>2, <2>2, GoodInstances DEF Instances
    <3>2. peek(1).id = i
      BY <3>1 DEF Instance
    <3>3. PICK v : v = peek(0)
      OBVIOUS
    <3>4. /\ instances' = [instances EXCEPT ![i].fields[name] = v]
          /\ stack' = Push(Drop(stack, 2), v) /\ UNCHANGED <<declaring, frames>>
      BY <2>2, <3>2, <3>3 DEF setProperty
    <3>5. Heap' = [Heap EXCEPT ![i].fields[name] = v]
      <4>1. SetsField(i, name, v)
        BY <3>4 DEF SetsField
      <4>2. SetsSlot(i, name, v)
        BY <4>1, SetsInHeap
      <4> QED
        BY <4>2 DEF SetsSlot
    <3>6. Calls' = Promise!Give(Promise!Caller(2), v)
      BY <3>4, <1>1, GivesAsPromised
    <3> QED
      BY <3>2, <3>3, <3>4, <3>5, <3>6, <2>2, <1>2 DEF Promise!Set
  <2> QED
    BY <2>1, <2>2
<1>4. Len(Promise!call.values) > 1
  BY <1>1, HasOperands
<1>5. super' = super /\ own' = own
  BY <1>1 DEF NoClass
<1> QED
  BY <1>1, <1>3, <1>4, <1>5 DEF Promise!Compute

(* The method of a superclass, by the table of the superclass.             *)
LEMMA SuperIs ==
  ASSUME RInv, declaring = 0, InSubclass, NEW name \in Names, NEW m,
         m = FindMethod(super[frame.closure.class], name)
  PROVE  /\ Promise!InSubclass
         /\ Promise!Super(name) = IF m # NoMethod THEN Bound(this, m) ELSE None
<1>1. Promise!call.method = frame.closure /\ Promise!call.this = this
  BY TopCall, PromiseForms
<1>2. super[frame.closure.class] \in 0..Len(methods)
  BY SuperFacts, Lengths
<1>3. Promise!Lookup[super[frame.closure.class]][name] = m
  BY <1>2, LookupIs
<1> QED
  BY <1>1, <1>3, SameNames DEF Promise!InSubclass, Promise!Super, InSubclass

LEMMA GetsSuperAsPromised ==
  ASSUME RInv, RInv', NEW name \in Names, getSuper(name) PROVE Promise!Compute
<1>1. /\ NoClass /\ declaring = 0 /\ Operands > 0 /\ 1 <= Operands
      /\ InSubclass /\ peek(0) = this
      /\ bindMethod(super[frame.closure.class], name, stack)
  BY Lengths, FrameFacts DEF getSuper, Running
<1>2. PICK m : m = FindMethod(super[frame.closure.class], name)
  OBVIOUS
<1>3. PICK w : w = this
  OBVIOUS
<1>4. /\ Promise!InSubclass
      /\ Promise!Super(name) = IF m # NoMethod THEN Bound(w, m) ELSE None
  BY <1>1, <1>2, <1>3, SuperIs
<1>5. Promise!GetSuper(name)
  <2>1. CASE m = NoMethod
    <3>1. interpret /\ UNCHANGED instances
      BY <1>1, <1>2, <2>1 DEF bindMethod, runtimeError
    <3> QED
      BY <3>1, <2>1, <1>4, Restarts, SameNames DEF Promise!GetSuper
  <2>2. CASE m # NoMethod
    <3>1. PICK v : v = Bound(w, m)
      OBVIOUS
    <3>2. Last(stack) = w
      BY <1>1, <1>3, Lengths DEF Last, peek
    <3>3. stack' = Push(Drop(stack, 1), v) /\ UNCHANGED <<declaring, instances, frames>>
      BY <1>1, <1>2, <2>2, <3>1, <3>2 DEF bindMethod
    <3>4. Calls' = Promise!Give(Promise!Caller(1), v)
      BY <3>3, <1>1, GivesAsPromised
    <3>5. Heap' = Heap
      BY <3>3 DEF Heap
    <3>6. v # None /\ Promise!Super(name) = v
      BY <1>4, <2>2, <3>1, NoneIsNoValue
    <3> QED
      BY <3>3, <3>4, <3>5, <3>6, SameNames DEF Promise!GetSuper
  <2> QED
    BY <2>1, <2>2
<1>6. Promise!call.values # <<>>
  BY <1>1, HasOperands
<1>7. super' = super /\ own' = own
  BY <1>1 DEF NoClass
<1> QED
  BY <1>1, <1>4, <1>5, <1>6, <1>7 DEF Promise!Compute

LEMMA CallsSuperAsPromised ==
  ASSUME RInv, RInv', NEW name \in Names, NEW n \in Nat, superInvoke(name, n)
  PROVE  Promise!Compute
<1>1. /\ NoClass /\ declaring = 0 /\ Operands > n
      /\ InSubclass /\ peek(n) = this
      /\ invokeFromClass(super[frame.closure.class], name, stack, n)
  BY DEF superInvoke, Running
<1>2. PICK m : m = FindMethod(super[frame.closure.class], name)
  OBVIOUS
<1>3. PICK w : w = this
  OBVIOUS
<1>4. /\ Promise!InSubclass
      /\ Promise!Super(name) = IF m # NoMethod THEN Bound(w, m) ELSE None
  BY <1>1, <1>2, <1>3, SuperIs
<1>5. Promise!CallSuper(name, n)
  <2>1. CASE m = NoMethod
    <3>1. interpret /\ UNCHANGED instances
      BY <1>1, <1>2, <2>1 DEF invokeFromClass, runtimeError
    <3> QED
      BY <3>1, <2>1, <1>4, Restarts, SameNames DEF Promise!CallSuper
  <2>2. CASE m # NoMethod
    <3>1. call(m, stack, n)
      BY <1>1, <1>2, <2>2 DEF invokeFromClass
    <3>2. super[frame.closure.class] \in 1..Len(methods)
      BY <1>1, SuperFacts
    <3>3. m \in Closures
      BY <1>2, <2>2, <3>2, Lengths, FindMethodFacts, MethodFacts
    <3>4. CalledOn(stack, w, n) /\ Frontier + n < Len(stack)
      BY <1>1, <1>3, OnStack
    <3>5. Promise!Enter(m, w, n)
      BY <1>1, <3>1, <3>3, <3>4, EntersAsPromised DEF CalledOn
    <3>6. PICK b : b = Bound(w, m)
      OBVIOUS
    <3>7. b # None /\ b.kind = "bound" /\ b.receiver = w /\ b.method = m
      BY <3>6, NoneIsNoValue
    <3>8. Promise!Apply(b, n)
      BY <3>5, <3>7 DEF Promise!Apply
    <3>9. Promise!Super(name) = b
      BY <1>4, <2>2, <3>6
    <3> QED
      BY <3>7, <3>8, <3>9, SameNames DEF Promise!CallSuper
  <2> QED
    BY <2>1, <2>2
<1>6. n \in 0..(Len(Promise!call.values) - 1)
  BY <1>1, HasOperands
<1>7. super' = super /\ own' = own
  BY <1>1 DEF NoClass
<1> QED
  BY <1>1, <1>4, <1>5, <1>6, <1>7 DEF Promise!Compute

LEMMA CallsPropertyAsPromised ==
  ASSUME RInv, RInv', NEW name \in Names, NEW n \in Nat, invokesName(name, n)
  PROVE  Promise!Compute
<1>1. NoClass /\ declaring = 0 /\ Operands > n /\ invoke(name, n)
  BY DEF invokesName, Running
<1>2. Promise!CallProperty(name, n)
  BY <1>1, InvokesAsPromised
<1>3. n \in 0..(Len(Promise!call.values) - 1)
  BY <1>1, HasOperands
<1>4. super' = super /\ own' = own
  BY <1>1 DEF NoClass
<1> QED
  BY <1>1, <1>2, <1>3, <1>4 DEF Promise!Compute

LEMMA CallsValueAsPromised ==
  ASSUME RInv, RInv', NEW n \in Nat, callsValue(n) PROVE Promise!Compute
<1>1. NoClass /\ declaring = 0 /\ Operands > n /\ callValue(peek(n), stack, n)
  BY DEF callsValue, Running
<1>2. PICK u : u = peek(n)
  OBVIOUS
<1>3. /\ CalledOn(stack, u, n) /\ Frontier + n < Len(stack) /\ u \in Good
      /\ Promise!Value(n) = u
  BY <1>1, <1>2, OnStack, PeekFacts, TopCall
<1>4. Promise!Apply(u, n)
  BY <1>1, <1>2, <1>3, AppliesAsPromised
<1>5. n \in 0..(Len(Promise!call.values) - 1)
  BY <1>1, HasOperands
<1>6. super' = super /\ own' = own
  BY <1>1 DEF NoClass
<1>7. Promise!Call(n)
  BY <1>3, <1>4 DEF Promise!Call
<1> QED
  BY <1>1, <1>5, <1>6, <1>7 DEF Promise!Compute

LEMMA EvaluatesAsPromised ==
  ASSUME RInv, RInv', variable PROVE Promise!Compute
<1>1. NoClass /\ declaring = 0 /\ UNCHANGED <<declaring, instances, frames>> /\ 0 <= Operands
  BY Lengths, FrameFacts DEF variable, Running
<1>2. PICK v \in {nil, Function} \cup {this : m \in {frame.closure.class} \ {0}}
                \cup {Class(c) : c \in DOMAIN methods}
                \cup {Instance(i) : i \in DOMAIN instances} : stack' = Push(stack, v)
  BY DEF variable
<1>3. v \in {Promise!nil, Promise!Function, Promise!call.this}
               \cup {Promise!Class(c) : c \in DOMAIN own}
               \cup {Promise!Instance(i) : i \in DOMAIN Heap}
  <2>1. DOMAIN own = DOMAIN methods
    BY Lengths DEF Tables
  <2>2. DOMAIN Heap = DOMAIN instances
    BY DEF Heap
  <2>3. Promise!call.this = this
    BY <1>1, TopCall, PromiseForms
  <2> QED
    BY <1>2, <2>1, <2>2, <2>3, SameNames
<1>4. Drop(stack, 0) = stack
  BY DropNone DEF RInv, Valued
<1>5. stack' = Push(Drop(stack, 0), v)
  BY <1>2, <1>4
<1>6. Calls' = Promise!Give(Calls, v)
  BY <1>1, <1>5, GivesAsPromised
<1>7. Heap' = Heap /\ super' = super /\ own' = own
  BY <1>1 DEF Heap, NoClass
<1>8. Promise!Evaluate(v)
  BY <1>1, <1>6, <1>7 DEF Promise!Evaluate
<1> QED
  BY <1>1, <1>3, <1>7, <1>8 DEF Promise!Compute

LEMMA DiscardsAsPromised == ASSUME RInv, RInv', pop PROVE Promise!Compute
<1>1. /\ NoClass /\ declaring = 0 /\ UNCHANGED <<declaring, instances, frames>>
      /\ Operands > 0 /\ stack' = Drop(stack, 1)
  BY DEF pop, Running
<1>2. /\ Len(stack') = Len(stack) - 1
      /\ \A p \in 1..(Len(stack) - 1) : stack'[p] = stack[p]
  <2>1. stack \in Seq(Good) /\ 1 \in 0..Len(stack)
    BY <1>1, Lengths, FrameFacts DEF RInv, Valued
  <2> QED
    BY <1>1, <2>1, DropFacts
<1>3. Calls' = Promise!Caller(1)
  BY <1>1, <1>2, DropsOperand
<1>4. Heap' = Heap /\ super' = super /\ own' = own
  BY <1>1 DEF Heap, NoClass
<1>5. Promise!Discard
  BY <1>1, <1>3, <1>4 DEF Promise!Discard
<1>6. Promise!call.values # <<>>
  BY <1>1, HasOperands
<1> QED
  BY <1>1, <1>4, <1>5, <1>6 DEF Promise!Compute

LEMMA ReturnsAsPromised == ASSUME RInv, RInv', return PROVE Promise!Compute
<1>1. PICK x : x = IF Operands > 0 THEN peek(0) ELSE nil
  OBVIOUS
<1>2. PICK v : v = IF frame.closure.class # 0 /\ frame.closure.name = init
                   THEN this ELSE x
  OBVIOUS
<1>3. /\ NoClass /\ declaring = 0
      /\ IF Len(frames) = 1 THEN interpret /\ UNCHANGED instances
         ELSE /\ stack' = Push(SubSeq(stack, 1, frame.slots - 1), v)
              /\ frames' = Front(frames)
              /\ UNCHANGED <<declaring, instances>>
  BY <1>1, <1>2 DEF return, Running
<1>4. /\ Promise!call.method = frame.closure /\ Promise!call.this = this
      /\ Len(Calls) = Len(frames) /\ Len(frames) \in Nat \ {0}
  BY <1>3, TopCall, PromiseForms
<1>5. Promise!Return(x)
  <2>1. CASE Len(frames) = 1
    BY <2>1, <1>3, <1>4, Restarts DEF Promise!Return
  <2>2. CASE Len(frames) # 1
    <3>1. /\ stack' = Push(SubSeq(stack, 1, frame.slots - 1), v)
          /\ frames' = Front(frames) /\ UNCHANGED <<declaring, instances>>
      BY <1>3, <2>2
    <3>2. PICK b : b = frame.slots - 1
      OBVIOUS
    <3>3. PICK k : k = Len(stack) - b
      OBVIOUS
    <3>4. /\ k \in 0..Len(stack) /\ Len(stack) - k = b /\ b \in Nat
          /\ frame.slots = b + 1
      BY <3>2, <3>3, Heights
    <3>5. PICK t : t = Drop(stack, k)
      OBVIOUS
    <3>6. t \in Seq(Good) /\ Len(t) = b /\ \A p \in 1..b : t[p] = stack[p]
      BY <3>4, <3>5, DropFacts DEF RInv, Valued
    <3>7. PICK S : S = Good \cup {v}
      OBVIOUS
    <3>8. t \in Seq(S) /\ v \in S
      BY <3>6, <3>7, SeqMonotonic
    <3>9. PICK w : w = Append(t, v)
      OBVIOUS
    <3>10. Len(w) = b + 1 /\ w[b + 1] = v /\ \A p \in 1..b : w[p] = stack[p]
      BY <3>6, <3>8, <3>9, AppendProperties
    <3>11. stack' = w
      BY <3>1, <3>2, <3>4, <3>5, <3>9 DEF Push, Drop
    <3>12. /\ Len(stack') = frame.slots /\ stack'[frame.slots] = v
           /\ \A p \in 1..(frame.slots - 1) : stack'[p] = stack[p]
      BY <3>2, <3>4, <3>10, <3>11
    <3>13. Len(frames) > 1 /\ declaring' = 0
      BY <1>3, <1>4, <2>2, <3>1
    <3>14. Calls' = Promise!Give(Front(Calls), v)
      BY <3>1, <3>12, <3>13, ReturnsCall
    <3>15. Heap' = Heap
      BY <3>1 DEF Heap
    <3>16. Promise!Front(Calls) = Front(Calls)
      BY DEF Promise!Front, Front
    <3> QED
      BY <1>2, <1>4, <2>2, <3>1, <3>14, <3>15, <3>16 DEF Promise!Return
  <2> QED
    BY <2>1, <2>2
<1>6. Operands > 0 => Promise!call.values # <<>> /\ Promise!Value(0) = peek(0)
  BY <1>3, HasOperands, TopCall
<1>7. super' = super /\ own' = own
  BY <1>3 DEF NoClass
<1>8. CASE Operands > 0
  BY <1>1, <1>3, <1>5, <1>6, <1>7, <1>8 DEF Promise!Compute
<1>9. CASE ~(Operands > 0)
  BY <1>1, <1>3, <1>5, <1>7, <1>9, SameNames DEF Promise!Compute
<1> QED
  BY <1>8, <1>9

---------------------------------------------------------------------------
(* The instructions of declarations.                                       *)

(* The variable super lies above the operands, and is none of them.        *)
LEMMA SameCalls ==
  ASSUME RInv, RInv', frames' = frames, NEW e, e = Len(stack) - Locals,
         e = Len(stack') - Locals', \A p \in 1..e : stack'[p] = stack[p]
  PROVE  Calls' = Calls
<1>1. PICK G, S : /\ stack \in Seq(G) /\ stack' \in Seq(G)
                  /\ Calls \in Seq(S) /\ Calls' \in Seq(S)
  BY CommonTypes
<1>2. PICK n : n = Len(frames)
  OBVIOUS
<1>3. PICK a : a = frames[n].slots
  OBVIOUS
<1>4. n \in 1..Len(frames) /\ n <= Len(frames') /\ n \in 1..Len(frames') /\ n \in Nat
  BY <1>2, Lengths
<1>5. /\ EndOf(n) = e /\ EndOf(n)' = e
      /\ e \in 0..Len(stack) /\ a <= e /\ a \in Nat \ {0} /\ e \in 0..Len(stack')
  <2>1. EndOf(n) = e /\ EndOf(n)' = e
    BY <1>2 DEF EndOf
  <2>2. EndOf(n) \in 0..Len(stack) /\ a <= EndOf(n)
    BY <1>3, <1>4, CallsAre DEF Called
  <2>3. EndOf(n)' \in 0..Len(stack')
    BY <1>4, CallFactsThen
  <2>4. a \in Nat \ {0}
    BY <1>3, <1>4, CallFacts
  <2> QED
    BY <2>1, <2>2, <2>3, <2>4
<1>6. /\ a <= Len(stack') /\ a \in 0..e /\ e <= Len(stack') /\ a \in 1..e
      /\ \A p \in 1..a : stack'[p] = stack[p]
      /\ \A p \in (a + 1)..e : stack[p] = stack'[p]
  <2>1. Len(stack') \in Nat
    BY <1>4, CallFactsThen
  <2>2. e \in Nat
    BY <1>5
  <2> QED
    BY <1>5, <2>1, <2>2
<1>7. \A i \in 1..(n - 1) : Calls'[i] = Calls[i]
  <2>1. /\ frames[n].slots <= Len(stack')
        /\ \A p \in 1..frames[n].slots : stack'[p] = stack[p]
        /\ \A i \in 1..n : frames'[i] = frames[i]
    BY <1>3, <1>6
  <2> QED
    BY <2>1, <1>4, KeepsCalls
<1>8. Calls'[n] = Calls[n]
  <2>1. Part(stack, a, e) = Part(stack', a, e)
    BY <1>1, <1>5, <1>6, SameParts
  <2>2. Calls'[n] = CallAt(n)' /\ Calls[n] = CallAt(n)
    BY <1>4, CallFactsThen, CallsAre DEF Called
  <2>3. stack'[a] = stack[a]
    BY <1>6
  <2>4. CallAt(n)' = [method |-> frames[n].closure, this |-> stack'[a],
                      values |-> Part(stack', a, e)]
    BY <1>3, <1>5 DEF CallAt
  <2>5. CallAt(n) = [method |-> frames[n].closure, this |-> stack[a],
                     values |-> Part(stack, a, e)]
    BY <1>3, <1>5 DEF CallAt
  <2> QED
    BY <2>1, <2>2, <2>3, <2>4, <2>5
<1>9. PICK cs \in Seq(S) : cs = Calls
  BY <1>1
<1>10. PICK ds \in Seq(S) : ds = Calls'
  BY <1>1
<1>11. Len(cs) = n /\ Len(ds) = n
  BY <1>2, <1>9, <1>10, CallsAre, CallsAreThen DEF Called
<1>12. \A i \in 1..n : ds[i] = cs[i]
  BY <1>4, <1>7, <1>8, <1>9, <1>10
<1>13. ds = cs
  BY <1>11, <1>12, SeqEqual
<1> QED
  BY <1>9, <1>10, <1>13

LEMMA DeclaresAsPromised == ASSUME RInv, RInv', class PROVE Promise!Declare
<1>1. /\ declaring = 0 /\ super' = Append(super, 0) /\ own' = Append(own, NoMethods)
      /\ declaring' = Len(methods) + 1 /\ UNCHANGED <<instances, stack, frames>>
  BY DEF class
<1>2. Locals = 0 /\ Locals' = 0
  <2>1. PICK k \in Nat : k = Len(super)
    BY Lengths
  <2>2. super \in Seq(Nat) /\ declaring' = k + 1
    BY <1>1, <2>1, Lengths DEF Tables
  <2>3. super'[k + 1] = 0
    BY <1>1, <2>1, <2>2, AppendProperties
  <2> QED
    BY <1>1, <2>2, <2>3 DEF Locals
<1>3. Calls' = Calls
  <2>1. PICK e : e = Len(stack) - Locals
    OBVIOUS
  <2>2. e = Len(stack') - Locals' /\ \A p \in 1..e : stack'[p] = stack[p]
    BY <1>1, <1>2, <2>1
  <2> QED
    BY <1>1, <2>1, <2>2, SameCalls
<1>4. Heap' = Heap
  BY <1>1 DEF Heap
<1> QED
  BY <1>1, <1>3, <1>4, Lengths, SameNames DEF Promise!Declare

LEMMA InheritsAsPromised ==
  ASSUME RInv, RInv', NEW v, inherit(v) PROVE Promise!Inherit(v)
<1>1. declaring # 0 /\ super[declaring] = 0 /\ own' = own
  BY DEF inherit
<1>2. CASE v.kind = "class"
  <2>1. /\ v.id # declaring /\ super' = [super EXCEPT ![declaring] = v.id]
        /\ stack' = Push(stack, v) /\ UNCHANGED <<declaring, instances, frames>>
    BY <1>2 DEF inherit
  <2>2. PICK b \in Nat : b = Len(stack)
    BY Lengths
  <2>3. Len(stack') = b + 1 /\ \A p \in 1..b : stack'[p] = stack[p]
    <3>1. PICK S : S = Good \cup {v}
      OBVIOUS
    <3>2. PICK s : s = stack
      OBVIOUS
    <3>3. s \in Seq(Good)
      BY <3>2 DEF RInv, Valued
    <3>4. s \in Seq(S) /\ v \in S
      BY <3>1, <3>3, SeqMonotonic
    <3>5. /\ Len(Append(s, v)) = Len(s) + 1
          /\ \A p \in 1..Len(s) : Append(s, v)[p] = s[p]
      BY <3>4, AppendProperties
    <3> QED
      BY <3>2, <3>5, <2>1, <2>2 DEF Push
  <2>4. Locals = 0
    BY <1>1 DEF Locals
  <2>5. Locals' \in {0, 1} /\ Len(stack') - Locals' = b
    <3>1. Operands' = Locals' /\ Operands = 0
      <4>1. (declaring # 0 => Operands = Locals) /\ (declaring' # 0 => Operands' = Locals')
        BY DEF RInv, Framed
      <4>2. declaring # 0 /\ declaring' # 0
        BY <1>1, <2>1
      <4> QED
        BY <4>1, <4>2, <2>4
    <3>2. Operands' = Len(stack') - frame'.slots - ArityOf(frame'.closure)
      BY DEF Operands
    <3>3. frame' = frame
      BY <2>1 DEF frame
    <3>4. /\ Operands = Len(stack) - Frontier /\ Frontier \in Nat
          /\ frame.slots \in Nat /\ ArityOf(frame.closure) \in Nat
          /\ frame.slots + ArityOf(frame.closure) = Frontier
      BY FrameFacts, CodeFacts
    <3>5. PICK l : l = Locals'
      OBVIOUS
    <3>6. l = (b + 1) - frame.slots - ArityOf(frame.closure) /\ b - Frontier = 0
      BY <3>1, <3>2, <3>3, <3>4, <3>5, <2>2, <2>3
    <3>7. l = 1
      BY <3>4, <3>6
    <3> QED
      BY <3>5, <3>7, <2>3
  <2>6. Calls' = Calls
    <3>1. PICK m : m = Len(stack')
      OBVIOUS
    <3>2. b = Len(stack) - Locals
      BY <2>2, <2>4
    <3> QED
      BY <3>2, <2>1, <2>3, <2>5, SameCalls
  <2>7. Heap' = Heap
    BY <2>1 DEF Heap
  <2> QED
    BY <1>1, <1>2, <2>1, <2>6, <2>7 DEF Promise!Inherit
<1>3. CASE v.kind # "class"
  <2>1. interpret /\ UNCHANGED instances /\ super' = super
    BY <1>3 DEF inherit, runtimeError
  <2>2. Promise!NextScript
    BY <2>1, Restarts
  <2> QED
    BY <1>1, <1>3, <2>1, <2>2 DEF Promise!Inherit
<1> QED
  BY <1>2, <1>3

LEMMA DeclaresMethodAsPromised ==
  ASSUME RInv, RInv', NEW name \in Names, method(name) PROVE Promise!DeclareMethod(name)
<1>1. /\ declaring # 0
      /\ own' = [own EXCEPT ![declaring][name] = Method(declaring, name)]
      /\ UNCHANGED <<super, declaring, instances, stack, frames>>
  BY DEF method
<1>2. Calls' = Calls /\ Heap' = Heap
  BY <1>1 DEF Calls, Heap, Locals
<1> QED
  BY <1>1, <1>2, SameNames DEF Promise!DeclareMethod

LEMMA EndsClassAsPromised == ASSUME RInv, RInv', endClass PROVE Promise!Declared
<1>1. /\ declaring # 0 /\ declaring' = 0
      /\ stack' = IF super[declaring] # 0 THEN Drop(stack, 1) ELSE stack
      /\ NoClass /\ UNCHANGED <<instances, frames>>
  BY DEF endClass
<1>2. Locals' = 0 /\ Locals = IF super[declaring] # 0 THEN 1 ELSE 0
  BY <1>1 DEF Locals
<1>3. PICK b \in Nat : b = Len(stack)
  BY Lengths
<1>4. stack \in Seq(Good)
  BY DEF RInv, Valued
<1>5. PICK e : e = b - Locals
  OBVIOUS
<1>6. Len(stack') = e /\ \A p \in 1..e : stack'[p] = stack[p]
  <2>1. CASE super[declaring] # 0
    <3>1. Operands = 1 /\ Operands = b - Frontier /\ Frontier \in Nat
      BY <1>1, <1>2, <1>3, <2>1, FrameFacts DEF RInv, Framed
    <3>2. 1 \in 0..Len(stack)
      BY <3>1, <1>3
    <3>3. /\ Len(Drop(stack, 1)) = Len(stack) - 1
          /\ \A p \in 1..(Len(stack) - 1) : Drop(stack, 1)[p] = stack[p]
      BY <3>2, <1>4, DropFacts
    <3> QED
      BY <3>3, <1>1, <1>2, <1>3, <1>5, <2>1
  <2>2. CASE super[declaring] = 0
    BY <2>2, <1>1, <1>2, <1>3, <1>5
  <2> QED
    BY <2>1, <2>2
<1>7. e = Len(stack') - Locals'
  <2>1. e \in Int
    BY <1>2, <1>5
  <2> QED
    BY <2>1, <1>2, <1>6
<1>8. Calls' = Calls
  BY <1>1, <1>3, <1>5, <1>6, <1>7, SameCalls
<1>9. Heap' = Heap
  BY <1>1 DEF Heap
<1> QED
  BY <1>1, <1>8, <1>9 DEF Promise!Declared, NoClass

---------------------------------------------------------------------------
LEMMA BeginsAsPromised == Init => Promise!Init
<1> SUFFICES ASSUME Init PROVE Promise!Init
  OBVIOUS
<1>1. /\ super = <<>> /\ own = <<>> /\ declaring = 0 /\ instances = <<>>
      /\ stack = <<Script>>
      /\ frames = <<[closure |-> Script.method, slots |-> 1]>>
  BY DEF Init
<1>2. RInv
  BY RBase
<1>3. Called
  BY <1>2, CallsAre
<1>4. Len(frames) = 1 /\ EndOf(1) = 1
  BY <1>1 DEF EndOf, Locals
<1>5. Part(stack, 1, 1) = <<>>
  <2>1. stack \in Seq(Good) /\ 1 \in 0..Len(stack) /\ 1 \in 0..1
    BY <1>1, <1>2 DEF RInv, Valued
  <2>2. Part(stack, 1, 1) \in Seq(Good) /\ Len(Part(stack, 1, 1)) = 1 - 1
    BY <2>1, PartFacts
  <2> QED
    BY <2>2, EmptySeq
<1>6. PICK x : x = [method |-> Script.method, this |-> Script, values |-> <<>>]
  OBVIOUS
<1>7. Calls = <<x>>
  <2>1. Calls[1] = CallAt(1) /\ Len(Calls) = 1 /\ Calls \in Seq(CallType)
    BY <1>3, <1>4 DEF Called
  <2>2. Calls[1] = x
    BY <2>1, <1>1, <1>4, <1>5, <1>6 DEF CallAt
  <2>3. PICK s \in Seq(CallType) : s = Calls
    BY <2>1
  <2>4. Len(s) = 1 /\ s[1] = x
    BY <2>1, <2>2, <2>3
  <2> QED
    BY <2>3, <2>4
<1>8. Heap = <<>>
  <2>1. PICK s \in Seq(HeapType) : s = Heap
    BY <1>2, HeapFacts
  <2>2. Len(s) = 0
    BY <1>1, <1>2, <2>1, HeapFacts
  <2> QED
    BY <2>1, <2>2, EmptySeq
<1> QED
  BY <1>1, <1>6, <1>7, <1>8, SameNames DEF Promise!Init, Promise!NewCall

LEMMA StepsAsPromised ==
  RInv /\ RInv' /\ [Next]_vars => Promise!Next \/ UNCHANGED Promise!vars
<1> SUFFICES ASSUME RInv, RInv', [Next]_vars
             PROVE  Promise!Next \/ UNCHANGED Promise!vars
  OBVIOUS
<1>1. CASE class
  BY <1>1, DeclaresAsPromised DEF Promise!Next
<1>2. ASSUME NEW name \in Names, method(name) PROVE Promise!Next
  BY <1>2, DeclaresMethodAsPromised DEF Promise!Next
<1>3. ASSUME NEW v \in {nil} \cup {Class(c) : c \in DOMAIN methods}, inherit(v)
      PROVE  Promise!Next
  <2>1. Promise!Inherit(v)
    BY <1>3, InheritsAsPromised
  <2>2. v \in {Promise!nil} \cup {Promise!Class(c) : c \in DOMAIN own}
    BY Lengths, SameNames DEF Tables
  <2> QED
    BY <2>1, <2>2 DEF Promise!Next
<1>4. CASE endClass
  BY <1>4, EndsClassAsPromised DEF Promise!Next
<1>5. CASE variable
  BY <1>5, EvaluatesAsPromised DEF Promise!Next
<1>6. CASE pop
  BY <1>6, DiscardsAsPromised DEF Promise!Next
<1>7. CASE return
  BY <1>7, ReturnsAsPromised DEF Promise!Next
<1>8. ASSUME NEW name \in Names,
             getProperty(name) \/ setProperty(name) \/ getSuper(name)
      PROVE  Promise!Next
  BY <1>8, GetsAsPromised, SetsAsPromised, GetsSuperAsPromised DEF Promise!Next
<1>9. ASSUME NEW name \in Names, NEW n \in 0..(MaxOperands - 1),
             invokesName(name, n) \/ superInvoke(name, n)
      PROVE  Promise!Next
  <2>1. n \in Nat
    BY ClassesAssumption
  <2> QED
    BY <1>9, <2>1, CallsPropertyAsPromised, CallsSuperAsPromised DEF Promise!Next
<1>10. ASSUME NEW n \in 0..(MaxOperands - 1), callsValue(n) PROVE Promise!Next
  <2>1. n \in Nat
    BY ClassesAssumption
  <2> QED
    BY <1>10, <2>1, CallsValueAsPromised DEF Promise!Next
<1>11. CASE UNCHANGED vars
  <2>1. UNCHANGED <<super, own, declaring, instances, stack, frames>>
    BY <1>11 DEF vars
  <2>2. Calls' = Calls /\ Heap' = Heap
    BY <2>1 DEF Calls, Heap, Locals
  <2> QED
    BY <2>1, <2>2 DEF Promise!vars
<1> QED
  BY <1>1, <1>2, <1>3, <1>4, <1>5, <1>6, <1>7, <1>8, <1>9, <1>10, <1>11 DEF Next

(* DispatchesAsPromised: tables filled by copying, calls that bind nothing *)
(* and one stack for all calls are not to be told from lookup along the    *)
(* superclasses, get and call, and calls with values of their own          *)
(* (vm.c, OP_INHERIT, invoke, callValue, call and OP_RETURN).              *)
THEOREM DispatchesLikeThePromise == Spec => DispatchesAsPromised
<1>1. RInv /\ RInv' /\ [Next]_vars => [Promise!Next]_(Promise!vars)
  BY StepsAsPromised
<1> QED
  BY <1>1, BeginsAsPromised, Receivers, PTL DEF Spec, DispatchesAsPromised, Promise!Spec
=============================================================================
