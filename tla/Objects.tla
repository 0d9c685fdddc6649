------------------------------ MODULE Objects ------------------------------
(***************************************************************************)
(* Classes and instances as the language promises them.  A class knows the *)
(* methods it declares and its superclass; a method is looked for along    *)
(* the chain of superclasses when it is wanted.  To call a property is to  *)
(* get it and to call what was got.  Each call has its own this.           *)
(***************************************************************************)
EXTENDS Values

CONSTANT MaxCalls  \* calls that may be active at once

VARIABLES
  parent,     \* of each class the number of its superclass, or 0
  own,        \* of each class the methods it declares
  declaring,  \* the class whose declaration is being executed, or 0
  instances,  \* the class and the fields of each instance
  calls       \* the active calls: method, this, arguments and operands

vars == <<parent, own, declaring, instances, calls>>

(* The methods of a class: those it declares, and its superclass's.        *)
Lookup[c \in 0..Len(own)] ==
  IF c = 0 THEN NoMethods
  ELSE [name \in Names |-> IF own[c][name] # NoMethod THEN own[c][name]
                           ELSE Lookup[parent[c]][name]]

NewCall(method, this, arguments) ==
  [method |-> method, this |-> this, values |-> arguments]

call       == Last(calls)
Value(n)   == call.values[Len(call.values) - n]
Caller(n)  == Append(Front(calls),
                     NewCall(call.method, call.this, Drop(call.values, n)))
Give(cs, v) == Append(Front(cs), NewCall(Last(cs).method, Last(cs).this,
                                         Append(Last(cs).values, v)))

(* The end of a script, by its return or by an error, is the beginning of  *)
(* the next one.                                                           *)
NextScript ==
  /\ calls' = <<NewCall(Script.method, Script, <<>>)>>
  /\ declaring' = 0
  /\ UNCHANGED instances

(* Calls with n arguments, which are the last values of the caller, on top *)
(* of what is called.                                                      *)
Refused(method, n) == n # ArityOf(method) \/ Len(calls) = MaxCalls
WithCall(method, v, n) ==
  Append(Caller(n + 1), NewCall(method, v, Top(call.values, n)))

Enter(method, v, n) ==
  IF Refused(method, n) THEN NextScript
  ELSE calls' = WithCall(method, v, n) /\ UNCHANGED <<declaring, instances>>

Construct(c, n) ==
  LET new == Instance(Len(instances) + 1)
      constructor == Lookup[c][init]
      plain == constructor = NoMethod
  IN  IF (plain /\ n # 0) \/ (~plain /\ Refused(constructor, n)) THEN NextScript
      ELSE /\ instances' = Append(instances, [class |-> c, fields |-> NoFields])
           /\ calls' = IF plain THEN Give(Caller(1), new)
                       ELSE WithCall(constructor, new, n)
           /\ UNCHANGED declaring

Apply(callee, n) ==
  CASE callee.kind = "bound"   -> Enter(callee.method, callee.receiver, n)
    [] callee.kind = "closure" -> Enter(callee.method, callee, n)
    [] callee.kind = "class"   -> Construct(callee.id, n)
    [] OTHER                   -> NextScript

(* The value of a property: a field, else a method bound to the object.    *)
Property(v, name) ==
  LET object == instances[v.id]
      method == Lookup[object.class][name]
  IN  IF v.kind # "instance" THEN None
      ELSE IF object.fields[name] # None THEN object.fields[name]
      ELSE IF method # NoMethod THEN Bound(v, method) ELSE None

(* The superclass's method of a name, bound to this.                       *)
InSubclass == call.method.class # 0 /\ parent[call.method.class] # 0
Super(name) ==
  LET method == Lookup[parent[call.method.class]][name]
  IN  IF method # NoMethod THEN Bound(call.this, method) ELSE None

---------------------------------------------------------------------------
Init ==
  /\ parent = <<>> /\ own = <<>> /\ declaring = 0 /\ instances = <<>>
  /\ calls = <<NewCall(Script.method, Script, <<>>)>>

Declare ==
  /\ declaring = 0
  /\ parent' = Append(parent, 0) /\ own' = Append(own, NoMethods)
  /\ declaring' = Len(own) + 1
  /\ UNCHANGED <<instances, calls>>

Inherit(v) ==
  /\ declaring # 0
  /\ IF v.kind = "class"
     THEN /\ v.id # declaring
          /\ parent' = [parent EXCEPT ![declaring] = v.id]
          /\ UNCHANGED <<declaring, instances, calls>>
     ELSE NextScript /\ UNCHANGED parent
  /\ UNCHANGED own

DeclareMethod(name) ==
  /\ declaring # 0
  /\ own' = [own EXCEPT ![declaring][name] = Method(declaring, name)]
  /\ UNCHANGED <<parent, declaring, instances, calls>>

Declared ==
  /\ declaring # 0 /\ declaring' = 0
  /\ UNCHANGED <<parent, own, instances, calls>>

Evaluate(v) == calls' = Give(calls, v) /\ UNCHANGED <<declaring, instances>>
Discard     == calls' = Caller(1) /\ UNCHANGED <<declaring, instances>>

Get(name) ==
  LET v == Property(Value(0), name)
  IN  IF v = None THEN NextScript
      ELSE calls' = Give(Caller(1), v) /\ UNCHANGED <<declaring, instances>>

Set(name) ==
  IF Value(1).kind # "instance" THEN NextScript
  ELSE /\ instances' = [instances EXCEPT ![Value(1).id].fields[name] = Value(0)]
       /\ calls' = Give(Caller(2), Value(0))
       /\ UNCHANGED declaring

GetSuper(name) ==
  IF Super(name) = None THEN NextScript
  ELSE calls' = Give(Caller(1), Super(name)) /\ UNCHANGED <<declaring, instances>>

Call(n) == Apply(Value(n), n)

(* A call of a property is a call of its value.                            *)
CallProperty(name, n) ==
  LET v == Property(Value(n), name)
  IN  IF v = None THEN NextScript ELSE Apply(v, n)

CallSuper(name, n) ==
  IF Super(name) = None THEN NextScript ELSE Apply(Super(name), n)

(* An initializer returns this, whatever else it returns.                  *)
Return(v) ==
  LET result == IF call.method.class # 0 /\ call.method.name = init THEN call.this
                ELSE v
  IN  IF Len(calls) = 1 THEN NextScript
      ELSE calls' = Give(Front(calls), result) /\ UNCHANGED <<declaring, instances>>

Compute ==
  /\ declaring = 0
  /\ \/ \E v \in {nil, Function, call.this} \cup {Class(c) : c \in DOMAIN own}
                    \cup {Instance(i) : i \in DOMAIN instances} : Evaluate(v)
     \/ call.values # <<>> /\ Discard
     \/ \E name \in Names :
          \/ call.values # <<>> /\ Get(name)
          \/ call.values # <<>> /\ InSubclass /\ GetSuper(name)
          \/ Len(call.values) > 1 /\ Set(name)
          \/ \E n \in 0..(Len(call.values) - 1) :
               CallProperty(name, n) \/ (InSubclass /\ CallSuper(name, n))
     \/ \E n \in 0..(Len(call.values) - 1) : Call(n)
     \/ Return(nil)
     \/ call.values # <<>> /\ Return(Value(0))
  /\ UNCHANGED <<parent, own>>

Next ==
  \/ Declare \/ Declared \/ Compute
  \/ \E v \in {nil} \cup {Class(c) : c \in DOMAIN own} : Inherit(v)
  \/ \E name \in Names : DeclareMethod(name)

Spec == Init /\ [][Next]_vars
=============================================================================
