------------------------------ MODULE Lexical ------------------------------
(***************************************************************************)
(* What the language promises about variables: every declaration makes a   *)
(* new variable, a function keeps the variables it captures, and a         *)
(* variable lives as long as its scope does or a function that captured    *)
(* it.  Nothing here says where a variable is stored.                      *)
(*                                                                         *)
(* Module Closures implements this with one stack whose slots are reused,  *)
(* and upvalues that point into it until they are closed.                  *)
(***************************************************************************)
EXTENDS Integers, SequencesExt

CONSTANTS
  Variable,    \* identities of variables
  Data,        \* values that are not functions
  UNDEFINED,   \* the global before its definition
  MaxArity

VARIABLES
  scopes,      \* calls under way, each with its variables and operands
  store,       \* the value of every living variable
  functions,   \* arity and captured variables of every function
  global       \* the value of the one global variable

lexicalVars == <<scopes, store, functions, global>>

Call(f, vars) == [function |-> f, vars |-> vars, operands |-> <<>>]

(* Function 0 is the script, which captures nothing.                       *)
Captured(f) == IF f = 0 THEN {} ELSE Range(functions[f].captured)

Top     == Last(scopes)
Visible == Range(Top.vars) \cup Captured(Top.function)
Operand == Last(Top.operands)

Living(ss, fs) ==
  UNION ({Range(ss[i].vars) : i \in DOMAIN ss}
           \cup {Range(fs[f].captured) : f \in DOMAIN fs})

(* Calls and functions change to ss and fs; of the values of the variables *)
(* in st, those of the variables that live on are kept.                    *)
Become(ss, fs, st) ==
  /\ scopes'    = ss
  /\ functions' = fs
  /\ store'     = [v \in Living(ss, fs) |-> st[v]]

WithTop(top) == ReplaceAt(scopes, Len(scopes), top)

WithOperands(operands) == WithTop([Top EXCEPT !.operands = operands])

(* The top call with one more variable v, which takes the operand x.       *)
WithVariable(v) == WithTop(Call(Top.function, Append(Top.vars, v)))

(* The values st, and that of each variable vs[i] the value xs[i].         *)
Store(st, vs, xs) ==
  [v \in DOMAIN st \cup Range(vs) |->
     IF v \in Range(vs) THEN xs[CHOOSE i \in DOMAIN vs : vs[i] = v] ELSE st[v]]

Init ==
  /\ scopes    = <<>>
  /\ store     = [v \in {} |-> UNDEFINED]
  /\ functions = <<>>
  /\ global    = UNDEFINED

----------------------------------------------------------------------------
Begin ==
  /\ scopes = <<>>
  /\ Become(<<Call(0, <<>>)>>, functions, store)
  /\ UNCHANGED global

Evaluate(x) ==
  /\ x \in Data \cup {store[v] : v \in Visible} \cup ({global} \ {UNDEFINED})
  /\ Become(WithOperands(Append(Top.operands, x)), functions, store)
  /\ UNCHANGED global

Discard ==
  /\ Top.operands # <<>>
  /\ Become(WithOperands(Front(Top.operands)), functions, store)
  /\ UNCHANGED global

(* An assignment is an expression: its value stays.                        *)
Assign(v) ==
  /\ Top.operands # <<>>
  /\ v \in Visible
  /\ Become(scopes, functions, [store EXCEPT ![v] = Operand])
  /\ UNCHANGED global

DefineGlobal ==
  /\ Top.operands # <<>>
  /\ global' = Operand
  /\ Become(WithOperands(Front(Top.operands)), functions, store)

AssignGlobal ==
  /\ Top.operands # <<>>
  /\ global # UNDEFINED
  /\ global' = Operand
  /\ UNCHANGED <<scopes, functions, store>>

Declare(v) ==
  /\ Len(Top.operands) = 1
  /\ v \notin DOMAIN store
  /\ Become(WithVariable(v), functions, Store(store, <<v>>, <<Operand>>))
  /\ UNCHANGED global

LeaveScope ==
  /\ Top.vars # <<>>
  /\ Become(WithTop([Top EXCEPT !.vars = Front(@)]), functions, store)
  /\ UNCHANGED global

(* A function expression, which captures its variables one by one.         *)
NewFunction(arity) ==
  /\ Become(WithOperands(Append(Top.operands, Len(functions) + 1)),
            Append(functions, [arity |-> arity, captured |-> <<>>]),
            store)
  /\ UNCHANGED global

(* A function declaration: its name is a variable that it may capture.     *)
DeclareFunction(v, arity) ==
  /\ Top.operands = <<>>
  /\ v \notin DOMAIN store
  /\ Become(WithVariable(v),
            Append(functions, [arity |-> arity, captured |-> <<>>]),
            Store(store, <<v>>, <<Len(functions) + 1>>))
  /\ UNCHANGED global

Capture(v) ==
  /\ functions # <<>>
  /\ v \in Visible
  /\ Become(scopes,
            ReplaceAt(functions, Len(functions),
                      [Last(functions) EXCEPT !.captured = Append(@, v)]),
            store)
  /\ UNCHANGED global

(* The arguments become the values of new variables.                       *)
Apply(vs) ==
  LET n    == Len(Top.operands) - Len(vs)
      args == SubSeq(Top.operands, n + 1, Len(Top.operands))
      f    == Top.operands[n]
  IN  /\ n >= 1
      /\ f \in DOMAIN functions
      /\ functions[f].arity = Len(vs)
      /\ Range(vs) \cap DOMAIN store = {}
      /\ IsInjective(vs)
      /\ Become(Append(WithOperands(SubSeq(Top.operands, 1, n - 1)), Call(f, vs)),
                functions, Store(store, vs, args))
      /\ UNCHANGED global

Return ==
  /\ Len(Top.operands) = 1
  /\ LET n      == Len(scopes) - 1
         caller == scopes[n]
     IN  Become(IF n = 0 THEN <<>>
                ELSE Append(SubSeq(scopes, 1, n - 1),
                            [caller EXCEPT !.operands = Append(@, Operand)]),
                functions, store)
  /\ UNCHANGED global

(* A runtime error ends every call; the variables that functions have      *)
(* captured live on.                                                       *)
Fail == Become(<<>>, functions, store) /\ UNCHANGED global

(* Sequences of up to MaxArity variables.                                  *)
Parameters == UNION {[1..n -> Variable] : n \in 0..MaxArity}

Step ==
  \/ \E x \in Data \cup DOMAIN functions : Evaluate(x)
  \/ \E v \in Variable : Assign(v) \/ Declare(v) \/ Capture(v)
  \/ \E arity \in 0..MaxArity :
       NewFunction(arity) \/ \E v \in Variable : DeclareFunction(v, arity)
  \/ \E vs \in Parameters : Apply(vs)
  \/ Discard \/ DefineGlobal \/ AssignGlobal \/ LeaveScope \/ Return \/ Fail

Next == Begin \/ (scopes # <<>> /\ Step)

Spec == Init /\ [][Next]_lexicalVars
=============================================================================
