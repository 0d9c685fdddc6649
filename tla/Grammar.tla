------------------------------ MODULE Grammar ------------------------------
(***************************************************************************)
(* The expressions of the language by their grammar: one level for each    *)
(* precedence, operators associating to the left, a variable or a property *)
(* on the left of an assignment.  A derivation is the pair of the tokens   *)
(* and the instructions that evaluate them, operands left out.             *)
(*                                                                         *)
(* The vocabulary is one name, one operator for each level below, calls    *)
(* and properties.                                                         *)
(***************************************************************************)
EXTENDS Naturals, SequencesExt

CONSTANT Name0  \* the one name

Levels == <<"assignment", "or", "and", "equality", "term", "unary", "call">>

Operator(level) ==
  CASE level = "or"       -> [token |-> "or",  before |-> <<"JUMP_IF_FALSE", "JUMP", "POP">>,
                              after |-> <<>>]
    [] level = "and"      -> [token |-> "and", before |-> <<"JUMP_IF_FALSE", "POP">>,
                              after |-> <<>>]
    [] level = "equality" -> [token |-> "==",  before |-> <<>>, after |-> <<"EQUAL">>]
    [] level = "term"     -> [token |-> "+",   before |-> <<>>, after |-> <<"ADD">>]

Both(left, right, operator) ==
  [text |-> left.text \o <<operator.token>> \o right.text,
   code |-> left.code \o operator.before \o right.code \o operator.after]

Assigned(target, value) ==
  IF Len(target.text) = 1
  THEN {[text |-> target.text \o <<"=">> \o value.text,
         code |-> value.code \o <<"SET_GLOBAL">>]}
  ELSE IF Last(target.code) = "GET_PROPERTY" /\ Last(target.text) = Name0
  THEN {[text |-> target.text \o <<"=">> \o value.text,
         code |-> Front(target.code) \o value.code \o <<"SET_PROPERTY">>]}
  ELSE {}

(* A call of a property is one instruction, not the two it stands for.     *)
Called(callee, arguments) ==
  IF Last(callee.code) = "GET_PROPERTY" /\ Last(callee.text) = Name0
  THEN [text |-> callee.text \o <<"(">> \o arguments.text \o <<")">>,
        code |-> Front(callee.code) \o arguments.code \o <<"INVOKE">>]
  ELSE [text |-> callee.text \o <<"(">> \o arguments.text \o <<")">>,
        code |-> callee.code \o arguments.code \o <<"CALL">>]

RECURSIVE Derivations(_, _)

(* The derivations from a level that have n tokens.                        *)
Derivations(l, n) ==
  LET level == Levels[l]
      Next(k) == Derivations(l + 1, k)
      expression(k) == Derivations(1, k)
  IN  IF n < 1 THEN {} ELSE
      CASE level = "assignment" ->
             Next(n) \cup
             UNION {Assigned(t, v) : <<t, v>> \in
                      UNION {Derivations(7, k) \X expression(n - 1 - k) : k \in 1..(n - 2)}}
        [] level \in {"or", "and", "equality", "term"} ->
             Next(n) \cup
             {Both(d[1], d[2], Operator(level)) :
                d \in UNION {Derivations(l, k) \X Next(n - 1 - k) : k \in 1..(n - 2)}}
        [] level = "unary" ->
             Next(n) \cup
             {[text |-> <<"!">> \o d.text, code |-> d.code \o <<"NOT">>] :
                d \in Derivations(l, n - 1)}
        [] OTHER ->
             (IF n = 1 THEN {[text |-> <<Name0>>, code |-> <<"GET_GLOBAL">>]} ELSE {})
             \cup {[text |-> <<"(">> \o d.text \o <<")">>, code |-> d.code] :
                     d \in expression(n - 2)}
             \cup {[text |-> d.text \o <<".", Name0>>,
                    code |-> d.code \o <<"GET_PROPERTY">>] :
                     d \in Derivations(l, n - 2)}
             \cup {Called(d, [text |-> <<>>, code |-> <<>>]) :
                     d \in Derivations(l, n - 2)}
             \cup {Called(d[1], d[2]) :
                     d \in UNION {Derivations(l, k) \X expression(n - 2 - k) :
                                    k \in 1..(n - 3)}}
=============================================================================
