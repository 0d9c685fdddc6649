----------------------------- MODULE MCRooting -----------------------------
(* Programs that lead the machine to each instruction that allocates, with  *)
(* anything after that.                                                     *)
EXTENDS Rooting

Exactly(actions)   == [i \in DOMAIN actions |-> {actions[i]}]
Places(n, actions) == [i \in 1..n |-> actions]

Compile == {"string", "function", "end function"}
Machine ==
  {"pushValue", "OP_POP", "OP_DEFINE_GLOBAL", "OP_SET_GLOBAL", "OP_ADD",
   "OP_GET_PROPERTY", "OP_SET_PROPERTY", "OP_GET_SUPER", "OP_CALL", "OP_INVOKE",
   "OP_CLOSURE", "OP_CLOSE_UPVALUE", "OP_RETURN", "OP_CLASS", "OP_INHERIT", "OP_METHOD"}

(* A script of a string and of a function, which has a string as well.      *)
Script ==
  Exactly(<<"interpret", "string", "function", "string", "end function", "run">>)

(* A function in a function.                                                *)
Nested ==
  Exactly(<<"interpret", "function", "function", "end function", "end function", "run">>)

(* The script declares a class with a method, and makes an instance.        *)
Instance ==
  Script \o Exactly(<<"OP_CLASS", "OP_CLOSURE", "OP_METHOD", "pushValue", "OP_CALL">>)

(* A line of the REPL that ends in an error with the upvalue of a global's  *)
(* closure open, and what can follow it: lines that compile and run, and    *)
(* one that calls the closure, which reads the variable it captured.        *)
Failing ==
  Exactly(<<"interpret", "string", "function", "end function", "run",
            "OP_CLASS", "OP_CLASS", "OP_CLOSURE", "OP_DEFINE_GLOBAL", "fail">>)
Calling ==
  Exactly(<<"interpret", "string", "run", "pushValue", "OP_CALL", "pushValue">>)

MCPrograms ==
  {Exactly(<<"interpret">>) \o Places(4, Compile) \o
     Exactly(<<"error", "interpret", "run">>),
   Script \o Places(3, Machine),
   Script \o Exactly(<<"pushValue", "pushValue", "OP_ADD", "pushValue", "OP_ADD">>),
   Exactly(<<"interpret", "string", "string", "run", "OP_CLASS", "OP_CALL", "pushValue",
             "pushValue", "OP_SET_PROPERTY", "OP_POP", "OP_DEFINE_GLOBAL", "pushValue",
             "OP_RETURN", "interpret">>),
   Script \o Exactly(<<"OP_CLOSURE", "OP_CLOSURE", "OP_CLOSE_UPVALUE">>),
   Script \o Exactly(<<"OP_CLASS", "OP_CLOSURE", "OP_METHOD", "OP_CLASS", "OP_INHERIT">>),
   Nested \o Exactly(<<"OP_CLOSURE", "OP_CALL", "OP_CLOSURE", "OP_RETURN">>),
   Instance \o Places(2, Machine),
   Instance \o Exactly(<<"pushValue", "pushValue", "OP_SET_PROPERTY", "OP_POP">>) \o
     <<{"OP_GET_PROPERTY", "OP_INVOKE"}>>,
   Instance \o Exactly(<<"OP_INVOKE", "pushValue">>) \o
     <<{"OP_GET_SUPER", "OP_GET_PROPERTY", "OP_CLOSURE"}>> \o Exactly(<<"OP_CALL">>),
   Script \o Places(1, Machine) \o <<{"fail", "OP_RETURN"}>> \o
     Exactly(<<"interpret", "run">>),
   Failing \o Calling}
=============================================================================
