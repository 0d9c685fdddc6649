------------------------------ MODULE MCLimits ------------------------------
(* A byte of two bits: four constants, slots, upvalues and parameters, and  *)
(* jumps over no more than fifteen bytes.                                   *)
EXTENDS MCCompiler

MCManyNames == {"a", "b", "c", "d", "e", "init"}

RECURSIVE Repeat(_, _)
Repeat(places, n) == IF n = 0 THEN <<>> ELSE places \o Repeat(places, n - 1)

Declared(names) == FoldLeft(LAMBDA places, name : places \o Fixed(<<"var", name, ";">>),
                            <<>>, names)

Locals ==
  Fixed(<<"{">>) \o
  Repeat(One({"var", "fun", "}"}) \o One({"a", "d"}) \o One({";", "("}), 2) \o
  Declared(<<"b", "c">>) \o One({"e", "b", "var", "}"}) \o One({";", "e"}) \o
  Places({";", "}", "eof"}, 2)

Parameters ==
  Fixed(<<"fun", "a", "(">>) \o One(MCManyNames) \o
  Repeat(One({",", ")"}) \o One({"b", "c", "d", "e", "{"}), 4) \o
  Places({")", "{", "}", "e", ";"}, 4)

Arguments ==
  Fixed(<<"{", "var", "b", ";", "b", "(", "b">>) \o
  Repeat(One({",", ")"}) \o One({"b", ";"}), 3) \o One({",", ")"}) \o One({"b", "}"}) \o
  Fixed(<<")", ";", "b", ";", "}">>)

Constants ==
  Places({"a", "number", ";", ".", "+", "class", "{", "}"}, 9)

(* Two functions around the one that refers to the variables of both.       *)
Upvalues ==
  Fixed(<<"{">>) \o Declared(<<"a", "b">>) \o Fixed(<<"{", "fun", "d", "(", ")", "{">>) \o
  Declared(<<"d", "e">>) \o Fixed(<<"fun", "init", "(", ")", "{">>) \o
  Repeat(One(MCManyNames) \o Fixed(<<";">>), 5) \o Fixed(<<"}", "}", "}", "}">>)

(* Bodies too long to be jumped over, forwards and backwards.               *)
Long(tokens) ==
  Fixed(<<"{", "var", "a", ";">>) \o Fixed(tokens) \o
  Places({"a", ";", "}", ")", "!", "else", "eof"}, 12)

MCLimitTexts ==
  {Locals, Parameters, Arguments, Constants, Upvalues} \cup
  {Long(tokens) : tokens \in
     {<<"while", "(", "a", ")", "{">>, <<"if", "(", "a", ")", "{">>,
      <<"if", "(", "a", ")", "a", ";", "else", "{">>, <<"a", "and">>, <<"a", "or">>,
      <<"for", "(", ";", ";">>, <<"for", "(", ";", "a", ";", ")", "{">>,
      <<"for", "(", ";", "a", ";", "a", ")", "{">>}}
=============================================================================
