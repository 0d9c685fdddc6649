----------------------------- MODULE MCCompiler -----------------------------
(* Kinds of text that lead the compiler into each of its corners: at each   *)
(* place of a text stand the tokens that may come there.                    *)
EXTENDS Compiled

Fixed(tokens)   == [i \in DOMAIN tokens |-> {tokens[i]}]
Places(tokens, n)  == [i \in 1..n |-> tokens]
One(tokens)     == <<tokens>>

MCNames == {"a", "b", "c", "init"}
Var  == {"a", "b"}
Var3 == {"a", "b", "c"}

(* Functions in functions, each free to use the variables of all.           *)
Nested ==
  Fixed(<<"{", "var">>) \o One(Var) \o Fixed(<<";", "var">>) \o One(Var) \o
  Fixed(<<";", "fun">>) \o One(Var3) \o Fixed(<<"(">>) \o One(Var) \o
  Fixed(<<")", "{", "fun", "c", "(", ")", "{">>) \o One(Var) \o One({"=", "+"}) \o
  One(Var3) \o Fixed(<<";">>) \o One(Var) \o Fixed(<<";", "}">>) \o One(Var) \o
  Fixed(<<";", "}", "{", "var">>) \o One(Var) \o Fixed(<<";">>) \o One(Var) \o
  Fixed(<<";", "}">>) \o One(Var3) \o Fixed(<<";", "}">>)

Siblings ==
  Fixed(<<"fun", "c", "(">>) \o One(Var) \o Fixed(<<",">>) \o One(Var) \o
  Fixed(<<")", "{", "fun">>) \o One(Var3) \o Fixed(<<"(", ")", "{", "fun">>) \o
  One(Var3) \o Fixed(<<"(", ")", "{">>) \o One(Var3) \o Fixed(<<";">>) \o One(Var) \o
  Fixed(<<"=">>) \o One(Var3) \o Fixed(<<";", "}">>) \o One(Var) \o
  Fixed(<<";", "}", "fun", "init", "(", ")", "{">>) \o One(Var3) \o
  Fixed(<<";", "}", "return">>) \o One(Var3) \o Fixed(<<";", "}">>)

(* Statements inside of each other, with what may follow left open.         *)
Branches ==
  Places({"if", "else", "while", "(", ")", ";", "b", "{", "}", "eof"}, 10)

Returns ==
  Fixed(<<"fun", "a", "(", ")", "{", "var", "b", ";">>) \o One({"if", "while"}) \o
  Fixed(<<"(", "b", ")">>) \o One({"return", "b", "{"}) \o One({";", "b", "var"}) \o
  One({"else", "return", ";", "a", "}"}) \o One({"b", "return", ";", "while", "{"}) \o
  One({";", "(", "}", "if"}) \o One({"b", "}", "("}) \o One({")", "}", ";", "b"}) \o
  One({"b", ")", "}", "return"}) \o One({";", "return", "}"}) \o Places({";", "}"}, 3)

Loop(initializer, n) ==
  Fixed(<<"{", "var", "a", ";", "for", "(">>) \o Fixed(initializer) \o
  Places({"b", "a", ";", ")", "{", "fun", "(", "}", "and"}, n)

(* A closure made in the body of a loop.                                    *)
Capturing ==
  Fixed(<<"{", "var", "a", ";", "for", "(", "var", "b", ";", "b", ";">>) \o
  One({"b", "a", ")"}) \o One({"=", "and", "fun"}) \o One({"a", "b", "c"}) \o
  Fixed(<<")", "{", "var">>) \o One(Var3) \o Fixed(<<";", "fun">>) \o One({"c", "b"}) \o
  Fixed(<<"(", ")", "{">>) \o One({"b", "return"}) \o One({"=", ";", "b"}) \o
  One({"c", "a", "}"}) \o Places({";", "}"}, 4)

(* Classes, local and global, with and without a superclass.                *)
Class(before, head, after) ==
  Fixed(before) \o Fixed(head) \o Fixed(<<"{">>) \o One({"init", "b"}) \o
  Fixed(<<"(", "c", ")", "{", "return">>) \o One({"this", "super", "c", ";"}) \o
  One({".", "}", ";"}) \o One({"b", "a", "}"}) \o One({"(", "=", ";"}) \o
  One(Var3 \cup {")"}) \o One({"=", ";", ")"}) \o One({"fun", "this", ";", "}"}) \o
  One({"a", ";", "."}) \o One({"(", "b", "}"}) \o One({")", ";"}) \o
  One({"{", "}"}) \o One({"super", "this", "}"}) \o One({".", "}"}) \o
  One({"b", "}"}) \o One({";", "("}) \o One({")", "}"}) \o One({";", "}"}) \o
  Fixed(<<"}", "}">>) \o Fixed(after)

Classes ==
  {Class(<<>>, <<"class", "a", "<", "b">>, <<>>),
   Class(<<>>, <<"class", "a">>, <<>>),
   Class(<<"{", "class", "b", "{", "}">>, <<"class", "a", "<", "b">>,
         <<"fun", "c", "(", ")", "{", "a", ";", "}", "}">>),
   Class(<<"{", "class", "b", "{", "c", "(", ")", "{">>, <<"class", "a">>,
         <<"}", "}", "}">>)}

MCExpression ==
  Places({"eof", "a", "=", "+", "==", "and", "or", "!", "(", ")", ".", ";"}, 8)

(* The rest of the rules table, one token at a time.                        *)
Operands ==
  Fixed(<<"print">>) \o One({"nil", "true", "false", "number", "string", "a", "-"}) \o
  One({"!=", "<", "<=", ">", ">=", "-", "*", "/", "("}) \o
  One({"number", "string", "-", "a"}) \o
  One({"*", "/", "-", "<=", "(", ")", ";", ","}) \o
  One({"number", "a", ")"}) \o One({";", ")", ","}) \o
  One({"a", ";", "eof"}) \o One({")", "eof"}) \o One({";"})

MCTexts == {Nested, Siblings, Branches, Returns, Loop(<<";">>, 9),
            Loop(<<"var", "b", ";">>, 8), Capturing, MCExpression, Operands} \cup Classes

(* compile() returns NULL after an error: such texts are not followed.      *)
NoError == ~parser.hadError
=============================================================================
