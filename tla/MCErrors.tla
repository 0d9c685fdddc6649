------------------------------ MODULE MCErrors ------------------------------
(* Texts with anything wrong in them: from a beginning that has brought the *)
(* compiler into the middle of some construct, any tokens may follow.       *)
EXTENDS MCCompiler

Anything == {"a", "class", "fun", "var", "for", "if", "else", "return", "while",
             "print", "this", "super", "{", "}", "(", ")", ";", ",", ".", "=",
             "<", "number", "?", "eof"}
Brackets == {"class", "fun", "{", "}", "(", ")", ";", "a", ",", "=", "eof"}

Beginning(tokens, n) == Fixed(tokens) \o Places(Anything, n)

MCErrorTexts ==
  {Places(Brackets, 4), Places(Anything, 3)} \cup
  {Beginning(tokens, 2) : tokens \in
     {<<"class", "a", "{", "a", "(", ")", "{">>,
      <<"class", "a", "<", "b", "{", "a", "(", ")", "{", "super", ".">>,
      <<"{", "class", "a", "<", "b", "{", "a", "(", ")", "{", "}", "}">>,
      <<"class", "a", "{", "init", "(", ")", "{">>,
      <<"fun", "a", "(">>, <<"fun", "a", "(", "b", ")", "{">>,
      <<"{", "fun", "a", "(", "b", ",">>,
      <<"{", "var", "a", "=">>, <<"for", "(", "var", "a">>,
      <<"for", "(", ";", "a", ";">>, <<"while", "(", "a", ")">>,
      <<"if", "(", "a", ")", "a", ";", "else">>,
      <<"a", ".", "b", "(">>, <<"{", "{">>}}
=============================================================================
