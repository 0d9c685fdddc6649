----------------------------- MODULE MCScanner -----------------------------
(* All texts of a few characters, and all words that are a keyword but for  *)
(* one letter or less.                                                      *)
EXTENDS Scanned

MCLetters == {"a", "c", "d", "e", "f", "h", "i", "l", "n", "o", "p", "r", "s", "t",
              "u", "v", "w", "_"}
MCDigits  == {"1"}

Characters == {"o", "r", "1", ".", "\"", "/", "\n", "=", "!", "@", " "}

Keywords ==
  {<<"a","n","d">>, <<"c","l","a","s","s">>, <<"e","l","s","e">>, <<"f","a","l","s","e">>,
   <<"f","o","r">>, <<"f","u","n">>, <<"i","f">>, <<"n","i","l">>, <<"o","r">>,
   <<"p","r","i","n","t">>, <<"r","e","t","u","r","n">>, <<"s","u","p","e","r">>,
   <<"t","h","i","s">>, <<"t","r","u","e">>, <<"v","a","r">>, <<"w","h","i","l","e">>}

Spaced(w) == w \o <<" ">>
Near(w) ==
  {w, Spaced(w)} \cup {RemoveAt(w, i) : i \in DOMAIN w}
    \cup {[w EXCEPT ![i] = c] : i \in DOMAIN w, c \in MCLetters}
    \cup {Append(w, c) : c \in MCLetters \cup MCDigits}

Brackets == {"(", ")", "{", "}", ";", ",", ".", "-", "+", "/", "*", "!", "=", "<", ">",
             "\t", "\r"}

MCInputs ==
  UNION {[1..n -> Characters] : n \in 0..5} \cup UNION {Near(w) : w \in Keywords}
    \cup [1..2 -> Brackets]
=============================================================================
