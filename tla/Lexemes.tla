------------------------------ MODULE Lexemes ------------------------------
(***************************************************************************)
(* What a text is made of, as the language defines it: kinds of lexemes by *)
(* the characters they may have, and the blanks that may stand in between. *)
(* A text is a sequence of characters, of one-character strings.           *)
(***************************************************************************)
EXTENDS Naturals, SequencesExt

CONSTANTS Letters, Digits

Keyword(w) ==
  CASE w = <<"a","n","d">> -> "and"     [] w = <<"c","l","a","s","s">> -> "class"
    [] w = <<"e","l","s","e">> -> "else"  [] w = <<"f","a","l","s","e">> -> "false"
    [] w = <<"f","o","r">> -> "for"     [] w = <<"f","u","n">> -> "fun"
    [] w = <<"i","f">> -> "if"          [] w = <<"n","i","l">> -> "nil"
    [] w = <<"o","r">> -> "or"          [] w = <<"p","r","i","n","t">> -> "print"
    [] w = <<"r","e","t","u","r","n">> -> "return"
    [] w = <<"s","u","p","e","r">> -> "super"
    [] w = <<"t","h","i","s">> -> "this"  [] w = <<"t","r","u","e">> -> "true"
    [] w = <<"v","a","r">> -> "var"     [] w = <<"w","h","i","l","e">> -> "while"
    [] OTHER -> "identifier"

Punctuation ==
  {<<"(">>, <<")">>, <<"{">>, <<"}">>, <<";">>, <<",">>, <<".">>, <<"-">>, <<"+">>,
   <<"/">>, <<"*">>, <<"!">>, <<"=">>, <<"<">>, <<">">>,
   <<"!", "=">>, <<"=", "=">>, <<"<", "=">>, <<">", "=">>}

IsWord(w)   == w # <<>> /\ w[1] \in Letters /\ ToSet(w) \subseteq Letters \cup Digits
IsDigits(w) == w # <<>> /\ ToSet(w) \subseteq Digits
IsNumber(w) ==
  \/ IsDigits(w)
  \/ \E p \in DOMAIN w : /\ w[p] = "." /\ IsDigits(SubSeq(w, 1, p - 1))
                         /\ IsDigits(SubSeq(w, p + 1, Len(w)))
IsString(w) ==
  Len(w) > 1 /\ {i \in DOMAIN w : w[i] = "\""} = {1, Len(w)}

(* The kind of token w is, "none" if it is none.                           *)
KindOf(w) ==
  CASE IsWord(w)         -> Keyword(w)
    [] IsNumber(w)       -> "number"
    [] IsString(w)       -> "string"
    [] w \in Punctuation -> "punctuation"
    [] OTHER             -> "none"

(* Spaces, newlines, and comments, which end before a newline or with the  *)
(* text; rest is the text from the blank on.                               *)
IsComment(w) == Len(w) > 1 /\ w[1] = "/" /\ w[2] = "/" /\ "\n" \notin ToSet(w)

BlankLengths(rest) ==
  {n \in 1..Len(rest) :
     LET w == SubSeq(rest, 1, n)
     IN  \/ w \in {<<" ">>, <<"\t">>, <<"\r">>, <<"\n">>}
         \/ IsComment(w) /\ (n = Len(rest) \/ rest[n + 1] = "\n")}
=============================================================================
