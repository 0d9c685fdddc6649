------------------------------ MODULE Scanned ------------------------------
(***************************************************************************)
(* The tokens of scanner.c against the lexemes of the language.            *)
(***************************************************************************)
EXTENDS Scanner

Language == INSTANCE Lexemes

Text(from, end) == SubSeq(input, from, end - 1)
Rest(k)         == SubSeq(input, k, Len(input))

(* A token is the longest lexeme at its place, and of that lexeme's kind;  *)
(* an error token stands where no lexeme begins: it is one character, or   *)
(* the rest of the text after a quote that no other quote follows.         *)
NoLexeme(from, ends) == \A end \in ends : Language!KindOf(Text(from, end)) = "none"

IsLongest(t) ==
  CASE t.type = "eof"   -> t.start = Len(input) + 1
    [] t.type = "error" ->
         /\ NoLexeme(t.start, (t.start + 1)..(Len(input) + 1))
         /\ t.end = IF input[t.start] = Quote THEN Len(input) + 1 ELSE t.start + 1
    [] OTHER ->
         /\ Language!KindOf(Text(t.start, t.end)) = t.type
         /\ NoLexeme(t.start, (t.end + 1)..(Len(input) + 1))

LongestLexeme == \A t \in Range(tokens) : IsLongest(t)

(* One goes from one place to another over blanks: any set of places that  *)
(* has the first, and with a place those after a blank, has the last.      *)
Blank(from, to) ==
  \A S \in SUBSET (from..to) :
    /\ from \in S
    /\ \A k \in S : \A n \in Language!BlankLengths(Rest(k)) : k + n <= to => k + n \in S
    => to \in S

Ends(i)   == IF i = 0 THEN 1 ELSE tokens[i].end
Starts(i) == IF i > Len(tokens) THEN current ELSE tokens[i].start

(* The tokens follow each other in the text with nothing but blanks in     *)
(* between, and up to where the scanner is.                                *)
NothingIsLost ==
  \A i \in 0..Len(tokens) : Ends(i) <= Starts(i + 1) /\ Blank(Ends(i), Starts(i + 1))
=============================================================================
