------------------------------ MODULE Scanner ------------------------------
(***************************************************************************)
(* The scanner of scanner.c.  A call of scanToken() is a run of steps: one *)
(* for each round of the loop in skipWhitespace(), then the one that makes *)
(* the token.  The compiler calls it until it has been given the end of    *)
(* the text, and may call it again then.                                   *)
(*                                                                         *)
(* scanner.start and scanner.current are positions in the text, from 1; at *)
(* Len(input) + 1 there is the NUL that ends it.                           *)
(***************************************************************************)
EXTENDS Naturals, SequencesExt

CONSTANTS
  Letters, Digits,  \* the characters of isAlpha() and of isDigit()
  Inputs            \* the texts

NUL == "NUL"

Quote == "\""
Whitespace == {" ", "\r", "\t", "\n"}
Single == {"(", ")", "{", "}", ";", ",", ".", "-", "+", "/", "*"}
Double == {"!", "=", "<", ">"}  \* those that "=" may follow

ASSUME ScannerAssumption ==
  /\ (Letters \cup Digits) \cap ({NUL, Quote} \cup Whitespace \cup Single \cup Double) = {}
  /\ Quote \notin {NUL} \cup Whitespace \cup Single \cup Double
  /\ Letters \cap Digits = {}
  /\ \A s \in Inputs : s \in Seq(STRING) /\ NUL \notin Range(s)

VARIABLES
  input,
  start, current, line,  \* Scanner
  tokens                 \* the tokens returned so far: type, place and line

vars == <<input, start, current, line, tokens>>

CharAt(k) == IF k <= Len(input) THEN input[k] ELSE NUL
isAtEnd   == current > Len(input)
peek      == CharAt(current)
peekNext  == IF isAtEnd THEN NUL ELSE CharAt(current + 1)

(* Where a loop stops that advances from k over any of the characters.     *)
Past(chars, k) ==
  CHOOSE j \in k..(Len(input) + 1) :
    CharAt(j) \notin chars /\ \A i \in k..(j - 1) : CharAt(i) \in chars

Newlines(from, to) == {k \in from..to : CharAt(k) = "\n"}

---------------------------------------------------------------------------
(* skipWhitespace, by the character it finds.                              *)

\* Variant: the loop does not advance over a carriage return.
blankStaying ==
  /\ peek \in Whitespace
  /\ current' = IF peek = "\r" THEN current ELSE current + 1
  /\ line' = IF peek = "\n" THEN line + 1 ELSE line
  /\ UNCHANGED <<input, start, tokens>>

blank ==
  /\ peek \in Whitespace
  /\ current' = current + 1
  /\ line' = IF peek = "\n" THEN line + 1 ELSE line
  /\ UNCHANGED <<input, start, tokens>>

InComment == Range(input) \ {"\n"}

\* Variant: a comment begins with one slash.
AtSlash == peek = "/"

AtComment == peek = "/" /\ peekNext = "/"

comment ==
  /\ AtComment
  /\ current' = Past(InComment, current)
  /\ UNCHANGED <<input, start, line, tokens>>

AtToken == peek \notin Whitespace /\ ~AtComment

---------------------------------------------------------------------------
Types ==
  {"and", "class", "else", "false", "for", "fun", "if", "nil", "or", "print",
   "return", "super", "this", "true", "var", "while", "identifier", "number",
   "string", "punctuation", "error", "eof"}

(* makeToken and errorToken: the token ends before position end.           *)
Token(type, end, lines) ==
  /\ start' = current
  /\ current' = end
  /\ line' = line + lines
  /\ tokens' = Append(tokens, [type |-> type, start |-> current, end |-> end,
                               line |-> line + lines])
  /\ UNCHANGED input

checkKeyword(word, begin, rest, type) ==
  IF SubSeq(word, begin + 1, Len(word)) = rest THEN type ELSE "identifier"

identifierType(word) ==
  LET Check(begin, rest, type) == checkKeyword(word, begin, rest, type)
      second == IF Len(word) > 1 THEN word[2] ELSE NUL
  IN  CASE word[1] = "a" -> Check(1, <<"n","d">>, "and")
        [] word[1] = "c" -> Check(1, <<"l","a","s","s">>, "class")
        [] word[1] = "e" -> Check(1, <<"l","s","e">>, "else")
        [] word[1] = "f" /\ second = "a" -> Check(2, <<"l","s","e">>, "false")
        [] word[1] = "f" /\ second = "o" -> Check(2, <<"r">>, "for")
        [] word[1] = "f" /\ second = "u" -> Check(2, <<"n">>, "fun")
        [] word[1] = "i" -> Check(1, <<"f">>, "if")
        [] word[1] = "n" -> Check(1, <<"i","l">>, "nil")
        [] word[1] = "o" -> Check(1, <<"r">>, "or")
        [] word[1] = "p" -> Check(1, <<"r","i","n","t">>, "print")
        [] word[1] = "r" -> Check(1, <<"e","t","u","r","n">>, "return")
        [] word[1] = "s" -> Check(1, <<"u","p","e","r">>, "super")
        [] word[1] = "t" /\ second = "h" -> Check(2, <<"i","s">>, "this")
        [] word[1] = "t" /\ second = "r" -> Check(2, <<"u","e">>, "true")
        [] word[1] = "v" -> Check(1, <<"a","r">>, "var")
        [] word[1] = "w" -> Check(1, <<"h","i","l","e">>, "while")
        [] OTHER -> "identifier"

identifier ==
  /\ AtToken /\ peek \in Letters
  /\ LET end == Past(Letters \cup Digits, current + 1)
     IN  Token(identifierType(SubSeq(input, current, end - 1)), end, 0)

\* Variant: a point after the digits always belongs to the number.
numberWithPoint ==
  /\ AtToken /\ peek \in Digits
  /\ LET point == Past(Digits, current + 1)
     IN  Token("number", IF CharAt(point) = "." THEN Past(Digits, point + 1)
                                                ELSE point, 0)

(* The point belongs to the number only if a digit follows it.             *)
number ==
  /\ AtToken /\ peek \in Digits
  /\ LET point == Past(Digits, current + 1)
         fraction == CharAt(point) = "." /\ CharAt(point + 1) \in Digits
     IN  Token("number", IF fraction THEN Past(Digits, point + 1) ELSE point, 0)

InString == Range(input) \ {Quote}

\* Variant: the lines that a string goes over are not counted.
stringOnOneLine ==
  /\ AtToken /\ peek = Quote
  /\ LET quote == Past(InString, current + 1)
     IN  IF CharAt(quote) = NUL THEN Token("error", quote, 0)
         ELSE Token("string", quote + 1, 0)

\* Variant: the end of the text is taken for the closing quote.
stringToTheEnd ==
  /\ AtToken /\ peek = Quote
  /\ LET quote == Past(InString, current + 1)
     IN  Token("string", quote + 1, Cardinality(Newlines(current + 1, quote - 1)))

string ==
  /\ AtToken /\ peek = Quote
  /\ LET quote == Past(InString, current + 1)
         lines == Cardinality(Newlines(current + 1, quote - 1))
     IN  IF CharAt(quote) = NUL THEN Token("error", quote, lines)
         ELSE Token("string", quote + 1, lines)

punctuation ==
  /\ AtToken
  /\ \/ /\ peek \in Single
        /\ Token("punctuation", current + 1, 0)
     \/ /\ peek \in Double
        /\ Token("punctuation",
                 current + IF peekNext = "=" THEN 2 ELSE 1, 0)

Expected == Letters \cup Digits \cup Single \cup Double \cup {Quote}

unexpected ==
  /\ AtToken /\ ~isAtEnd /\ peek \notin Expected
  /\ Token("error", current + 1, 0)

Ended == tokens # <<>> /\ Last(tokens).type = "eof"

(* At the end every call returns the same token.                           *)
atEnd ==
  /\ isAtEnd
  /\ IF Ended THEN UNCHANGED vars ELSE Token("eof", current, 0)

---------------------------------------------------------------------------
(* initScanner.                                                            *)
Init ==
  /\ input \in Inputs
  /\ start = 1 /\ current = 1 /\ line = 1
  /\ tokens = <<>>

Next == blank \/ comment \/ identifier \/ number \/ string \/ punctuation
          \/ unexpected \/ atEnd

(* The compiler goes on asking for tokens until it is given the end.       *)
Spec == Init /\ [][Next]_vars /\ WF_vars(Next)

---------------------------------------------------------------------------
(* The scanner never goes past the NUL that ends the text, which is all    *)
(* that bounds its loops.                                                  *)
TypeOK ==
  /\ input \in Seq(STRING)
  /\ start \in Nat \ {0} /\ start <= current
  /\ current \in Nat /\ current <= Len(input) + 1
  /\ line \in Nat \ {0}
  /\ tokens \in Seq([type : Types, start : Nat, end : Nat, line : Nat])

(* A token has the number of the line on which it ends: what error         *)
(* messages and the line table of the code are made from.                  *)
LinesAreCounted ==
  \A i \in DOMAIN tokens :
    tokens[i].line = 1 + Cardinality(Newlines(1, tokens[i].end - 1))

(* Token by token it comes to the end of every text.                       *)
ReachesTheEnd == <>Ended
=============================================================================
