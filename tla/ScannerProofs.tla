--------------------------- MODULE ScannerProofs ---------------------------
(***************************************************************************)
(* The scanner stays within its text and counts every line, whatever the   *)
(* text is: by induction over its steps, with the number of newlines left  *)
(* of scanner.current as the meaning of scanner.line.                      *)
(***************************************************************************)
EXTENDS Scanned, FiniteSetTheorems, SequenceTheorems, NaturalsInduction, WellFoundedInduction, TLAPS

IsText == input \in Seq(STRING) /\ NUL \notin Range(input)

IInv ==
  /\ IsText
  /\ TypeOK
  /\ line = 1 + Cardinality(Newlines(1, current - 1))
  /\ LinesAreCounted

---------------------------------------------------------------------------
(* A set of natural numbers has a least element.                           *)
LEMMA Least ==
  ASSUME NEW T, T \subseteq Nat, T # {}
  PROVE  \E m \in T : \A n \in T : m <= n
<1>1. PICK m \in T : \A n \in T : <<n, m>> \notin OpToRel(<, Nat)
  BY WFMin, NatLessThanWellFounded
<1>2. \A n \in T : ~(n < m)
  BY <1>1 DEF OpToRel
<1> QED BY <1>2

(* A loop over characters stops, at the first that is none of them.        *)
LEMMA PastStops ==
  ASSUME IsText, NEW chars, NUL \notin chars, NEW k \in 1..(Len(input) + 1)
  PROVE  /\ Past(chars, k) \in k..(Len(input) + 1)
         /\ CharAt(Past(chars, k)) \notin chars
         /\ \A i \in k..(Past(chars, k) - 1) : CharAt(i) \in chars
<1> DEFINE T == {j \in k..(Len(input) + 1) : CharAt(j) \notin chars}
<1>1. Len(input) \in Nat
  BY DEF IsText
<1>2. CharAt(Len(input) + 1) = NUL
  BY <1>1 DEF CharAt
<1>3. Len(input) + 1 \in T /\ T \subseteq Nat
  BY <1>1, <1>2
<1>4. PICK m \in T : \A n \in T : m <= n
  BY <1>3, Least
<1>5. \A i \in k..(m - 1) : CharAt(i) \in chars
  BY <1>1, <1>4
<1> QED BY <1>4, <1>5 DEF Past

LEMMA NewlinesFinite ==
  ASSUME NEW a \in Nat, NEW b \in Int
  PROVE  IsFiniteSet(Newlines(a, b)) /\ Cardinality(Newlines(a, b)) \in Nat
<1>1. IsFiniteSet(a..b)
  BY FS_Interval
<1>2. Newlines(a, b) \subseteq a..b
  BY DEF Newlines
<1>3. IsFiniteSet(Newlines(a, b))
  BY <1>1, <1>2, FS_Subset
<1> QED BY <1>3, FS_CardinalityType

(* The newlines up to b are those before a and those from a on.            *)
LEMMA NewlinesAdd ==
  ASSUME NEW a \in Nat \ {0}, NEW b \in Nat, a <= b + 1
  PROVE  Cardinality(Newlines(1, b))
           = Cardinality(Newlines(1, a - 1)) + Cardinality(Newlines(a, b))
<1> DEFINE S == Newlines(1, a - 1)
           T == Newlines(a, b)
<1>1. IsFiniteSet(S) /\ IsFiniteSet(T)
  BY NewlinesFinite
<1>2. S \cap T = {}
  BY DEF Newlines
<1>3. S \cup T = Newlines(1, b)
  BY DEF Newlines
<1>4. Cardinality(S) \in Nat /\ Cardinality(T) \in Nat
  BY <1>1, FS_CardinalityType
<1>5. Cardinality(S \cap T) = 0
  BY <1>2, FS_EmptySet
<1>6. Cardinality(S \cup T) = Cardinality(S) + Cardinality(T) - Cardinality(S \cap T)
  BY <1>1, FS_Union
<1> QED BY <1>3, <1>4, <1>5, <1>6

---------------------------------------------------------------------------
(* A token that counts the newlines it goes over.                          *)
LEMMA TokenStep ==
  ASSUME IInv, NEW type \in Types, NEW end \in (current)..(Len(input) + 1),
         NEW lines, lines = Cardinality(Newlines(current, end - 1)),
         Token(type, end, lines)
  PROVE  IInv'
<1> DEFINE t == [type |-> type, start |-> current, end |-> end, line |-> line + lines]
<1>1. /\ Len(input) \in Nat /\ current \in Nat \ {0} /\ current <= Len(input) + 1
      /\ end \in Nat \ {0} /\ line \in Nat \ {0}
  BY DEF IInv, TypeOK, IsText
<1>2. lines \in Nat
  BY <1>1, NewlinesFinite
<1>3. /\ input' = input /\ start' = current /\ current' = end /\ line' = line + lines
      /\ tokens' = Append(tokens, t)
  BY DEF Token
<1>4. line' = 1 + Cardinality(Newlines(1, end - 1))
  <2>1. Cardinality(Newlines(1, end - 1))
          = Cardinality(Newlines(1, current - 1)) + lines
    BY <1>1, NewlinesAdd
  <2>2. Cardinality(Newlines(1, current - 1)) \in Nat
    <3>1. IsFiniteSet(Newlines(1, current - 1))
      BY <1>1, NewlinesFinite
    <3> QED BY <3>1, FS_CardinalityType
  <2> QED BY <1>2, <1>3, <2>1, <2>2 DEF IInv
<1>5. TypeOK'
  <2>1. t \in [type : Types, start : Nat, end : Nat, line : Nat]
    BY <1>1, <1>2
  <2>2. tokens' \in Seq([type : Types, start : Nat, end : Nat, line : Nat])
    BY <1>3, <2>1 DEF IInv, TypeOK
  <2> QED BY <1>1, <1>2, <1>3, <2>2 DEF IInv, TypeOK
<1>6. \A a, b : Newlines(a, b)' = Newlines(a, b)
  BY <1>3 DEF Newlines, CharAt
<1>7. LinesAreCounted'
  <2> SUFFICES ASSUME NEW i \in DOMAIN tokens'
               PROVE  tokens'[i].line = 1 + Cardinality(Newlines(1, tokens'[i].end - 1))
    BY <1>6 DEF LinesAreCounted
  <2>1. CASE i \in DOMAIN tokens
    BY <1>3, <2>1 DEF IInv, TypeOK, LinesAreCounted
  <2>2. CASE i \notin DOMAIN tokens
    <3>1. Len(tokens) \in Nat /\ DOMAIN tokens = 1..Len(tokens)
      BY DEF IInv, TypeOK
    <3>2. i \in 1..(Len(tokens) + 1) /\ i \notin 1..Len(tokens)
      BY <1>3, <2>2, <3>1 DEF IInv, TypeOK
    <3>3. i = Len(tokens) + 1
      BY <3>1, <3>2
    <3>4. tokens'[i] = t
      BY <1>3, <3>3 DEF IInv, TypeOK
    <3> QED BY <1>3, <1>4, <3>4
  <2> QED BY <2>1, <2>2
<1> QED BY <1>3, <1>4, <1>5, <1>6, <1>7 DEF IInv, IsText

LEMMA PeekChar ==
  ASSUME IInv, peek # NUL
  PROVE  current \in 1..Len(input) /\ peek = input[current]
BY DEF IInv, TypeOK, peek, CharAt

(* A step that makes no token, over characters none of which, or only the  *)
(* first, is a newline.                                                    *)
LEMMA BlankStep ==
  ASSUME IInv, NEW end \in current..(Len(input) + 1), current' = end,
         line' = line + Cardinality(Newlines(current, end - 1)),
         UNCHANGED <<input, start, tokens>>
  PROVE  IInv'
<1>1. /\ Len(input) \in Nat /\ current \in Nat \ {0} /\ current <= Len(input) + 1
      /\ end \in Nat \ {0} /\ line \in Nat \ {0}
      /\ start \in Nat \ {0} /\ start <= current
  BY DEF IInv, TypeOK, IsText
<1>2. /\ IsFiniteSet(Newlines(current, end - 1))
      /\ IsFiniteSet(Newlines(1, current - 1))
  BY <1>1, NewlinesFinite
<1>3. /\ Cardinality(Newlines(current, end - 1)) \in Nat
      /\ Cardinality(Newlines(1, current - 1)) \in Nat
  BY <1>2, FS_CardinalityType
<1>4. Cardinality(Newlines(1, end - 1))
        = Cardinality(Newlines(1, current - 1)) + Cardinality(Newlines(current, end - 1))
  BY <1>1, NewlinesAdd
<1>5. \A a, b : Newlines(a, b)' = Newlines(a, b)
  BY DEF Newlines, CharAt
<1>6. line' = 1 + Cardinality(Newlines(1, end - 1))
  BY <1>1, <1>3, <1>4 DEF IInv
<1>7. TypeOK'
  BY <1>1, <1>3 DEF IInv, TypeOK
<1> QED BY <1>5, <1>6, <1>7 DEF IInv, IsText, LinesAreCounted

---------------------------------------------------------------------------
(* The steps.                                                              *)

LEMMA blankStep == IInv /\ blank => IInv'
<1> SUFFICES ASSUME IInv, blank PROVE IInv'
  OBVIOUS
<1>1. current \in 1..Len(input)
  BY PeekChar, ScannerAssumption DEF blank, Whitespace, NUL
<1>2. line' = line + Cardinality(Newlines(current, current))
  <2>1. CASE peek = "\n"
    <3>1. Newlines(current, current) = {current}
      BY <1>1, <2>1 DEF Newlines, peek
    <3>2. Cardinality({current}) = 1
      BY FS_Singleton
    <3> QED BY <2>1, <3>1, <3>2 DEF blank
  <2>2. CASE peek # "\n"
    <3>1. Newlines(current, current) = {}
      BY <1>1, <2>2 DEF Newlines, peek
    <3>2. Cardinality(Newlines(current, current)) = 0
      BY <3>1, FS_EmptySet
    <3> QED BY <2>2, <3>2 DEF blank, IInv, TypeOK
  <2> QED BY <2>1, <2>2
<1>3. /\ current + 1 \in current..(Len(input) + 1)
      /\ current + 1 - 1 = current
  BY <1>1
<1>4. current' = current + 1 /\ UNCHANGED <<input, start, tokens>>
  BY DEF blank
<1>5. PICK end : end = current + 1
  OBVIOUS
<1>6. /\ end \in current..(Len(input) + 1) /\ current' = end
      /\ end - 1 = current
  BY <1>1, <1>3, <1>4, <1>5
<1>7. line' = line + Cardinality(Newlines(current, end - 1))
  BY <1>2, <1>6
<1> QED BY <1>4, <1>6, <1>7, BlankStep

LEMMA commentStep == IInv /\ comment => IInv'
<1> SUFFICES ASSUME IInv, comment PROVE IInv'
  OBVIOUS
<1>1. current \in 1..Len(input)
  BY PeekChar DEF comment, AtComment, NUL
<1>2. PICK end : end = Past(InComment, current)
  OBVIOUS
<1>3. /\ end \in current..(Len(input) + 1)
      /\ \A i \in current..(end - 1) : CharAt(i) \in InComment
  <2>1. NUL \notin InComment
    BY DEF InComment, IInv, IsText
  <2>2. current \in 1..(Len(input) + 1)
    BY <1>1
  <2> QED BY <1>2, <2>1, <2>2, PastStops DEF IInv
<1>4. Cardinality(Newlines(current, end - 1)) = 0
  <2>1. Newlines(current, end - 1) = {}
    BY <1>1, <1>3 DEF Newlines, InComment
  <2> QED BY <2>1, FS_EmptySet
<1>5. /\ current' = end /\ UNCHANGED <<input, start, tokens>>
      /\ line' = line + Cardinality(Newlines(current, end - 1))
  BY <1>2, <1>4 DEF comment, IInv, TypeOK
<1> QED BY <1>3, <1>5, BlankStep

LEMMA identifierStep == IInv /\ identifier => IInv'
<1> SUFFICES ASSUME IInv, identifier PROVE IInv'
  OBVIOUS
<1>1. current \in 1..Len(input) /\ CharAt(current) \in Letters \cup Digits
  BY PeekChar, ScannerAssumption DEF identifier, peek
<1>2. PICK end : end = Past(Letters \cup Digits, current + 1)
  OBVIOUS
<1>3. /\ end \in (current + 1)..(Len(input) + 1)
      /\ \A i \in (current + 1)..(end - 1) : CharAt(i) \in Letters \cup Digits
  <2>1. NUL \notin Letters \cup Digits
    BY ScannerAssumption
  <2>2. current + 1 \in 1..(Len(input) + 1)
    BY <1>1
  <2> QED BY <1>2, <2>1, <2>2, PastStops DEF IInv
<1>4. Cardinality(Newlines(current, end - 1)) = 0
  <2>1. "\n" \notin Letters \cup Digits
    BY ScannerAssumption DEF Whitespace
  <2>2. Newlines(current, end - 1) = {}
    BY <1>1, <1>3, <2>1 DEF Newlines
  <2> QED BY <2>2, FS_EmptySet
<1>5. PICK type \in Types : Token(type, end, 0)
  <2>1. identifierType(SubSeq(input, current, end - 1)) \in Types
    <3>1. \A word, begin, rest : \A t \in Types :
            checkKeyword(word, begin, rest, t) \in Types
      BY DEF checkKeyword, Types
    <3> QED BY <3>1 DEF identifierType, Types
  <2> QED BY <1>2, <2>1 DEF identifier
<1>6. end \in current..(Len(input) + 1) /\ 0 = Cardinality(Newlines(current, end - 1))
  BY <1>1, <1>3, <1>4
<1> QED BY <1>5, <1>6, TokenStep

LEMMA numberStep == IInv /\ number => IInv'
<1> SUFFICES ASSUME IInv, number PROVE IInv'
  OBVIOUS
<1>1. current \in 1..Len(input) /\ CharAt(current) \in Digits
  BY PeekChar, ScannerAssumption DEF number, peek
<1>2. NUL \notin Digits /\ "\n" \notin Digits /\ "." # "\n" /\ "." # NUL
  BY ScannerAssumption DEF Whitespace, NUL
<1>3. PICK point : point = Past(Digits, current + 1)
  OBVIOUS
<1>4. /\ point \in (current + 1)..(Len(input) + 1)
      /\ \A i \in (current + 1)..(point - 1) : CharAt(i) \in Digits
  <2>1. current + 1 \in 1..(Len(input) + 1)
    BY <1>1
  <2> QED BY <1>2, <1>3, <2>1, PastStops DEF IInv
<1>5. \E end \in (current + 1)..(Len(input) + 1) :
        /\ Token("number", end, 0)
        /\ \A i \in (current + 1)..(end - 1) : CharAt(i) # "\n"
  <2>1. CASE CharAt(point) = "." /\ CharAt(point + 1) \in Digits
    <3>1. point \in 1..Len(input) /\ point + 1 \in 1..(Len(input) + 1)
      BY <1>1, <1>2, <1>4, <2>1 DEF CharAt
    <3>2. PICK end : end = Past(Digits, point + 1)
      OBVIOUS
    <3>3. /\ end \in (point + 1)..(Len(input) + 1)
          /\ \A i \in (point + 1)..(end - 1) : CharAt(i) \in Digits
      BY <1>2, <3>1, <3>2, PastStops DEF IInv
    <3>4. Token("number", end, 0)
      BY <1>3, <2>1, <3>2 DEF number
    <3>5. \A i \in (current + 1)..(end - 1) :
            i \in (current + 1)..(point - 1) \/ i = point \/ i \in (point + 1)..(end - 1)
      BY <1>1, <1>4, <3>1, <3>3
    <3>6. \A i \in (current + 1)..(end - 1) : CharAt(i) # "\n"
      BY <1>2, <1>4, <2>1, <3>3, <3>5
    <3>7. end \in (current + 1)..(Len(input) + 1)
      BY <1>1, <1>4, <3>1, <3>3
    <3> QED BY <3>4, <3>6, <3>7
  <2>2. CASE ~(CharAt(point) = "." /\ CharAt(point + 1) \in Digits)
    <3>1. Token("number", point, 0)
      BY <1>3, <2>2 DEF number
    <3> QED BY <1>2, <1>4, <3>1
  <2> QED BY <2>1, <2>2
<1>6. PICK end \in (current + 1)..(Len(input) + 1) :
        /\ Token("number", end, 0)
        /\ \A i \in (current + 1)..(end - 1) : CharAt(i) # "\n"
  BY <1>5
<1>7. Cardinality(Newlines(current, end - 1)) = 0
  <2>1. Newlines(current, end - 1) = {}
    BY <1>1, <1>2, <1>6 DEF Newlines
  <2> QED BY <2>1, FS_EmptySet
<1>8. end \in current..(Len(input) + 1) /\ 0 = Cardinality(Newlines(current, end - 1))
  BY <1>1, <1>6, <1>7
<1>9. PICK type \in Types : Token(type, end, 0)
  BY <1>6 DEF Types
<1> QED BY <1>8, <1>9, TokenStep

LEMMA stringStep == IInv /\ string => IInv'
<1> SUFFICES ASSUME IInv, string PROVE IInv'
  OBVIOUS
<1>1. current \in 1..Len(input) /\ CharAt(current) \notin {NUL, "\n"}
  BY PeekChar, ScannerAssumption DEF string, peek, Whitespace
<1>2. PICK quote : quote = Past(InString, current + 1)
  OBVIOUS
<1>3. quote \in (current + 1)..(Len(input) + 1)
  <2>1. NUL \notin InString
    BY DEF InString, IInv, IsText
  <2>2. current + 1 \in 1..(Len(input) + 1)
    BY <1>1
  <2> QED BY <1>2, <2>1, <2>2, PastStops DEF IInv
<1>4. PICK lines : lines = Cardinality(Newlines(current + 1, quote - 1))
  OBVIOUS
<1>5. Newlines(current, quote - 1) = Newlines(current + 1, quote - 1)
  BY <1>1, <1>3 DEF Newlines
<1>6. CASE CharAt(quote) = NUL
  <2>1. PICK type \in Types : Token(type, quote, lines)
    BY <1>2, <1>4, <1>6 DEF string, Types
  <2>2. quote \in current..(Len(input) + 1) /\ lines = Cardinality(Newlines(current, quote - 1))
    BY <1>1, <1>3, <1>4, <1>5
  <2> QED BY <2>1, <2>2, TokenStep
<1>7. CASE CharAt(quote) # NUL
  <2>1. PICK end : end = quote + 1
    OBVIOUS
  <2>2. PICK type \in Types : Token(type, end, lines)
    BY <1>2, <1>4, <1>7, <2>1 DEF string, Types
  <2>3. quote \in 1..Len(input) /\ end \in current..(Len(input) + 1)
    BY <1>1, <1>3, <1>7, <2>1 DEF CharAt
  <2>4. CharAt(quote) # "\n"
    <3>1. CharAt(quote) \notin InString
      <4>1. NUL \notin InString
        BY DEF InString, IInv, IsText
      <4>2. current + 1 \in 1..(Len(input) + 1)
        BY <1>1
      <4> QED BY <1>2, <4>1, <4>2, PastStops DEF IInv
    <3>2. CharAt(quote) \in Range(input)
      BY <2>3 DEF CharAt, Range, IInv, IsText
    <3> QED BY <3>1, <3>2, ScannerAssumption DEF InString, Whitespace
  <2>5. Newlines(current, end - 1) = Newlines(current, quote - 1)
    BY <1>1, <2>1, <2>3, <2>4 DEF Newlines
  <2>6. lines = Cardinality(Newlines(current, end - 1))
    BY <1>4, <1>5, <2>5
  <2> QED BY <2>2, <2>3, <2>6, TokenStep
<1> QED BY <1>6, <1>7

(* One or two characters, neither of them a newline.                       *)
LEMMA FewCharacters ==
  ASSUME IInv, peek # "\n", peek # NUL, NEW n \in 1..2, n = 2 => peekNext = "=",
         NEW type \in Types, Token(type, current + n, 0)
  PROVE  IInv'
<1>1. current \in 1..Len(input) /\ CharAt(current) # "\n"
  BY PeekChar DEF peek
<1>2. PICK end : end = current + n
  OBVIOUS
<1>3. end \in current..(Len(input) + 1)
  <2>1. CASE n = 1
    BY <1>1, <1>2, <2>1
  <2>2. CASE n = 2
    <3>1. CharAt(current + 1) # NUL
      BY <2>2 DEF peekNext, NUL
    <3> QED BY <1>1, <1>2, <2>2, <3>1 DEF CharAt
  <2> QED BY <2>1, <2>2
<1>4. Newlines(current, end - 1) = {}
  <2>1. \A i \in current..(end - 1) : i = current \/ (i = current + 1 /\ n = 2)
    BY <1>1, <1>2
  <2>2. n = 2 => CharAt(current + 1) # "\n"
    BY DEF peekNext, NUL
  <2> QED BY <1>1, <2>1, <2>2 DEF Newlines
<1>5. 0 = Cardinality(Newlines(current, end - 1))
  BY <1>4, FS_EmptySet
<1>6. Token(type, end, 0)
  BY <1>2
<1> QED BY <1>3, <1>5, <1>6, TokenStep

LEMMA punctuationStep == IInv /\ punctuation => IInv'
<1> SUFFICES ASSUME IInv, punctuation PROVE IInv'
  OBVIOUS
<1>1. peek # "\n" /\ peek # NUL
  BY DEF punctuation, NUL, Single, Double
<1>2. PICK n \in 1..2 : (n = 2 => peekNext = "=") /\ Token("punctuation", current + n, 0)
  <2>1. CASE peek \in Double /\ peekNext = "="
    <3>1. Token("punctuation", current + 2, 0)
      BY <2>1 DEF punctuation, Single, Double
    <3> QED BY <2>1, <3>1
  <2>2. CASE ~(peek \in Double /\ peekNext = "=")
    <3>1. Token("punctuation", current + 1, 0)
      BY <2>2 DEF punctuation
    <3> QED BY <3>1
  <2> QED BY <2>1, <2>2
<1>3. PICK type \in Types : Token(type, current + n, 0)
  BY <1>2 DEF Types
<1> QED BY <1>1, <1>2, <1>3, FewCharacters

LEMMA unexpectedStep == IInv /\ unexpected => IInv'
<1> SUFFICES ASSUME IInv, unexpected PROVE IInv'
  OBVIOUS
<1>1. peek # "\n" /\ peek # NUL
  <2>1. peek # "\n"
    BY DEF unexpected, AtToken, Whitespace
  <2>2. current \in 1..Len(input) /\ peek = input[current]
    BY DEF unexpected, isAtEnd, IInv, TypeOK, peek, CharAt
  <2> QED BY <2>1, <2>2 DEF IInv, IsText, Range
<1>2. PICK n \in 1..2, type \in Types : n = 1 /\ Token(type, current + n, 0)
  BY DEF unexpected, Types
<1> QED BY <1>1, <1>2, FewCharacters

LEMMA atEndStep == IInv /\ atEnd => IInv'
<1> SUFFICES ASSUME IInv, atEnd PROVE IInv'
  OBVIOUS
<1>1. CASE Ended
  BY <1>1 DEF atEnd, vars, IInv, TypeOK, IsText, LinesAreCounted, Newlines, CharAt
<1>2. CASE ~Ended
  <2> DEFINE end == current
  <2>1. PICK type \in Types : Token(type, end, 0)
    BY <1>2 DEF atEnd, Types
  <2>2. end \in current..(Len(input) + 1)
    BY <2>1 DEF IInv, TypeOK, IsText
  <2>3. Newlines(current, end - 1) = {}
    BY <2>1, <2>2 DEF Newlines, IInv, TypeOK
  <2>4. 0 = Cardinality(Newlines(current, end - 1))
    BY <2>3, FS_EmptySet
  <2> QED BY <2>1, <2>2, <2>4, TokenStep
<1> QED BY <1>1, <1>2

LEMMA InitIInv == Init => IInv
<1> SUFFICES ASSUME Init PROVE IInv
  OBVIOUS
<1>1. IsText
  BY ScannerAssumption DEF Init, IsText
<1>2. Newlines(1, current - 1) = {}
  BY DEF Init, Newlines
<1>3. line = 1 + Cardinality(Newlines(1, current - 1))
  BY <1>2, FS_EmptySet DEF Init
<1>4. TypeOK /\ LinesAreCounted
  BY <1>1 DEF Init, TypeOK, LinesAreCounted, IsText
<1> QED BY <1>1, <1>3, <1>4 DEF IInv

LEMMA NextIInv == IInv /\ [Next]_vars => IInv'
<1>1. CASE UNCHANGED vars
  BY <1>1 DEF vars, IInv, TypeOK, IsText, LinesAreCounted, Newlines, CharAt
<1> QED
  BY <1>1, blankStep, commentStep, identifierStep, numberStep, stringStep,
     punctuationStep, unexpectedStep, atEndStep DEF Next

(* What holds of every reachable state.                                    *)
LEMMA Invariance == Spec => []IInv
BY InitIInv, NextIInv, PTL DEF Spec

(* On every text: no call of the scanner reads or stops beyond the NUL     *)
(* that ends the text, nor does it return a token of another type.         *)
THEOREM TypeCorrect == Spec => []TypeOK
<1>1. IInv => TypeOK
  BY DEF IInv
<1> QED BY <1>1, Invariance, PTL

(* On every text: each token carries the number of the line it ends on,    *)
(* whatever comments and strings of several lines come before it.          *)
THEOREM CountsLines == Spec => []LinesAreCounted
<1>1. IInv => LinesAreCounted
  BY DEF IInv
<1> QED BY <1>1, Invariance, PTL

---------------------------------------------------------------------------
(* The lexemes of the language: of which kind a word can be is settled by  *)
(* its first character.                                                    *)

LEMMA WordFirst ==
  ASSUME NEW w \in Seq(STRING), w # <<>>, Language!IsWord(w)
  PROVE  w[1] \in Letters
BY DEF Language!IsWord

LEMMA DigitsFirst ==
  ASSUME NEW w \in Seq(STRING), Language!IsDigits(w)
  PROVE  /\ w # <<>> /\ Len(w) \in Nat \ {0}
         /\ \A i \in 1..Len(w) : w[i] \in Digits
<1>1. w # <<>> /\ Language!ToSet(w) \subseteq Digits
  BY DEF Language!IsDigits
<1>2. \A i \in 1..Len(w) : w[i] \in Language!ToSet(w)
  BY DEF Language!ToSet
<1> QED
  BY <1>1, <1>2

(* The digits and the point of a number.                                   *)
LEMMA NumberParts ==
  ASSUME NEW w \in Seq(STRING), w # <<>>
  PROVE  Language!IsNumber(w) <=>
           \/ \A i \in 1..Len(w) : w[i] \in Digits
           \/ \E p \in 1..Len(w) : /\ 1 < p /\ p < Len(w) /\ w[p] = "."
                                   /\ \A i \in 1..Len(w) : i # p => w[i] \in Digits
<1>1. Len(w) \in Nat \ {0} /\ DOMAIN w = 1..Len(w)
  BY EmptySeq, LenProperties
<1>2. Language!IsDigits(w) <=> \A i \in 1..Len(w) : w[i] \in Digits
  BY <1>1 DEF Language!IsDigits, Language!ToSet
<1>3. ASSUME NEW p \in 1..Len(w)
      PROVE  /\ Language!IsDigits(SubSeq(w, 1, p - 1)) <=>
                  1 < p /\ \A i \in 1..(p - 1) : w[i] \in Digits
             /\ Language!IsDigits(SubSeq(w, p + 1, Len(w))) <=>
                  p < Len(w) /\ \A i \in (p + 1)..Len(w) : w[i] \in Digits
  <2>1. PICK a, b : a = SubSeq(w, 1, p - 1) /\ b = SubSeq(w, p + 1, Len(w))
    OBVIOUS
  <2>2. /\ a \in Seq(STRING) /\ Len(a) = p - 1
        /\ \A i \in 1..(p - 1) : a[i] = w[i]
    <3>1. \A i \in 1..(p - 1) : w[i] \in STRING
      BY <1>1, <1>3
    <3> QED
      BY <1>1, <1>3, <2>1, <3>1, SubSeqProperties
  <2>3. /\ b \in Seq(STRING) /\ Len(b) = Len(w) - p
        /\ \A i \in 1..(Len(w) - p) : b[i] = w[p + i]
    <3>1. \A i \in (p + 1)..Len(w) : w[i] \in STRING
      BY <1>1, <1>3
    <3>2. p + 1 \in Int /\ Len(w) \in Int
      BY <1>1, <1>3
    <3>3. /\ b \in Seq(STRING)
          /\ Len(b) = IF p + 1 <= Len(w) THEN Len(w) - (p + 1) + 1 ELSE 0
          /\ \A i \in 1..(Len(w) - (p + 1) + 1) : b[i] = w[p + 1 + i - 1]
      BY <2>1, <3>1, <3>2, SubSeqProperties
    <3>4. PICK l \in Nat : l = Len(w)
      BY <1>1
    <3>5. /\ Len(b) = l - p
          /\ \A i \in 1..(l - p) : i \in 1..(l - (p + 1) + 1) /\ p + 1 + i - 1 = p + i
      BY <1>3, <3>3, <3>4
    <3>6. \A i \in 1..(l - p) : b[i] = w[p + i]
      BY <3>3, <3>4, <3>5
    <3> QED
      BY <3>3, <3>4, <3>5, <3>6
  <2>4. Language!IsDigits(a) <=> 1 < p /\ \A i \in 1..(p - 1) : w[i] \in Digits
    <3>1. a # <<>> <=> 1 < p
      BY <1>3, <2>2, EmptySeq
    <3>2. DOMAIN a = 1..(p - 1)
      BY <1>3, <2>2
    <3>3. Language!ToSet(a) \subseteq Digits <=> \A i \in 1..(p - 1) : w[i] \in Digits
      BY <2>2, <3>2 DEF Language!ToSet
    <3> QED
      BY <3>1, <3>3 DEF Language!IsDigits
  <2>5. Language!IsDigits(b) <=> p < Len(w) /\ \A i \in (p + 1)..Len(w) : w[i] \in Digits
    <3>1. b # <<>> <=> p < Len(w)
      BY <1>1, <1>3, <2>3, EmptySeq
    <3>2. DOMAIN b = 1..(Len(w) - p)
      BY <1>1, <1>3, <2>3
    <3>3. Language!ToSet(b) \subseteq Digits <=> \A i \in 1..(Len(w) - p) : w[p + i] \in Digits
      BY <2>3, <3>2 DEF Language!ToSet
    <3>4. (\A i \in 1..(Len(w) - p) : w[p + i] \in Digits)
            <=> \A i \in (p + 1)..Len(w) : w[i] \in Digits
      <4>1. \A i \in (p + 1)..Len(w) : i - p \in 1..(Len(w) - p) /\ p + (i - p) = i
        BY <1>1, <1>3
      <4>2. \A i \in 1..(Len(w) - p) : p + i \in (p + 1)..Len(w)
        BY <1>1, <1>3
      <4> QED
        BY <4>1, <4>2
    <3> QED
      BY <3>1, <3>3, <3>4 DEF Language!IsDigits
  <2> QED
    BY <2>1, <2>4, <2>5
<1>4. ASSUME NEW p \in 1..Len(w)
      PROVE  Language!IsDigits(SubSeq(w, 1, p - 1)) /\ Language!IsDigits(SubSeq(w, p + 1, Len(w)))
               <=> 1 < p /\ p < Len(w) /\ \A i \in 1..Len(w) : i # p => w[i] \in Digits
  <2>1. \A i \in 1..Len(w) : i # p <=> i \in 1..(p - 1) \/ i \in (p + 1)..Len(w)
    BY <1>1, <1>4
  <2>2. \A i \in 1..(p - 1) : i \in 1..Len(w)
    BY <1>1, <1>4
  <2>3. \A i \in (p + 1)..Len(w) : i \in 1..Len(w)
    BY <1>1, <1>4
  <2> QED
    BY <1>3, <2>1, <2>2, <2>3
<1> QED
  BY <1>1, <1>2, <1>4 DEF Language!IsNumber

LEMMA PunctuationIs ==
  ASSUME NEW w
  PROVE  w \in Language!Punctuation <=>
           \/ \E c \in Single \cup Double : w = <<c>>
           \/ \E c \in Double : w = <<c, "=">>
<1>1. ASSUME w \in Language!Punctuation
      PROVE  \/ \E c \in Single \cup Double : w = <<c>>
             \/ \E c \in Double : w = <<c, "=">>
  BY <1>1, ZenonT(30) DEF Language!Punctuation, Single, Double
<1>2. ASSUME NEW c \in Single PROVE <<c>> \in Language!Punctuation
  BY <1>2 DEF Language!Punctuation, Single
<1>3. ASSUME NEW c \in Double
      PROVE <<c>> \in Language!Punctuation /\ <<c, "=">> \in Language!Punctuation
  BY <1>3 DEF Language!Punctuation, Double
<1> QED
  BY <1>1, <1>2, <1>3

(* A word that is not empty is of the kind its first character allows.     *)
LEMMA KindsByFirst ==
  ASSUME NEW w \in Seq(STRING), w # <<>>
  PROVE  /\ Language!IsWord(w) => w[1] \in Letters
         /\ Language!IsNumber(w) => w[1] \in Digits
         /\ Language!IsString(w) => w[1] = Quote
         /\ w \in Language!Punctuation => w[1] \in Single \cup Double
<1>1. Len(w) \in Nat \ {0} /\ DOMAIN w = 1..Len(w)
  BY EmptySeq, LenProperties
<1>2. Language!IsNumber(w) => w[1] \in Digits
  <2>1. \A p \in 1..Len(w) : 1 < p => 1 # p
    BY <1>1
  <2> QED
    BY <1>1, <2>1, NumberParts
<1>3. Language!IsString(w) => w[1] = Quote
  BY DEF Language!IsString, Quote
<1>4. w \in Language!Punctuation => w[1] \in Single \cup Double
  BY PunctuationIs
<1> QED
  BY <1>2, <1>3, <1>4 DEF Language!IsWord

LEMMA FirstsDiffer ==
  /\ Letters \cap Digits = {}
  /\ (Letters \cup Digits) \cap (Single \cup Double) = {}
  /\ Quote \notin Letters \cup Digits \cup Single \cup Double
BY ScannerAssumption

LEMMA KindOfWord ==
  ASSUME NEW w \in Seq(STRING), w # <<>>, w[1] \in Letters
  PROVE  Language!KindOf(w) = IF ToSet(w) \subseteq Letters \cup Digits
                              THEN Language!Keyword(w) ELSE "none"
<1>1. ~Language!IsNumber(w) /\ ~Language!IsString(w) /\ w \notin Language!Punctuation
  BY KindsByFirst, FirstsDiffer
<1>2. Language!IsWord(w) <=> ToSet(w) \subseteq Letters \cup Digits
  BY DEF Language!IsWord, ToSet, Language!ToSet
<1> QED
  BY <1>1, <1>2 DEF Language!KindOf

LEMMA KindOfNumber ==
  ASSUME NEW w \in Seq(STRING), w # <<>>, w[1] \in Digits
  PROVE  Language!KindOf(w) = IF Language!IsNumber(w) THEN "number" ELSE "none"
<1>1. ~Language!IsWord(w) /\ ~Language!IsString(w) /\ w \notin Language!Punctuation
  BY KindsByFirst, FirstsDiffer
<1> QED
  BY <1>1 DEF Language!KindOf

LEMMA KindOfString ==
  ASSUME NEW w \in Seq(STRING), w # <<>>, w[1] = Quote
  PROVE  Language!KindOf(w) = IF Language!IsString(w) THEN "string" ELSE "none"
<1>1. ~Language!IsWord(w) /\ ~Language!IsNumber(w) /\ w \notin Language!Punctuation
  BY KindsByFirst, FirstsDiffer
<1> QED
  BY <1>1 DEF Language!KindOf

LEMMA KindOfPunctuation ==
  ASSUME NEW w \in Seq(STRING), w # <<>>, w[1] \in Single \cup Double
  PROVE  Language!KindOf(w) = IF w \in Language!Punctuation THEN "punctuation" ELSE "none"
<1>1. ~Language!IsWord(w) /\ ~Language!IsNumber(w) /\ ~Language!IsString(w)
  BY KindsByFirst, FirstsDiffer
<1> QED
  BY <1>1 DEF Language!KindOf

LEMMA KindOfOther ==
  ASSUME NEW w \in Seq(STRING), w # <<>>, w[1] \notin Expected
  PROVE  Language!KindOf(w) = "none"
<1>1. /\ ~Language!IsWord(w) /\ ~Language!IsNumber(w) /\ ~Language!IsString(w)
      /\ w \notin Language!Punctuation
  BY KindsByFirst DEF Expected
<1> QED
  BY <1>1 DEF Language!KindOf

---------------------------------------------------------------------------
(* The trie of identifierType knows exactly the keywords.                  *)

LEMMA RestOf ==
  ASSUME NEW w \in Seq(STRING), NEW n \in Nat, n <= Len(w)
  PROVE  /\ SubSeq(w, n + 1, Len(w)) \in Seq(STRING)
         /\ Len(SubSeq(w, n + 1, Len(w))) = Len(w) - n
         /\ \A i \in 1..(Len(w) - n) : SubSeq(w, n + 1, Len(w))[i] = w[i + n]
<1>1. PICK k, t : k \in Nat /\ k = Len(w) /\ t = SubSeq(w, n + 1, k)
  BY LenProperties
<1>2. \A i \in (n + 1)..k : w[i] \in STRING
  BY <1>1
<1>3. /\ t \in Seq(STRING) /\ Len(t) = IF n + 1 <= k THEN k - (n + 1) + 1 ELSE 0
      /\ \A i \in 1..(k - (n + 1) + 1) : t[i] = w[n + 1 + i - 1]
  BY <1>1, <1>2, SubSeqProperties
<1>4. /\ Len(t) = k - n
      /\ \A i \in 1..(k - n) : i \in 1..(k - (n + 1) + 1) /\ n + 1 + i - 1 = i + n
  BY <1>1, <1>3
<1> QED
  BY <1>1, <1>3, <1>4

LEMMA Rest1Of2 ==
  ASSUME NEW w \in Seq(STRING), Len(w) >= 1
  PROVE  \A b : SubSeq(w, 2, Len(w)) = <<b>> <=> w = <<w[1], b>>
<1> SUFFICES ASSUME NEW b
             PROVE  SubSeq(w, 2, Len(w)) = <<b>> <=> w = <<w[1], b>>
  OBVIOUS
<1>1. PICK t : t = SubSeq(w, 1 + 1, Len(w))
  OBVIOUS
<1>2. t = SubSeq(w, 2, Len(w))
  BY <1>1
<1>3. /\ t \in Seq(STRING) /\ Len(t) = Len(w) - 1
      /\ \A i \in 1..(Len(w) - 1) : t[i] = w[i + 1]
  BY <1>1, RestOf
<1>4. ASSUME t = <<b>> PROVE w = <<w[1], b>>
  <2>1. Len(w) = 2 /\ t[1] = b
    BY <1>3, <1>4
  <2>2. w[2] = b
    BY <1>3, <2>1
  <2> QED
    BY <2>1, <2>2
<1>5. ASSUME w = <<w[1], b>> PROVE t = <<b>>
  <2>1. Len(w) = 2 /\ w[2] = b
    BY <1>5
  <2>2. Len(t) = 1 /\ t[1] = b
    BY <1>3, <2>1
  <2> QED
    BY <1>3, <2>2
<1> QED
  BY <1>2, <1>4, <1>5

LEMMA Rest1Of3 ==
  ASSUME NEW w \in Seq(STRING), Len(w) >= 1
  PROVE  \A b, c : SubSeq(w, 2, Len(w)) = <<b, c>> <=> w = <<w[1], b, c>>
<1> SUFFICES ASSUME NEW b, NEW c
             PROVE  SubSeq(w, 2, Len(w)) = <<b, c>> <=> w = <<w[1], b, c>>
  OBVIOUS
<1>1. PICK t : t = SubSeq(w, 1 + 1, Len(w))
  OBVIOUS
<1>2. t = SubSeq(w, 2, Len(w))
  BY <1>1
<1>3. /\ t \in Seq(STRING) /\ Len(t) = Len(w) - 1
      /\ \A i \in 1..(Len(w) - 1) : t[i] = w[i + 1]
  BY <1>1, RestOf
<1>4. ASSUME t = <<b, c>> PROVE w = <<w[1], b, c>>
  <2>1. Len(w) = 3 /\ t[1] = b /\ t[2] = c
    BY <1>3, <1>4
  <2>2. w[2] = b /\ w[3] = c
    BY <1>3, <2>1
  <2> QED
    BY <2>1, <2>2
<1>5. ASSUME w = <<w[1], b, c>> PROVE t = <<b, c>>
  <2>1. Len(w) = 3 /\ w[2] = b /\ w[3] = c
    BY <1>5
  <2>2. Len(t) = 2 /\ t[1] = b /\ t[2] = c
    BY <1>3, <2>1
  <2> QED
    BY <1>3, <2>2
<1> QED
  BY <1>2, <1>4, <1>5

LEMMA Rest1Of4 ==
  ASSUME NEW w \in Seq(STRING), Len(w) >= 1
  PROVE  \A b, c, d : SubSeq(w, 2, Len(w)) = <<b, c, d>> <=> w = <<w[1], b, c, d>>
<1> SUFFICES ASSUME NEW b, NEW c, NEW d
             PROVE  SubSeq(w, 2, Len(w)) = <<b, c, d>> <=> w = <<w[1], b, c, d>>
  OBVIOUS
<1>1. PICK t : t = SubSeq(w, 1 + 1, Len(w))
  OBVIOUS
<1>2. t = SubSeq(w, 2, Len(w))
  BY <1>1
<1>3. /\ t \in Seq(STRING) /\ Len(t) = Len(w) - 1
      /\ \A i \in 1..(Len(w) - 1) : t[i] = w[i + 1]
  BY <1>1, RestOf
<1>4. ASSUME t = <<b, c, d>> PROVE w = <<w[1], b, c, d>>
  <2>1. Len(w) = 4 /\ t[1] = b /\ t[2] = c /\ t[3] = d
    BY <1>3, <1>4
  <2>2. w[2] = b /\ w[3] = c /\ w[4] = d
    BY <1>3, <2>1
  <2> QED
    BY <2>1, <2>2
<1>5. ASSUME w = <<w[1], b, c, d>> PROVE t = <<b, c, d>>
  <2>1. Len(w) = 4 /\ w[2] = b /\ w[3] = c /\ w[4] = d
    BY <1>5
  <2>2. Len(t) = 3 /\ t[1] = b /\ t[2] = c /\ t[3] = d
    BY <1>3, <2>1
  <2> QED
    BY <1>3, <2>2
<1> QED
  BY <1>2, <1>4, <1>5

LEMMA Rest1Of5 ==
  ASSUME NEW w \in Seq(STRING), Len(w) >= 1
  PROVE  \A b, c, d, e : SubSeq(w, 2, Len(w)) = <<b, c, d, e>> <=> w = <<w[1], b, c, d, e>>
<1> SUFFICES ASSUME NEW b, NEW c, NEW d, NEW e
             PROVE  SubSeq(w, 2, Len(w)) = <<b, c, d, e>> <=> w = <<w[1], b, c, d, e>>
  OBVIOUS
<1>1. PICK t : t = SubSeq(w, 1 + 1, Len(w))
  OBVIOUS
<1>2. t = SubSeq(w, 2, Len(w))
  BY <1>1
<1>3. /\ t \in Seq(STRING) /\ Len(t) = Len(w) - 1
      /\ \A i \in 1..(Len(w) - 1) : t[i] = w[i + 1]
  BY <1>1, RestOf
<1>4. ASSUME t = <<b, c, d, e>> PROVE w = <<w[1], b, c, d, e>>
  <2>1. Len(w) = 5 /\ t[1] = b /\ t[2] = c /\ t[3] = d /\ t[4] = e
    BY <1>3, <1>4
  <2>2. w[2] = b /\ w[3] = c /\ w[4] = d /\ w[5] = e
    BY <1>3, <2>1
  <2> QED
    BY <2>1, <2>2
<1>5. ASSUME w = <<w[1], b, c, d, e>> PROVE t = <<b, c, d, e>>
  <2>1. Len(w) = 5 /\ w[2] = b /\ w[3] = c /\ w[4] = d /\ w[5] = e
    BY <1>5
  <2>2. Len(t) = 4 /\ t[1] = b /\ t[2] = c /\ t[3] = d /\ t[4] = e
    BY <1>3, <2>1
  <2> QED
    BY <1>3, <2>2
<1> QED
  BY <1>2, <1>4, <1>5

LEMMA Rest1Of6 ==
  ASSUME NEW w \in Seq(STRING), Len(w) >= 1
  PROVE  \A b, c, d, e, f : SubSeq(w, 2, Len(w)) = <<b, c, d, e, f>> <=> w = <<w[1], b, c, d, e, f>>
<1> SUFFICES ASSUME NEW b, NEW c, NEW d, NEW e, NEW f
             PROVE  SubSeq(w, 2, Len(w)) = <<b, c, d, e, f>> <=> w = <<w[1], b, c, d, e, f>>
  OBVIOUS
<1>1. PICK t : t = SubSeq(w, 1 + 1, Len(w))
  OBVIOUS
<1>2. t = SubSeq(w, 2, Len(w))
  BY <1>1
<1>3. /\ t \in Seq(STRING) /\ Len(t) = Len(w) - 1
      /\ \A i \in 1..(Len(w) - 1) : t[i] = w[i + 1]
  BY <1>1, RestOf
<1>4. ASSUME t = <<b, c, d, e, f>> PROVE w = <<w[1], b, c, d, e, f>>
  <2>1. Len(w) = 6 /\ t[1] = b /\ t[2] = c /\ t[3] = d /\ t[4] = e /\ t[5] = f
    BY <1>3, <1>4
  <2>2. w[2] = b /\ w[3] = c /\ w[4] = d /\ w[5] = e /\ w[6] = f
    BY <1>3, <2>1
  <2> QED
    BY <2>1, <2>2
<1>5. ASSUME w = <<w[1], b, c, d, e, f>> PROVE t = <<b, c, d, e, f>>
  <2>1. Len(w) = 6 /\ w[2] = b /\ w[3] = c /\ w[4] = d /\ w[5] = e /\ w[6] = f
    BY <1>5
  <2>2. Len(t) = 5 /\ t[1] = b /\ t[2] = c /\ t[3] = d /\ t[4] = e /\ t[5] = f
    BY <1>3, <2>1
  <2> QED
    BY <1>3, <2>2
<1> QED
  BY <1>2, <1>4, <1>5

LEMMA Rest2Of3 ==
  ASSUME NEW w \in Seq(STRING), Len(w) > 1
  PROVE  \A c : SubSeq(w, 3, Len(w)) = <<c>> <=> w = <<w[1], w[2], c>>
<1> SUFFICES ASSUME NEW c
             PROVE  SubSeq(w, 3, Len(w)) = <<c>> <=> w = <<w[1], w[2], c>>
  OBVIOUS
<1>1. 2 <= Len(w)
  BY LenProperties
<1>2. PICK t : t = SubSeq(w, 2 + 1, Len(w))
  OBVIOUS
<1>3. t = SubSeq(w, 3, Len(w))
  BY <1>2
<1>4. /\ t \in Seq(STRING) /\ Len(t) = Len(w) - 2
      /\ \A i \in 1..(Len(w) - 2) : t[i] = w[i + 2]
  BY <1>2, <1>1, RestOf
<1>5. ASSUME t = <<c>> PROVE w = <<w[1], w[2], c>>
  <2>1. Len(w) = 3 /\ t[1] = c
    BY <1>4, <1>5
  <2>2. w[3] = c
    BY <1>4, <2>1
  <2> QED
    BY <2>1, <2>2
<1>6. ASSUME w = <<w[1], w[2], c>> PROVE t = <<c>>
  <2>1. Len(w) = 3 /\ w[3] = c
    BY <1>6
  <2>2. Len(t) = 1 /\ t[1] = c
    BY <1>4, <2>1
  <2> QED
    BY <1>4, <2>2
<1> QED
  BY <1>3, <1>5, <1>6

LEMMA Rest2Of4 ==
  ASSUME NEW w \in Seq(STRING), Len(w) > 1
  PROVE  \A c, d : SubSeq(w, 3, Len(w)) = <<c, d>> <=> w = <<w[1], w[2], c, d>>
<1> SUFFICES ASSUME NEW c, NEW d
             PROVE  SubSeq(w, 3, Len(w)) = <<c, d>> <=> w = <<w[1], w[2], c, d>>
  OBVIOUS
<1>1. 2 <= Len(w)
  BY LenProperties
<1>2. PICK t : t = SubSeq(w, 2 + 1, Len(w))
  OBVIOUS
<1>3. t = SubSeq(w, 3, Len(w))
  BY <1>2
<1>4. /\ t \in Seq(STRING) /\ Len(t) = Len(w) - 2
      /\ \A i \in 1..(Len(w) - 2) : t[i] = w[i + 2]
  BY <1>2, <1>1, RestOf
<1>5. ASSUME t = <<c, d>> PROVE w = <<w[1], w[2], c, d>>
  <2>1. Len(w) = 4 /\ t[1] = c /\ t[2] = d
    BY <1>4, <1>5
  <2>2. w[3] = c /\ w[4] = d
    BY <1>4, <2>1
  <2> QED
    BY <2>1, <2>2
<1>6. ASSUME w = <<w[1], w[2], c, d>> PROVE t = <<c, d>>
  <2>1. Len(w) = 4 /\ w[3] = c /\ w[4] = d
    BY <1>6
  <2>2. Len(t) = 2 /\ t[1] = c /\ t[2] = d
    BY <1>4, <2>1
  <2> QED
    BY <1>4, <2>2
<1> QED
  BY <1>3, <1>5, <1>6

LEMMA Rest2Of5 ==
  ASSUME NEW w \in Seq(STRING), Len(w) > 1
  PROVE  \A c, d, e : SubSeq(w, 3, Len(w)) = <<c, d, e>> <=> w = <<w[1], w[2], c, d, e>>
<1> SUFFICES ASSUME NEW c, NEW d, NEW e
             PROVE  SubSeq(w, 3, Len(w)) = <<c, d, e>> <=> w = <<w[1], w[2], c, d, e>>
  OBVIOUS
<1>1. 2 <= Len(w)
  BY LenProperties
<1>2. PICK t : t = SubSeq(w, 2 + 1, Len(w))
  OBVIOUS
<1>3. t = SubSeq(w, 3, Len(w))
  BY <1>2
<1>4. /\ t \in Seq(STRING) /\ Len(t) = Len(w) - 2
      /\ \A i \in 1..(Len(w) - 2) : t[i] = w[i + 2]
  BY <1>2, <1>1, RestOf
<1>5. ASSUME t = <<c, d, e>> PROVE w = <<w[1], w[2], c, d, e>>
  <2>1. Len(w) = 5 /\ t[1] = c /\ t[2] = d /\ t[3] = e
    BY <1>4, <1>5
  <2>2. w[3] = c /\ w[4] = d /\ w[5] = e
    BY <1>4, <2>1
  <2> QED
    BY <2>1, <2>2
<1>6. ASSUME w = <<w[1], w[2], c, d, e>> PROVE t = <<c, d, e>>
  <2>1. Len(w) = 5 /\ w[3] = c /\ w[4] = d /\ w[5] = e
    BY <1>6
  <2>2. Len(t) = 3 /\ t[1] = c /\ t[2] = d /\ t[3] = e
    BY <1>4, <2>1
  <2> QED
    BY <1>4, <2>2
<1> QED
  BY <1>3, <1>5, <1>6

(* A keyword is spelled the way the trie follows it.                       *)
LEMMA Spelled ==
  ASSUME NEW w \in Seq(STRING), Len(w) >= 1
  PROVE  /\ w = <<"a", "n", "d">> => w[1] = "a"
         /\ w = <<"c", "l", "a", "s", "s">> => w[1] = "c"
         /\ w = <<"e", "l", "s", "e">> => w[1] = "e"
         /\ w = <<"f", "a", "l", "s", "e">> => w[1] = "f" /\ Len(w) > 1 /\ w[2] = "a"
         /\ w = <<"f", "o", "r">> => w[1] = "f" /\ Len(w) > 1 /\ w[2] = "o"
         /\ w = <<"f", "u", "n">> => w[1] = "f" /\ Len(w) > 1 /\ w[2] = "u"
         /\ w = <<"i", "f">> => w[1] = "i"
         /\ w = <<"n", "i", "l">> => w[1] = "n"
         /\ w = <<"o", "r">> => w[1] = "o"
         /\ w = <<"p", "r", "i", "n", "t">> => w[1] = "p"
         /\ w = <<"r", "e", "t", "u", "r", "n">> => w[1] = "r"
         /\ w = <<"s", "u", "p", "e", "r">> => w[1] = "s"
         /\ w = <<"t", "h", "i", "s">> => w[1] = "t" /\ Len(w) > 1 /\ w[2] = "h"
         /\ w = <<"t", "r", "u", "e">> => w[1] = "t" /\ Len(w) > 1 /\ w[2] = "r"
         /\ w = <<"v", "a", "r">> => w[1] = "v"
         /\ w = <<"w", "h", "i", "l", "e">> => w[1] = "w"
OBVIOUS

LEMMA TrieIsKeywords ==
  ASSUME NEW w \in Seq(STRING), Len(w) >= 1
  PROVE  identifierType(w) = Language!Keyword(w)
<1>1. CASE w[1] = "a"
  <2>1. SubSeq(w, 2, Len(w)) = <<"n", "d">> <=> w = <<"a", "n", "d">>
    <3>1. \A b, c : SubSeq(w, 2, Len(w)) = <<b, c>> <=> w = <<w[1], b, c>>
      BY <1>1, Rest1Of3
    <3> QED
      BY <1>1, <3>1
  <2>2. identifierType(w) = checkKeyword(w, 1, <<"n", "d">>, "and")
    BY <1>1 DEF identifierType
  <2>3. checkKeyword(w, 1, <<"n", "d">>, "and") = IF w = <<"a", "n", "d">> THEN "and" ELSE "identifier"
    BY <2>1 DEF checkKeyword
  <2>4. Language!Keyword(w) = IF w = <<"a", "n", "d">> THEN "and" ELSE "identifier"
    BY <1>1, Spelled DEF Language!Keyword
  <2> QED
    BY <2>2, <2>3, <2>4
<1>2. CASE w[1] = "c"
  <2>1. SubSeq(w, 2, Len(w)) = <<"l", "a", "s", "s">> <=> w = <<"c", "l", "a", "s", "s">>
    <3>1. \A b, c, d, e : SubSeq(w, 2, Len(w)) = <<b, c, d, e>> <=> w = <<w[1], b, c, d, e>>
      BY <1>2, Rest1Of5
    <3> QED
      BY <1>2, <3>1
  <2>2. identifierType(w) = checkKeyword(w, 1, <<"l", "a", "s", "s">>, "class")
    BY <1>2 DEF identifierType
  <2>3. checkKeyword(w, 1, <<"l", "a", "s", "s">>, "class") = IF w = <<"c", "l", "a", "s", "s">> THEN "class" ELSE "identifier"
    BY <2>1 DEF checkKeyword
  <2>4. Language!Keyword(w) = IF w = <<"c", "l", "a", "s", "s">> THEN "class" ELSE "identifier"
    BY <1>2, Spelled DEF Language!Keyword
  <2> QED
    BY <2>2, <2>3, <2>4
<1>3. CASE w[1] = "e"
  <2>1. SubSeq(w, 2, Len(w)) = <<"l", "s", "e">> <=> w = <<"e", "l", "s", "e">>
    <3>1. \A b, c, d : SubSeq(w, 2, Len(w)) = <<b, c, d>> <=> w = <<w[1], b, c, d>>
      BY <1>3, Rest1Of4
    <3> QED
      BY <1>3, <3>1
  <2>2. identifierType(w) = checkKeyword(w, 1, <<"l", "s", "e">>, "else")
    BY <1>3 DEF identifierType
  <2>3. checkKeyword(w, 1, <<"l", "s", "e">>, "else") = IF w = <<"e", "l", "s", "e">> THEN "else" ELSE "identifier"
    BY <2>1 DEF checkKeyword
  <2>4. Language!Keyword(w) = IF w = <<"e", "l", "s", "e">> THEN "else" ELSE "identifier"
    BY <1>3, Spelled DEF Language!Keyword
  <2> QED
    BY <2>2, <2>3, <2>4
<1>4. CASE w[1] = "f" /\ Len(w) > 1 /\ w[2] = "a"
  <2>1. SubSeq(w, 3, Len(w)) = <<"l", "s", "e">> <=> w = <<"f", "a", "l", "s", "e">>
    <3>1. \A c, d, e : SubSeq(w, 3, Len(w)) = <<c, d, e>> <=> w = <<w[1], w[2], c, d, e>>
      BY <1>4, Rest2Of5
    <3> QED
      BY <1>4, <3>1
  <2>2. identifierType(w) = checkKeyword(w, 2, <<"l", "s", "e">>, "false")
    BY <1>4 DEF identifierType
  <2>3. checkKeyword(w, 2, <<"l", "s", "e">>, "false") = IF w = <<"f", "a", "l", "s", "e">> THEN "false" ELSE "identifier"
    BY <2>1 DEF checkKeyword
  <2>4. Language!Keyword(w) = IF w = <<"f", "a", "l", "s", "e">> THEN "false" ELSE "identifier"
    BY <1>4, Spelled DEF Language!Keyword
  <2> QED
    BY <2>2, <2>3, <2>4
<1>5. CASE w[1] = "f" /\ Len(w) > 1 /\ w[2] = "o"
  <2>1. SubSeq(w, 3, Len(w)) = <<"r">> <=> w = <<"f", "o", "r">>
    <3>1. \A c : SubSeq(w, 3, Len(w)) = <<c>> <=> w = <<w[1], w[2], c>>
      BY <1>5, Rest2Of3
    <3> QED
      BY <1>5, <3>1
  <2>2. identifierType(w) = checkKeyword(w, 2, <<"r">>, "for")
    BY <1>5 DEF identifierType
  <2>3. checkKeyword(w, 2, <<"r">>, "for") = IF w = <<"f", "o", "r">> THEN "for" ELSE "identifier"
    BY <2>1 DEF checkKeyword
  <2>4. Language!Keyword(w) = IF w = <<"f", "o", "r">> THEN "for" ELSE "identifier"
    BY <1>5, Spelled DEF Language!Keyword
  <2> QED
    BY <2>2, <2>3, <2>4
<1>6. CASE w[1] = "f" /\ Len(w) > 1 /\ w[2] = "u"
  <2>1. SubSeq(w, 3, Len(w)) = <<"n">> <=> w = <<"f", "u", "n">>
    <3>1. \A c : SubSeq(w, 3, Len(w)) = <<c>> <=> w = <<w[1], w[2], c>>
      BY <1>6, Rest2Of3
    <3> QED
      BY <1>6, <3>1
  <2>2. identifierType(w) = checkKeyword(w, 2, <<"n">>, "fun")
    BY <1>6 DEF identifierType
  <2>3. checkKeyword(w, 2, <<"n">>, "fun") = IF w = <<"f", "u", "n">> THEN "fun" ELSE "identifier"
    BY <2>1 DEF checkKeyword
  <2>4. Language!Keyword(w) = IF w = <<"f", "u", "n">> THEN "fun" ELSE "identifier"
    BY <1>6, Spelled DEF Language!Keyword
  <2> QED
    BY <2>2, <2>3, <2>4
<1>7. CASE w[1] = "i"
  <2>1. SubSeq(w, 2, Len(w)) = <<"f">> <=> w = <<"i", "f">>
    <3>1. \A b : SubSeq(w, 2, Len(w)) = <<b>> <=> w = <<w[1], b>>
      BY <1>7, Rest1Of2
    <3> QED
      BY <1>7, <3>1
  <2>2. identifierType(w) = checkKeyword(w, 1, <<"f">>, "if")
    BY <1>7 DEF identifierType
  <2>3. checkKeyword(w, 1, <<"f">>, "if") = IF w = <<"i", "f">> THEN "if" ELSE "identifier"
    BY <2>1 DEF checkKeyword
  <2>4. Language!Keyword(w) = IF w = <<"i", "f">> THEN "if" ELSE "identifier"
    BY <1>7, Spelled DEF Language!Keyword
  <2> QED
    BY <2>2, <2>3, <2>4
<1>8. CASE w[1] = "n"
  <2>1. SubSeq(w, 2, Len(w)) = <<"i", "l">> <=> w = <<"n", "i", "l">>
    <3>1. \A b, c : SubSeq(w, 2, Len(w)) = <<b, c>> <=> w = <<w[1], b, c>>
      BY <1>8, Rest1Of3
    <3> QED
      BY <1>8, <3>1
  <2>2. identifierType(w) = checkKeyword(w, 1, <<"i", "l">>, "nil")
    BY <1>8 DEF identifierType
  <2>3. checkKeyword(w, 1, <<"i", "l">>, "nil") = IF w = <<"n", "i", "l">> THEN "nil" ELSE "identifier"
    BY <2>1 DEF checkKeyword
  <2>4. Language!Keyword(w) = IF w = <<"n", "i", "l">> THEN "nil" ELSE "identifier"
    BY <1>8, Spelled DEF Language!Keyword
  <2> QED
    BY <2>2, <2>3, <2>4
<1>9. CASE w[1] = "o"
  <2>1. SubSeq(w, 2, Len(w)) = <<"r">> <=> w = <<"o", "r">>
    <3>1. \A b : SubSeq(w, 2, Len(w)) = <<b>> <=> w = <<w[1], b>>
      BY <1>9, Rest1Of2
    <3> QED
      BY <1>9, <3>1
  <2>2. identifierType(w) = checkKeyword(w, 1, <<"r">>, "or")
    BY <1>9 DEF identifierType
  <2>3. checkKeyword(w, 1, <<"r">>, "or") = IF w = <<"o", "r">> THEN "or" ELSE "identifier"
    BY <2>1 DEF checkKeyword
  <2>4. Language!Keyword(w) = IF w = <<"o", "r">> THEN "or" ELSE "identifier"
    BY <1>9, Spelled DEF Language!Keyword
  <2> QED
    BY <2>2, <2>3, <2>4
<1>10. CASE w[1] = "p"
  <2>1. SubSeq(w, 2, Len(w)) = <<"r", "i", "n", "t">> <=> w = <<"p", "r", "i", "n", "t">>
    <3>1. \A b, c, d, e : SubSeq(w, 2, Len(w)) = <<b, c, d, e>> <=> w = <<w[1], b, c, d, e>>
      BY <1>10, Rest1Of5
    <3> QED
      BY <1>10, <3>1
  <2>2. identifierType(w) = checkKeyword(w, 1, <<"r", "i", "n", "t">>, "print")
    BY <1>10 DEF identifierType
  <2>3. checkKeyword(w, 1, <<"r", "i", "n", "t">>, "print") = IF w = <<"p", "r", "i", "n", "t">> THEN "print" ELSE "identifier"
    BY <2>1 DEF checkKeyword
  <2>4. Language!Keyword(w) = IF w = <<"p", "r", "i", "n", "t">> THEN "print" ELSE "identifier"
    BY <1>10, Spelled DEF Language!Keyword
  <2> QED
    BY <2>2, <2>3, <2>4
<1>11. CASE w[1] = "r"
  <2>1. SubSeq(w, 2, Len(w)) = <<"e", "t", "u", "r", "n">> <=> w = <<"r", "e", "t", "u", "r", "n">>
    <3>1. \A b, c, d, e, f : SubSeq(w, 2, Len(w)) = <<b, c, d, e, f>> <=> w = <<w[1], b, c, d, e, f>>
      BY <1>11, Rest1Of6
    <3> QED
      BY <1>11, <3>1
  <2>2. identifierType(w) = checkKeyword(w, 1, <<"e", "t", "u", "r", "n">>, "return")
    BY <1>11 DEF identifierType
  <2>3. checkKeyword(w, 1, <<"e", "t", "u", "r", "n">>, "return") = IF w = <<"r", "e", "t", "u", "r", "n">> THEN "return" ELSE "identifier"
    BY <2>1 DEF checkKeyword
  <2>4. Language!Keyword(w) = IF w = <<"r", "e", "t", "u", "r", "n">> THEN "return" ELSE "identifier"
    BY <1>11, Spelled DEF Language!Keyword
  <2> QED
    BY <2>2, <2>3, <2>4
<1>12. CASE w[1] = "s"
  <2>1. SubSeq(w, 2, Len(w)) = <<"u", "p", "e", "r">> <=> w = <<"s", "u", "p", "e", "r">>
    <3>1. \A b, c, d, e : SubSeq(w, 2, Len(w)) = <<b, c, d, e>> <=> w = <<w[1], b, c, d, e>>
      BY <1>12, Rest1Of5
    <3> QED
      BY <1>12, <3>1
  <2>2. identifierType(w) = checkKeyword(w, 1, <<"u", "p", "e", "r">>, "super")
    BY <1>12 DEF identifierType
  <2>3. checkKeyword(w, 1, <<"u", "p", "e", "r">>, "super") = IF w = <<"s", "u", "p", "e", "r">> THEN "super" ELSE "identifier"
    BY <2>1 DEF checkKeyword
  <2>4. Language!Keyword(w) = IF w = <<"s", "u", "p", "e", "r">> THEN "super" ELSE "identifier"
    BY <1>12, Spelled DEF Language!Keyword
  <2> QED
    BY <2>2, <2>3, <2>4
<1>13. CASE w[1] = "t" /\ Len(w) > 1 /\ w[2] = "h"
  <2>1. SubSeq(w, 3, Len(w)) = <<"i", "s">> <=> w = <<"t", "h", "i", "s">>
    <3>1. \A c, d : SubSeq(w, 3, Len(w)) = <<c, d>> <=> w = <<w[1], w[2], c, d>>
      BY <1>13, Rest2Of4
    <3> QED
      BY <1>13, <3>1
  <2>2. identifierType(w) = checkKeyword(w, 2, <<"i", "s">>, "this")
    BY <1>13 DEF identifierType
  <2>3. checkKeyword(w, 2, <<"i", "s">>, "this") = IF w = <<"t", "h", "i", "s">> THEN "this" ELSE "identifier"
    BY <2>1 DEF checkKeyword
  <2>4. Language!Keyword(w) = IF w = <<"t", "h", "i", "s">> THEN "this" ELSE "identifier"
    BY <1>13, Spelled DEF Language!Keyword
  <2> QED
    BY <2>2, <2>3, <2>4
<1>14. CASE w[1] = "t" /\ Len(w) > 1 /\ w[2] = "r"
  <2>1. SubSeq(w, 3, Len(w)) = <<"u", "e">> <=> w = <<"t", "r", "u", "e">>
    <3>1. \A c, d : SubSeq(w, 3, Len(w)) = <<c, d>> <=> w = <<w[1], w[2], c, d>>
      BY <1>14, Rest2Of4
    <3> QED
      BY <1>14, <3>1
  <2>2. identifierType(w) = checkKeyword(w, 2, <<"u", "e">>, "true")
    BY <1>14 DEF identifierType
  <2>3. checkKeyword(w, 2, <<"u", "e">>, "true") = IF w = <<"t", "r", "u", "e">> THEN "true" ELSE "identifier"
    BY <2>1 DEF checkKeyword
  <2>4. Language!Keyword(w) = IF w = <<"t", "r", "u", "e">> THEN "true" ELSE "identifier"
    BY <1>14, Spelled DEF Language!Keyword
  <2> QED
    BY <2>2, <2>3, <2>4
<1>15. CASE w[1] = "v"
  <2>1. SubSeq(w, 2, Len(w)) = <<"a", "r">> <=> w = <<"v", "a", "r">>
    <3>1. \A b, c : SubSeq(w, 2, Len(w)) = <<b, c>> <=> w = <<w[1], b, c>>
      BY <1>15, Rest1Of3
    <3> QED
      BY <1>15, <3>1
  <2>2. identifierType(w) = checkKeyword(w, 1, <<"a", "r">>, "var")
    BY <1>15 DEF identifierType
  <2>3. checkKeyword(w, 1, <<"a", "r">>, "var") = IF w = <<"v", "a", "r">> THEN "var" ELSE "identifier"
    BY <2>1 DEF checkKeyword
  <2>4. Language!Keyword(w) = IF w = <<"v", "a", "r">> THEN "var" ELSE "identifier"
    BY <1>15, Spelled DEF Language!Keyword
  <2> QED
    BY <2>2, <2>3, <2>4
<1>16. CASE w[1] = "w"
  <2>1. SubSeq(w, 2, Len(w)) = <<"h", "i", "l", "e">> <=> w = <<"w", "h", "i", "l", "e">>
    <3>1. \A b, c, d, e : SubSeq(w, 2, Len(w)) = <<b, c, d, e>> <=> w = <<w[1], b, c, d, e>>
      BY <1>16, Rest1Of5
    <3> QED
      BY <1>16, <3>1
  <2>2. identifierType(w) = checkKeyword(w, 1, <<"h", "i", "l", "e">>, "while")
    BY <1>16 DEF identifierType
  <2>3. checkKeyword(w, 1, <<"h", "i", "l", "e">>, "while") = IF w = <<"w", "h", "i", "l", "e">> THEN "while" ELSE "identifier"
    BY <2>1 DEF checkKeyword
  <2>4. Language!Keyword(w) = IF w = <<"w", "h", "i", "l", "e">> THEN "while" ELSE "identifier"
    BY <1>16, Spelled DEF Language!Keyword
  <2> QED
    BY <2>2, <2>3, <2>4
<1>17. CASE ~\/ w[1] = "a"
             \/ w[1] = "c"
             \/ w[1] = "e"
             \/ w[1] = "f" /\ Len(w) > 1 /\ w[2] = "a"
             \/ w[1] = "f" /\ Len(w) > 1 /\ w[2] = "o"
             \/ w[1] = "f" /\ Len(w) > 1 /\ w[2] = "u"
             \/ w[1] = "i"
             \/ w[1] = "n"
             \/ w[1] = "o"
             \/ w[1] = "p"
             \/ w[1] = "r"
             \/ w[1] = "s"
             \/ w[1] = "t" /\ Len(w) > 1 /\ w[2] = "h"
             \/ w[1] = "t" /\ Len(w) > 1 /\ w[2] = "r"
             \/ w[1] = "v"
             \/ w[1] = "w"
  <2>1. identifierType(w) = "identifier"
    BY <1>17 DEF identifierType, NUL
  <2>2. Language!Keyword(w) = "identifier"
    BY <1>17, Spelled DEF Language!Keyword
  <2> QED
    BY <2>1, <2>2
<1> QED
  BY <1>1, <1>2, <1>3, <1>4, <1>5, <1>6, <1>7, <1>8, <1>9, <1>10, <1>11, <1>12, <1>13, <1>14, <1>15, <1>16, <1>17

---------------------------------------------------------------------------
(* Every token is the longest lexeme at its place.                         *)

(* A piece of the text, by positions in the text.                          *)
LEMMA TextIs ==
  ASSUME IsText, NEW from \in 1..Len(input), NEW end \in (from + 1)..(Len(input) + 1)
  PROVE  /\ Text(from, end) \in Seq(STRING) /\ Text(from, end) # <<>>
         /\ Len(Text(from, end)) = end - from
         /\ \A i \in 1..(end - from) : Text(from, end)[i] = input[from + i - 1]
         /\ \A k \in from..(end - 1) : /\ k - from + 1 \in 1..(end - from)
                                       /\ Text(from, end)[k - from + 1] = input[k]
<1>9. Len(input) \in Nat
  BY DEF IsText
<1>1. PICK l, m, t : l \in Nat /\ l = Len(input) /\ m = end - 1 /\ t = SubSeq(input, from, m)
  BY <1>9, Zenon
<1>2. /\ from \in 1..l /\ end \in (from + 1)..(l + 1)
      /\ m \in Nat /\ from <= m /\ m <= l
  BY <1>1
<1>3. \A i \in from..m : input[i] \in STRING
  BY <1>1, <1>2 DEF IsText
<1>4. /\ t \in Seq(STRING) /\ Len(t) = m - from + 1
      /\ \A i \in 1..(m - from + 1) : t[i] = input[from + i - 1]
  BY <1>1, <1>2, <1>3, SubSeqProperties
<1>5. m - from + 1 = end - from /\ end - from # 0
  BY <1>1, <1>2
<1>6. t # <<>>
  BY <1>4, <1>5
<1>7. \A k \in from..(end - 1) : k - from + 1 \in 1..(end - from) /\ from + (k - from + 1) - 1 = k
  BY <1>2
<1>8. \A k \in from..(end - 1) : t[k - from + 1] = input[k]
  BY <1>4, <1>5, <1>7
<1> QED
  BY <1>1, <1>4, <1>5, <1>6, <1>7, <1>8 DEF Text

LEMMA TokenIsLongest ==
  ASSUME IInv, LongestLexeme, NEW t, tokens' = Append(tokens, t), input' = input, IsLongest(t)
  PROVE  LongestLexeme'
<1>1. \A u : IsLongest(u) => IsLongest(u)'
  BY DEF IsLongest, NoLexeme, Text
<1>2. \A u \in Range(tokens') : u \in Range(tokens) \/ u = t
  BY DEF IInv, TypeOK, Range
<1> QED
  BY <1>1, <1>2 DEF LongestLexeme

LEMMA LexemeIsLongest ==
  ASSUME IInv, LongestLexeme, NEW type, NEW end, NEW lines, type \notin {"eof", "error"},
         Language!KindOf(Text(current, end)) = type,
         NoLexeme(current, (end + 1)..(Len(input) + 1)),
         Token(type, end, lines)
  PROVE  LongestLexeme'
<1>1. PICK t : t = [type |-> type, start |-> current, end |-> end, line |-> line + lines]
  OBVIOUS
<1>2. t.type = type /\ t.start = current /\ t.end = end
  BY <1>1
<1>3. IsLongest(t)
  BY <1>2 DEF IsLongest
<1> QED
  BY <1>1, <1>3, TokenIsLongest DEF Token

LEMMA ErrorIsLongest ==
  ASSUME IInv, LongestLexeme, NEW end, NEW lines,
         NoLexeme(current, (current + 1)..(Len(input) + 1)),
         end = IF input[current] = Quote THEN Len(input) + 1 ELSE current + 1,
         Token("error", end, lines)
  PROVE  LongestLexeme'
<1>1. PICK t : t = [type |-> "error", start |-> current, end |-> end, line |-> line + lines]
  OBVIOUS
<1>2. t.type = "error" /\ t.start = current /\ t.end = end
  BY <1>1
<1>3. IsLongest(t)
  BY <1>2 DEF IsLongest
<1> QED
  BY <1>1, <1>3, TokenIsLongest DEF Token

LEMMA identifierLongest == IInv /\ LongestLexeme /\ identifier => LongestLexeme'
<1> SUFFICES ASSUME IInv, LongestLexeme, identifier PROVE LongestLexeme'
  OBVIOUS
<1>1. current \in 1..Len(input) /\ input[current] \in Letters
  BY PeekChar, ScannerAssumption DEF identifier, peek
<1>2. PICK end : end = Past(Letters \cup Digits, current + 1)
  OBVIOUS
<1>3. /\ end \in (current + 1)..(Len(input) + 1)
      /\ CharAt(end) \notin Letters \cup Digits
      /\ \A i \in (current + 1)..(end - 1) : CharAt(i) \in Letters \cup Digits
  <2>1. NUL \notin Letters \cup Digits
    BY ScannerAssumption
  <2>2. current + 1 \in 1..(Len(input) + 1)
    BY <1>1
  <2> QED BY <1>2, <2>1, <2>2, PastStops DEF IInv
<1>4. PICK w : w = Text(current, end)
  OBVIOUS
<1>5. /\ w \in Seq(STRING) /\ w # <<>> /\ Len(w) = end - current
      /\ \A i \in 1..(end - current) : w[i] = input[current + i - 1]
  BY <1>1, <1>3, <1>4, TextIs DEF IInv
<1>6. w[1] \in Letters
  BY <1>1, <1>3, <1>5
<1>7. ToSet(w) \subseteq Letters \cup Digits
  <2>1. \A i \in current..(end - 1) : input[i] \in Letters \cup Digits
    BY <1>1, <1>3 DEF CharAt
  <2>2. \A i \in 1..(end - current) : current + i - 1 \in current..(end - 1)
    BY <1>1, <1>3
  <2> QED
    BY <1>5, <2>1, <2>2 DEF ToSet
<1>8. Language!KindOf(w) = identifierType(w)
  <2>1. Len(w) >= 1
    BY <1>1, <1>3, <1>5
  <2> QED
    BY <1>5, <1>6, <1>7, <2>1, KindOfWord, TrieIsKeywords
<1>9. identifierType(w) \notin {"eof", "error"}
  <2>1. Len(w) >= 1
    BY <1>1, <1>3, <1>5
  <2>2. Language!Keyword(w) \notin {"eof", "error"}
    BY DEF Language!Keyword
  <2> QED
    BY <1>5, <2>1, <2>2, TrieIsKeywords
<1>10. NoLexeme(current, (end + 1)..(Len(input) + 1))
  <2> SUFFICES ASSUME NEW e \in (end + 1)..(Len(input) + 1)
               PROVE  Language!KindOf(Text(current, e)) = "none"
    BY DEF NoLexeme
  <2>1. PICK x : x = Text(current, e)
    OBVIOUS
  <2>2. e \in (current + 1)..(Len(input) + 1) /\ end \in current..(e - 1)
    BY <1>1, <1>3
  <2>3. /\ x \in Seq(STRING) /\ x # <<>> /\ Len(x) = e - current
        /\ \A i \in 1..(e - current) : x[i] = input[current + i - 1]
        /\ end - current + 1 \in 1..(e - current) /\ x[end - current + 1] = input[end]
    BY <1>1, <2>1, <2>2, TextIs DEF IInv
  <2>4. x[1] \in Letters
    BY <1>1, <2>2, <2>3
  <2>5. input[end] \notin Letters \cup Digits
    BY <1>1, <1>3, <2>2 DEF CharAt
  <2>6. x[end - current + 1] \in ToSet(x)
    BY <2>3 DEF ToSet
  <2> QED
    BY <2>1, <2>3, <2>4, <2>5, <2>6, KindOfWord
<1>11. Token(identifierType(w), end, 0)
  BY <1>2, <1>4 DEF identifier, Text
<1> QED
  BY <1>4, <1>8, <1>9, <1>10, <1>11, LexemeIsLongest

LEMMA numberLongest == IInv /\ LongestLexeme /\ number => LongestLexeme'
<1> SUFFICES ASSUME IInv, LongestLexeme, number PROVE LongestLexeme'
  OBVIOUS
<1>1. current \in 1..Len(input) /\ input[current] \in Digits
  BY PeekChar, ScannerAssumption DEF number, peek
<1>2. NUL \notin Digits /\ "." \notin Digits /\ "." # NUL
  BY ScannerAssumption DEF Single, NUL
<1>3. PICK point : point = Past(Digits, current + 1)
  OBVIOUS
<1>4. /\ point \in (current + 1)..(Len(input) + 1)
      /\ CharAt(point) \notin Digits
      /\ \A i \in (current + 1)..(point - 1) : CharAt(i) \in Digits
  <2>1. current + 1 \in 1..(Len(input) + 1)
    BY <1>1
  <2> QED BY <1>2, <1>3, <2>1, PastStops DEF IInv
<1>5. \A i \in current..(point - 1) : input[i] \in Digits
  BY <1>1, <1>4 DEF CharAt
<1>6. ASSUME NEW e \in (current + 1)..(Len(input) + 1)
      PROVE  LET x == Text(current, e)
             IN  /\ Language!KindOf(x) = IF Language!IsNumber(x) THEN "number" ELSE "none"
                 /\ Language!IsNumber(x) <=>
                      \/ \A k \in current..(e - 1) : input[k] \in Digits
                      \/ \E p \in current..(e - 1) :
                           /\ current < p /\ p < e - 1 /\ input[p] = "."
                           /\ \A k \in current..(e - 1) : k # p => input[k] \in Digits
  <2>1. PICK x : x = Text(current, e)
    OBVIOUS
  <2>2. /\ x \in Seq(STRING) /\ x # <<>> /\ Len(x) = e - current
        /\ \A i \in 1..(e - current) : x[i] = input[current + i - 1]
        /\ \A k \in current..(e - 1) : /\ k - current + 1 \in 1..(e - current)
                                       /\ x[k - current + 1] = input[k]
    BY <1>1, <1>6, <2>1, TextIs DEF IInv
  <2>3. x[1] \in Digits
    BY <1>1, <1>6, <2>2
  <2>4. \A i \in 1..Len(x) : current + i - 1 \in current..(e - 1) /\ x[i] = input[current + i - 1]
    BY <1>1, <1>6, <2>2
  <2>5. (\A i \in 1..Len(x) : x[i] \in Digits) <=> \A k \in current..(e - 1) : input[k] \in Digits
    BY <2>2, <2>4
  <2>6. ASSUME NEW p \in 1..Len(x), 1 < p, p < Len(x), x[p] = ".",
               \A i \in 1..Len(x) : i # p => x[i] \in Digits
        PROVE  \E q \in current..(e - 1) :
                 /\ current < q /\ q < e - 1 /\ input[q] = "."
                 /\ \A k \in current..(e - 1) : k # q => input[k] \in Digits
    <3>1. PICK q : q = current + p - 1
      OBVIOUS
    <3>2. q \in current..(e - 1) /\ current < q /\ q < e - 1 /\ input[q] = "."
      BY <1>1, <1>6, <2>2, <2>4, <2>6, <3>1
    <3>3. \A k \in current..(e - 1) : k # q => k - current + 1 # p
      BY <1>1, <1>6, <2>6, <3>1
    <3>4. \A k \in current..(e - 1) : k # q => input[k] \in Digits
      BY <2>2, <2>6, <3>3
    <3> QED
      BY <3>2, <3>4
  <2>7. ASSUME NEW q \in current..(e - 1), current < q, q < e - 1, input[q] = ".",
               \A k \in current..(e - 1) : k # q => input[k] \in Digits
        PROVE  \E p \in 1..Len(x) : /\ 1 < p /\ p < Len(x) /\ x[p] = "."
                                    /\ \A i \in 1..Len(x) : i # p => x[i] \in Digits
    <3>1. PICK p : p = q - current + 1
      OBVIOUS
    <3>2. p \in 1..Len(x) /\ 1 < p /\ p < Len(x) /\ x[p] = "."
      BY <1>1, <1>6, <2>2, <2>7, <3>1
    <3>3. \A i \in 1..Len(x) : i # p => current + i - 1 # q
      BY <1>1, <1>6, <2>2, <2>7, <3>1
    <3>4. \A i \in 1..Len(x) : i # p => x[i] \in Digits
      BY <2>4, <2>7, <3>3
    <3> QED
      BY <3>2, <3>4
  <2>8. Language!IsNumber(x) <=>
          \/ \A i \in 1..Len(x) : x[i] \in Digits
          \/ \E p \in 1..Len(x) : /\ 1 < p /\ p < Len(x) /\ x[p] = "."
                                  /\ \A i \in 1..Len(x) : i # p => x[i] \in Digits
    BY <2>2, NumberParts
  <2>9. Language!KindOf(x) = IF Language!IsNumber(x) THEN "number" ELSE "none"
    BY <2>2, <2>3, KindOfNumber
  <2> QED
    BY <2>1, <2>5, <2>6, <2>7, <2>8, <2>9
<1>7. CASE CharAt(point) = "." /\ CharAt(point + 1) \in Digits
  <2>1. /\ point \in 1..Len(input) /\ point + 1 \in 1..Len(input)
        /\ input[point] = "." /\ input[point + 1] \in Digits
    BY <1>1, <1>2, <1>4, <1>7 DEF CharAt
  <2>2. PICK end : end = Past(Digits, point + 1)
    OBVIOUS
  <2>3. /\ end \in (point + 1)..(Len(input) + 1)
        /\ CharAt(end) \notin Digits
        /\ \A i \in (point + 1)..(end - 1) : CharAt(i) \in Digits
    <3>1. point + 1 \in 1..(Len(input) + 1)
      BY <2>1
    <3> QED
      BY <1>2, <2>2, <3>1, PastStops DEF IInv
  <2>4. end # point + 1 /\ \A i \in (point + 1)..(end - 1) : input[i] \in Digits
    BY <1>7, <2>1, <2>3 DEF CharAt
  <2>5. end \in (current + 1)..(Len(input) + 1)
    BY <1>1, <1>4, <2>1, <2>3
  <2>6. Language!KindOf(Text(current, end)) = "number"
    <3>1. point \in current..(end - 1) /\ current < point /\ point < end - 1
      BY <1>1, <1>4, <2>1, <2>3, <2>4
    <3>2. \A k \in current..(end - 1) :
            k # point => k \in current..(point - 1) \/ k \in (point + 1)..(end - 1)
      BY <1>1, <2>1, <2>3
    <3>3. \A k \in current..(end - 1) : k # point => input[k] \in Digits
      BY <1>5, <2>4, <3>2
    <3> QED
      BY <1>6, <2>1, <2>5, <3>1, <3>3
  <2>7. NoLexeme(current, (end + 1)..(Len(input) + 1))
    <3> SUFFICES ASSUME NEW e \in (end + 1)..(Len(input) + 1)
                 PROVE  Language!KindOf(Text(current, e)) = "none"
      BY DEF NoLexeme
    <3>1. /\ e \in (current + 1)..(Len(input) + 1)
          /\ point \in current..(e - 1) /\ end \in current..(e - 1) /\ point # end
      BY <1>1, <1>4, <2>1, <2>3
    <3>2. input[point] \notin Digits /\ input[end] \notin Digits
      BY <1>2, <2>1, <2>3, <3>1 DEF CharAt
    <3>3. \A p : p # point \/ p # end
      BY <3>1
    <3> QED
      BY <1>6, <3>1, <3>2, <3>3
  <2>8. Token("number", end, 0)
    BY <1>3, <1>7, <2>2 DEF number
  <2> QED
    BY <2>6, <2>7, <2>8, LexemeIsLongest
<1>8. CASE ~(CharAt(point) = "." /\ CharAt(point + 1) \in Digits)
  <2>1. Language!KindOf(Text(current, point)) = "number"
    BY <1>4, <1>5, <1>6
  <2>2. NoLexeme(current, (point + 1)..(Len(input) + 1))
    <3> SUFFICES ASSUME NEW e \in (point + 1)..(Len(input) + 1)
                 PROVE  Language!KindOf(Text(current, e)) = "none"
      BY DEF NoLexeme
    <3>1. e \in (current + 1)..(Len(input) + 1) /\ point \in current..(e - 1)
      BY <1>1, <1>4
    <3>2. input[point] \notin Digits /\ input[point] = CharAt(point)
      BY <1>1, <1>4, <3>1 DEF CharAt
    <3>3. ASSUME NEW p \in current..(e - 1), current < p, p < e - 1, input[p] = ".",
                 \A k \in current..(e - 1) : k # p => input[k] \in Digits
          PROVE  FALSE
      <4>1. p = point
        BY <3>1, <3>2, <3>3
      <4>2. point + 1 \in current..(e - 1) /\ point + 1 # p /\ point + 1 <= Len(input)
        BY <1>1, <1>4, <3>1, <3>3, <4>1
      <4>3. CharAt(point + 1) \in Digits
        BY <1>1, <1>4, <3>3, <4>2 DEF CharAt
      <4> QED
        BY <1>8, <3>2, <3>3, <4>1, <4>3
    <3> QED
      BY <1>6, <3>1, <3>2, <3>3
  <2>3. Token("number", point, 0)
    BY <1>3, <1>8 DEF number
  <2> QED
    BY <2>1, <2>2, <2>3, LexemeIsLongest
<1> QED
  BY <1>7, <1>8

LEMMA stringLongest == IInv /\ LongestLexeme /\ string => LongestLexeme'
<1> SUFFICES ASSUME IInv, LongestLexeme, string PROVE LongestLexeme'
  OBVIOUS
<1>1. current \in 1..Len(input) /\ input[current] = Quote
  BY PeekChar, ScannerAssumption DEF string, peek
<1>2. PICK quote : quote = Past(InString, current + 1)
  OBVIOUS
<1>3. /\ quote \in (current + 1)..(Len(input) + 1)
      /\ CharAt(quote) \notin InString
      /\ \A i \in (current + 1)..(quote - 1) : CharAt(i) \in InString
  <2>1. NUL \notin InString
    BY DEF InString, IInv, IsText
  <2>2. current + 1 \in 1..(Len(input) + 1)
    BY <1>1
  <2> QED BY <1>2, <2>1, <2>2, PastStops DEF IInv
<1>4. \A i \in (current + 1)..(quote - 1) : input[i] # Quote
  BY <1>1, <1>3 DEF CharAt, InString
<1>5. \A k \in 1..Len(input) : input[k] \in Range(input) /\ input[k] # NUL
  BY DEF Range, IInv, IsText
<1>6. ASSUME NEW e \in (current + 1)..(Len(input) + 1)
      PROVE  LET x == Text(current, e)
             IN  /\ Language!KindOf(x) = IF Language!IsString(x) THEN "string" ELSE "none"
                 /\ Language!IsString(x) <=>
                      /\ e > current + 1 /\ input[e - 1] = Quote
                      /\ \A k \in (current + 1)..(e - 2) : input[k] # Quote
  <2>1. PICK x : x = Text(current, e)
    OBVIOUS
  <2>2. /\ x \in Seq(STRING) /\ x # <<>> /\ Len(x) = e - current
        /\ \A i \in 1..(e - current) : x[i] = input[current + i - 1]
        /\ \A k \in current..(e - 1) : /\ k - current + 1 \in 1..(e - current)
                                       /\ x[k - current + 1] = input[k]
    BY <1>1, <1>6, <2>1, TextIs DEF IInv
  <2>3. x[1] = Quote
    BY <1>1, <1>6, <2>2
  <2>4. Language!KindOf(x) = IF Language!IsString(x) THEN "string" ELSE "none"
    BY <2>2, <2>3, KindOfString
  <2>5. DOMAIN x = 1..Len(x) /\ Len(x) \in Nat
    BY <2>2
  <2>6. ASSUME Len(x) > 1, {i \in 1..Len(x) : x[i] = Quote} = {1, Len(x)}
        PROVE  /\ e > current + 1 /\ input[e - 1] = Quote
               /\ \A k \in (current + 1)..(e - 2) : input[k] # Quote
    <3>1. e > current + 1 /\ e - 1 \in current..(e - 1) /\ (e - 1) - current + 1 = Len(x)
      BY <1>1, <1>6, <2>2, <2>6
    <3>2. x[Len(x)] = Quote
      BY <2>5, <2>6
    <3>3. ASSUME NEW k \in (current + 1)..(e - 2) PROVE input[k] # Quote
      <4>1. k \in current..(e - 1) /\ k - current + 1 # 1 /\ k - current + 1 # Len(x)
        BY <1>1, <1>6, <2>2, <3>3
      <4>2. k - current + 1 \in 1..Len(x) /\ x[k - current + 1] = input[k]
        BY <2>2, <4>1
      <4> QED
        BY <2>6, <4>1, <4>2
    <3> QED
      BY <2>2, <3>1, <3>2, <3>3
  <2>7. ASSUME e > current + 1, input[e - 1] = Quote,
               \A k \in (current + 1)..(e - 2) : input[k] # Quote
        PROVE  Len(x) > 1 /\ {i \in 1..Len(x) : x[i] = Quote} = {1, Len(x)}
    <3>1. Len(x) > 1 /\ e - 1 \in current..(e - 1) /\ (e - 1) - current + 1 = Len(x)
      BY <1>1, <1>6, <2>2, <2>7
    <3>2. x[Len(x)] = Quote
      BY <2>2, <2>7, <3>1
    <3>3. ASSUME NEW i \in 1..Len(x), i # 1, i # Len(x) PROVE x[i] # Quote
      <4>1. current + i - 1 \in (current + 1)..(e - 2)
        BY <1>1, <1>6, <2>2, <3>3
      <4> QED
        BY <2>2, <2>7, <3>3, <4>1
    <3>4. 1 \in 1..Len(x) /\ Len(x) \in 1..Len(x)
      BY <2>5, <3>1
    <3> QED
      BY <2>3, <3>1, <3>2, <3>3, <3>4
  <2>8. Language!IsString(x) <=> Len(x) > 1 /\ {i \in 1..Len(x) : x[i] = Quote} = {1, Len(x)}
    BY <2>5 DEF Language!IsString, Quote
  <2> QED
    BY <2>1, <2>4, <2>6, <2>7, <2>8
<1>7. PICK lines : lines = Cardinality(Newlines(current + 1, quote - 1))
  OBVIOUS
<1>8. CASE CharAt(quote) = NUL
  <2>1. quote = Len(input) + 1
    BY <1>1, <1>3, <1>5, <1>8 DEF CharAt
  <2>2. NoLexeme(current, (current + 1)..(Len(input) + 1))
    <3> SUFFICES ASSUME NEW e \in (current + 1)..(Len(input) + 1)
                 PROVE  Language!KindOf(Text(current, e)) = "none"
      BY DEF NoLexeme
    <3>1. e > current + 1 => e - 1 \in (current + 1)..(quote - 1)
      BY <1>1, <2>1
    <3> QED
      BY <1>4, <1>6, <3>1
  <2>3. Token("error", quote, lines)
    BY <1>2, <1>7, <1>8 DEF string
  <2> QED
    BY <1>1, <2>1, <2>2, <2>3, ErrorIsLongest
<1>9. CASE CharAt(quote) # NUL
  <2>1. quote \in (current + 1)..Len(input) /\ input[quote] = Quote
    BY <1>1, <1>3, <1>5, <1>9 DEF CharAt, InString
  <2>2. PICK end : end = quote + 1
    OBVIOUS
  <2>3. /\ end \in (current + 1)..(Len(input) + 1)
        /\ end > current + 1 /\ end - 1 = quote /\ end - 2 = quote - 1
    BY <1>1, <2>1, <2>2
  <2>4. Language!KindOf(Text(current, end)) = "string"
    BY <1>4, <1>6, <2>1, <2>3
  <2>5. NoLexeme(current, (end + 1)..(Len(input) + 1))
    <3> SUFFICES ASSUME NEW e \in (end + 1)..(Len(input) + 1)
                 PROVE  Language!KindOf(Text(current, e)) = "none"
      BY DEF NoLexeme
    <3>1. e \in (current + 1)..(Len(input) + 1) /\ quote \in (current + 1)..(e - 2)
      BY <1>1, <2>1, <2>2
    <3> QED
      BY <1>6, <2>1, <3>1
  <2>6. Token("string", end, lines)
    BY <1>2, <1>7, <1>9, <2>2 DEF string
  <2> QED
    BY <2>4, <2>5, <2>6, LexemeIsLongest
<1> QED
  BY <1>8, <1>9

LEMMA punctuationLongest == IInv /\ LongestLexeme /\ punctuation => LongestLexeme'
<1> SUFFICES ASSUME IInv, LongestLexeme, punctuation PROVE LongestLexeme'
  OBVIOUS
<1>1. /\ current \in 1..Len(input) /\ peek = input[current]
      /\ input[current] \in Single \cup Double
  <2>1. peek # NUL
    BY DEF punctuation, NUL, Single, Double
  <2> QED
    BY <2>1, PeekChar DEF punctuation
<1>2. Single \cap Double = {}
  BY DEF Single, Double
<1>3. ASSUME NEW e \in (current + 1)..(Len(input) + 1)
      PROVE  LET x == Text(current, e)
             IN  Language!KindOf(x) =
                   IF \/ e = current + 1
                      \/ (e = current + 2 /\ input[current] \in Double /\ input[current + 1] = "=")
                   THEN "punctuation" ELSE "none"
  <2>1. PICK x : x = Text(current, e)
    OBVIOUS
  <2>2. /\ x \in Seq(STRING) /\ x # <<>> /\ Len(x) = e - current
        /\ \A i \in 1..(e - current) : x[i] = input[current + i - 1]
    BY <1>1, <1>3, <2>1, TextIs DEF IInv
  <2>3. x[1] = input[current]
    BY <1>1, <1>3, <2>2
  <2>4. Language!KindOf(x) = IF x \in Language!Punctuation THEN "punctuation" ELSE "none"
    BY <1>1, <2>2, <2>3, KindOfPunctuation
  <2>5. \A c : x = <<c>> <=> Len(x) = 1 /\ x[1] = c
    BY <2>2
  <2>6. \A c : x = <<c, "=">> <=> Len(x) = 2 /\ x[1] = c /\ x[2] = "="
    BY <2>2
  <2>7. Len(x) = 1 <=> e = current + 1
    BY <1>1, <1>3, <2>2
  <2>8. (Len(x) = 2 <=> e = current + 2) /\ (Len(x) = 2 => x[2] = input[current + 1])
    BY <1>1, <1>3, <2>2
  <2>9. x \in Language!Punctuation <=>
          \/ Len(x) = 1 /\ x[1] \in Single \cup Double
          \/ Len(x) = 2 /\ x[1] \in Double /\ x[2] = "="
    BY <2>5, <2>6, PunctuationIs
  <2>10. x \in Language!Punctuation <=>
           \/ e = current + 1
           \/ (e = current + 2 /\ input[current] \in Double /\ input[current + 1] = "=")
    BY <1>1, <2>3, <2>7, <2>8, <2>9
  <2> QED
    BY <2>1, <2>4, <2>10
<1>4. CASE peek \in Double /\ peekNext = "="
  <2>1. current + 1 \in 1..Len(input) /\ input[current + 1] = "="
    BY <1>1, <1>4 DEF peekNext, CharAt, isAtEnd, NUL
  <2>2. PICK end : end = current + 2
    OBVIOUS
  <2>3. Language!KindOf(Text(current, end)) = "punctuation"
    <3>1. end \in (current + 1)..(Len(input) + 1)
      BY <1>1, <2>1, <2>2
    <3> QED
      BY <1>1, <1>3, <1>4, <2>1, <2>2, <3>1
  <2>4. NoLexeme(current, (end + 1)..(Len(input) + 1))
    <3>1. \A e \in (end + 1)..(Len(input) + 1) :
            e \in (current + 1)..(Len(input) + 1) /\ e # current + 1 /\ e # current + 2
      BY <1>1, <2>1, <2>2
    <3> QED
      BY <1>3, <3>1 DEF NoLexeme
  <2>5. Token("punctuation", end, 0)
    BY <1>1, <1>2, <1>4, <2>2 DEF punctuation
  <2> QED
    BY <2>3, <2>4, <2>5, LexemeIsLongest
<1>5. CASE ~(peek \in Double /\ peekNext = "=")
  <2>1. PICK end : end = current + 1
    OBVIOUS
  <2>2. Language!KindOf(Text(current, end)) = "punctuation"
    <3>1. end \in (current + 1)..(Len(input) + 1)
      BY <1>1, <2>1
    <3> QED
      BY <1>3, <2>1, <3>1
  <2>3. NoLexeme(current, (end + 1)..(Len(input) + 1))
    <3> SUFFICES ASSUME NEW e \in (end + 1)..(Len(input) + 1)
                 PROVE  Language!KindOf(Text(current, e)) = "none"
      BY DEF NoLexeme
    <3>1. e \in (current + 1)..(Len(input) + 1) /\ e # current + 1 /\ current + 1 <= Len(input)
      BY <1>1, <2>1
    <3>2. ~(input[current] \in Double /\ input[current + 1] = "=")
      BY <1>1, <1>5, <3>1 DEF peekNext, CharAt, isAtEnd
    <3> QED
      BY <1>3, <3>1, <3>2
  <2>4. Token("punctuation", end, 0)
    BY <1>5, <2>1 DEF punctuation
  <2> QED
    BY <2>2, <2>3, <2>4, LexemeIsLongest
<1> QED
  BY <1>4, <1>5

LEMMA unexpectedLongest == IInv /\ LongestLexeme /\ unexpected => LongestLexeme'
<1> SUFFICES ASSUME IInv, LongestLexeme, unexpected PROVE LongestLexeme'
  OBVIOUS
<1>1. /\ current \in 1..Len(input) /\ input[current] \notin Expected
      /\ input[current] # Quote
  BY DEF unexpected, isAtEnd, IInv, TypeOK, peek, CharAt, Expected
<1>2. NoLexeme(current, (current + 1)..(Len(input) + 1))
  <2> SUFFICES ASSUME NEW e \in (current + 1)..(Len(input) + 1)
               PROVE  Language!KindOf(Text(current, e)) = "none"
    BY DEF NoLexeme
  <2>1. PICK x : x = Text(current, e)
    OBVIOUS
  <2>2. /\ x \in Seq(STRING) /\ x # <<>> /\ Len(x) = e - current
        /\ \A i \in 1..(e - current) : x[i] = input[current + i - 1]
    BY <1>1, <2>1, TextIs DEF IInv
  <2>3. x[1] = input[current]
    BY <1>1, <2>2
  <2> QED
    BY <1>1, <2>1, <2>2, <2>3, KindOfOther
<1>3. PICK end : end = current + 1
  OBVIOUS
<1>4. Token("error", end, 0)
  BY <1>3 DEF unexpected
<1> QED
  BY <1>1, <1>2, <1>3, <1>4, ErrorIsLongest

LEMMA atEndLongest == IInv /\ LongestLexeme /\ atEnd => LongestLexeme'
<1> SUFFICES ASSUME IInv, LongestLexeme, atEnd PROVE LongestLexeme'
  OBVIOUS
<1>1. CASE Ended
  BY <1>1 DEF atEnd, vars, LongestLexeme, IsLongest, NoLexeme, Text
<1>2. CASE ~Ended
  <2>1. PICK t : t = [type |-> "eof", start |-> current, end |-> current, line |-> line + 0]
    OBVIOUS
  <2>2. tokens' = Append(tokens, t) /\ input' = input
    BY <1>2, <2>1 DEF atEnd, Token
  <2>3. t.type = "eof" /\ t.start = Len(input) + 1
    BY <2>1 DEF atEnd, isAtEnd, IInv, TypeOK
  <2>4. IsLongest(t)
    BY <2>3 DEF IsLongest
  <2> QED
    BY <2>2, <2>4, TokenIsLongest
<1> QED
  BY <1>1, <1>2

LEMMA NextLongest == IInv /\ LongestLexeme /\ [Next]_vars => LongestLexeme'
<1> SUFFICES ASSUME IInv, LongestLexeme, [Next]_vars PROVE LongestLexeme'
  OBVIOUS
<1>1. CASE blank \/ comment \/ UNCHANGED vars
  BY <1>1 DEF blank, comment, vars, LongestLexeme, IsLongest, NoLexeme, Text
<1> QED
  BY <1>1, identifierLongest, numberLongest, stringLongest, punctuationLongest,
     unexpectedLongest, atEndLongest DEF Next

(* On every text: a token is of the kind the language says its characters  *)
(* are, no longer lexeme begins where it does - whatever points, operators *)
(* of two characters and unclosed quotes follow it - and an error token    *)
(* stands only where no lexeme begins at all.                              *)
THEOREM FindsLongestLexemes == Spec => []LongestLexeme
<1>1. Init => LongestLexeme
  BY DEF Init, LongestLexeme, Range
<1> QED
  BY <1>1, Invariance, NextLongest, PTL DEF Spec

---------------------------------------------------------------------------
(* Between the tokens there is nothing but blanks.                         *)

LEMMA RestIs ==
  ASSUME IsText, NEW k \in 1..(Len(input) + 1)
  PROVE  /\ Rest(k) \in Seq(STRING) /\ Len(Rest(k)) = Len(input) - k + 1
         /\ \A i \in 1..(Len(input) - k + 1) : Rest(k)[i] = input[k + i - 1]
<1>1. Len(input) \in Nat
  BY DEF IsText
<1>2. \A i \in k..Len(input) : input[i] \in STRING
  BY DEF IsText
<1>3. PICK l, t : l = Len(input) /\ t = SubSeq(input, k, l)
  OBVIOUS
<1>4. k <= l + 1 /\ k \in Int /\ l \in Nat
  BY <1>1, <1>3
<1>5. /\ t \in Seq(STRING) /\ Len(t) = l - k + 1
      /\ \A i \in 1..(l - k + 1) : t[i] = input[k + i - 1]
  BY <1>2, <1>3, <1>4, SubSeqProperties
<1> QED
  BY <1>3, <1>5 DEF Rest

LEMMA PrefixIs ==
  ASSUME NEW r \in Seq(STRING), NEW n \in 1..Len(r)
  PROVE  /\ SubSeq(r, 1, n) \in Seq(STRING) /\ Len(SubSeq(r, 1, n)) = n
         /\ \A i \in 1..n : SubSeq(r, 1, n)[i] = r[i]
<1>1. Len(r) \in Nat /\ \A i \in 1..n : r[i] \in STRING
  OBVIOUS
<1>2. PICK t : t = SubSeq(r, 1, n)
  OBVIOUS
<1>3. 1 <= n /\ n \in Int
  OBVIOUS
<1>4. t \in Seq(STRING) /\ Len(t) = n - 1 + 1 /\ \A i \in 1..(n - 1 + 1) : t[i] = r[1 + i - 1]
  BY <1>1, <1>2, <1>3, SubSeqProperties
<1>5. Len(t) = n /\ \A i \in 1..n : t[i] = r[i]
  BY <1>3, <1>4
<1> QED
  BY <1>2, <1>4, <1>5

LEMMA BlankLength ==
  ASSUME NEW r, Len(r) \in Nat, NEW n \in Language!BlankLengths(r)
  PROVE  n \in Nat
<1>1. n \in 1..Len(r)
  BY Zenon DEF Language!BlankLengths
<1> QED
  BY <1>1

(* One more blank after blanks.                                            *)
LEMMA BlankExtends ==
  ASSUME IsText, NEW a \in Nat \ {0}, NEW b \in Nat, a <= b, Blank(a, b),
         NEW n \in Nat, b + n <= Len(input) + 1, n \in Language!BlankLengths(Rest(b))
  PROVE  Blank(a, b + n)
<1> SUFFICES ASSUME NEW S \in SUBSET (a..(b + n)), a \in S,
                    \A k \in S : \A m \in Language!BlankLengths(Rest(k)) :
                      k + m <= b + n => k + m \in S
             PROVE  b + n \in S
  BY DEF Blank
<1>1. PICK T : T = S \cap (a..b)
  OBVIOUS
<1>2. T \in SUBSET (a..b) /\ a \in T
  BY <1>1
<1>3. ASSUME NEW k \in T, NEW m \in Language!BlankLengths(Rest(k)), k + m <= b
      PROVE  k + m \in T
  <2>1. m \in Nat
    <3>1. k \in 1..(Len(input) + 1)
      BY <1>1 DEF IsText
    <3>2. Len(Rest(k)) \in Nat
      BY <3>1, RestIs
    <3> QED
      BY <3>2, BlankLength
  <2>2. k \in S /\ k \in a..b
    BY <1>1
  <2>3. k + m <= b + n
    BY <1>3, <2>1, <2>2
  <2>4. k + m \in S
    BY <2>2, <2>3
  <2> QED
    BY <1>1, <1>3, <2>1, <2>2, <2>4
<1>4. b \in T
  BY <1>2, <1>3 DEF Blank
<1>5. b \in S
  BY <1>1, <1>4
<1> QED
  BY <1>5

(* The tokens so far follow each other with nothing lost, and end somewhere *)
(* in the text.                                                            *)
Followed(i) == /\ Ends(i) \in Nat \ {0} /\ Starts(i + 1) \in Nat
               /\ Ends(i) <= Starts(i + 1) /\ Blank(Ends(i), Starts(i + 1))

AllFollowed == \A i \in 0..Len(tokens) : Followed(i)

LEMMA StaysBlank ==
  ASSUME input' = input
  PROVE  \A a, b : Blank(a, b)' <=> Blank(a, b)
BY DEF Blank, Rest, Language!BlankLengths

(* A step that goes over one blank.                                        *)
LEMMA BlankLosesNothing ==
  ASSUME IInv, AllFollowed, NEW n \in Nat, n \in Language!BlankLengths(Rest(current)),
         current + n <= Len(input) + 1,
         current' = current + n, UNCHANGED <<input, tokens>>
  PROVE  AllFollowed'
<1> SUFFICES ASSUME NEW i \in 0..Len(tokens) PROVE Followed(i)'
  BY DEF AllFollowed
<1>1. current \in Nat /\ Len(tokens) \in Nat
  BY DEF IInv, TypeOK
<1>2. PICK e, s : e = Ends(i) /\ s = Starts(i + 1)
  OBVIOUS
<1>3. e \in Nat \ {0} /\ s \in Nat /\ e <= s /\ Blank(e, s)
  BY <1>2 DEF AllFollowed, Followed
<1>4. Ends(i)' = e
  BY <1>2 DEF Ends
<1>5. CASE i = Len(tokens)
  <2>1. s = current /\ Starts(i + 1)' = current + n
    BY <1>1, <1>2, <1>5 DEF Starts
  <2>2. PICK z : z = current + n
    OBVIOUS
  <2>3. Blank(e, z) /\ e <= z /\ z \in Nat
    BY <1>1, <1>3, <2>1, <2>2, BlankExtends DEF IInv
  <2>4. Blank(e, z)'
    BY <2>3, StaysBlank
  <2> QED
    BY <1>3, <1>4, <2>1, <2>2, <2>3, <2>4 DEF Followed
<1>6. CASE i # Len(tokens)
  <2>1. Starts(i + 1)' = s
    BY <1>1, <1>2, <1>6 DEF Starts
  <2>2. Blank(e, s)'
    BY <1>3, StaysBlank
  <2> QED
    BY <1>3, <1>4, <2>1, <2>2 DEF Followed
<1> QED
  BY <1>5, <1>6

(* A step that returns a token.                                            *)
LEMMA TokenLosesNothing ==
  ASSUME IInv, IInv', AllFollowed, NEW type, NEW end, NEW lines, Token(type, end, lines)
  PROVE  AllFollowed'
<1>1. PICK t : t = [type |-> type, start |-> current, end |-> end, line |-> line + lines]
  OBVIOUS
<1>2. /\ tokens' = Append(tokens, t) /\ t.start = current /\ t.end = end
      /\ input' = input /\ current' = end
  BY <1>1 DEF Token
<1>3. PICK n : n \in Nat /\ n = Len(tokens)
  <2>1. Len(tokens) \in Nat
    BY DEF IInv, TypeOK
  <2> QED
    BY <2>1
<1>4. /\ Len(tokens') = n + 1 /\ tokens'[n + 1] = t
      /\ \A j \in 1..n : tokens'[j] = tokens[j]
  BY <1>2, <1>3 DEF IInv, TypeOK
<1> SUFFICES ASSUME NEW i \in 0..(n + 1) PROVE Followed(i)'
  BY <1>4 DEF AllFollowed
<1>5. current \in Nat /\ end \in Nat \ {0}
  BY <1>2, <1>1 DEF IInv, TypeOK, Token
<1>6. CASE i = n + 1
  <2>1. Ends(i)' = end /\ Starts(i + 1)' = end
    BY <1>2, <1>3, <1>4, <1>6 DEF Ends, Starts
  <2>2. \A a \in Nat : Blank(a, a)
    BY DEF Blank
  <2>3. Blank(end, end)'
    BY <1>2, <1>5, <2>2, StaysBlank
  <2> QED
    BY <1>5, <2>1, <2>3 DEF Followed
<1>7. CASE i # n + 1
  <2>1. i \in 0..n
    BY <1>3, <1>4, <1>7
  <2>2. PICK e, s : e = Ends(i) /\ s = Starts(i + 1)
    OBVIOUS
  <2>3. e \in Nat \ {0} /\ s \in Nat /\ e <= s /\ Blank(e, s)
    BY <1>3, <2>1, <2>2 DEF AllFollowed, Followed
  <2>4. Ends(i)' = e
    BY <1>4, <2>1, <2>2 DEF Ends
  <2>5. Starts(i + 1)' = s
    <3>1. CASE i = n
      BY <1>2, <1>3, <1>4, <2>2, <3>1 DEF Starts
    <3>2. CASE i # n
      BY <1>3, <1>4, <2>1, <2>2, <3>2 DEF Starts
    <3> QED
      BY <3>1, <3>2
  <2>6. Blank(e, s)'
    BY <1>2, <2>3, StaysBlank
  <2> QED
    BY <2>3, <2>4, <2>5, <2>6 DEF Followed
<1> QED
  BY <1>6, <1>7

LEMMA blankLosesNothing == IInv /\ AllFollowed /\ blank => AllFollowed'
<1> SUFFICES ASSUME IInv, AllFollowed, blank PROVE AllFollowed'
  OBVIOUS
<1>1. current \in 1..Len(input) /\ input[current] \in Whitespace
  BY PeekChar DEF blank, Whitespace, NUL
<1>2. PICK r : r = Rest(current)
  OBVIOUS
<1>3. r \in Seq(STRING) /\ 1 \in 1..Len(r) /\ r[1] = input[current]
  <2>1. current \in 1..(Len(input) + 1) /\ Len(input) \in Nat
    BY <1>1 DEF IInv, IsText
  <2>2. /\ r \in Seq(STRING) /\ Len(r) = Len(input) - current + 1
        /\ \A i \in 1..(Len(input) - current + 1) : r[i] = input[current + i - 1]
    BY <1>2, <2>1, RestIs DEF IInv
  <2> QED
    BY <1>1, <2>1, <2>2
<1>4. SubSeq(r, 1, 1) \in {<<" ">>, <<"\t">>, <<"\r">>, <<"\n">>}
  <2>1. PICK w : w = SubSeq(r, 1, 1)
    OBVIOUS
  <2>2. w \in Seq(STRING) /\ Len(w) = 1 /\ w[1] = input[current]
    BY <1>3, <2>1, PrefixIs
  <2>3. w = <<input[current]>>
    BY <2>2
  <2> QED
    BY <1>1, <2>1, <2>3 DEF Whitespace
<1>5. 1 \in Language!BlankLengths(Rest(current))
  BY <1>2, <1>3, <1>4 DEF Language!BlankLengths
<1>6. current + 1 <= Len(input) + 1 /\ current' = current + 1 /\ UNCHANGED <<input, tokens>>
  BY <1>1 DEF blank
<1> QED
  BY <1>5, <1>6, BlankLosesNothing

LEMMA commentLosesNothing == IInv /\ AllFollowed /\ comment => AllFollowed'
<1> SUFFICES ASSUME IInv, AllFollowed, comment PROVE AllFollowed'
  OBVIOUS
<1>1. /\ current \in 1..Len(input) /\ current + 1 \in 1..Len(input)
      /\ input[current] = "/" /\ input[current + 1] = "/"
  <2>1. current \in 1..Len(input) /\ input[current] = "/"
    BY PeekChar DEF comment, AtComment, NUL
  <2> QED
    BY <2>1 DEF comment, AtComment, peekNext, isAtEnd, CharAt, NUL
<1>2. PICK end : end = Past(InComment, current)
  OBVIOUS
<1>3. /\ end \in current..(Len(input) + 1)
      /\ CharAt(end) \notin InComment
      /\ \A i \in current..(end - 1) : CharAt(i) \in InComment
  <2>1. NUL \notin InComment
    BY DEF InComment, IInv, IsText
  <2>2. current \in 1..(Len(input) + 1)
    BY <1>1
  <2> QED BY <1>2, <2>1, <2>2, PastStops DEF IInv
<1>4. \A k \in 1..Len(input) : input[k] \in Range(input)
  BY DEF Range, IInv, IsText
<1>5. end # current /\ end # current + 1
  BY <1>1, <1>3, <1>4 DEF CharAt, InComment
<1>6. PICK r, n : r = Rest(current) /\ n = end - current
  OBVIOUS
<1>7. /\ r \in Seq(STRING) /\ Len(r) = Len(input) - current + 1
      /\ \A i \in 1..(Len(input) - current + 1) : r[i] = input[current + i - 1]
  <2>1. current \in 1..(Len(input) + 1)
    BY <1>1
  <2> QED
    BY <1>6, <2>1, RestIs DEF IInv
<1>8. n \in 1..Len(r) /\ n > 1 /\ n \in Nat
  BY <1>1, <1>3, <1>5, <1>6, <1>7
<1>9. Language!IsComment(SubSeq(r, 1, n))
  <2>1. PICK w : w = SubSeq(r, 1, n)
    OBVIOUS
  <2>2. w \in Seq(STRING) /\ Len(w) = n /\ \A i \in 1..n : w[i] = r[i]
    BY <1>7, <1>8, <2>1, PrefixIs
  <2>3. w[1] = "/" /\ w[2] = "/"
    <3>1. /\ 1 \in 1..(Len(input) - current + 1) /\ 2 \in 1..(Len(input) - current + 1)
          /\ current + 1 - 1 = current /\ current + 2 - 1 = current + 1
          /\ 1 \in 1..n /\ 2 \in 1..n
      BY <1>1, <1>8
    <3> QED
      BY <1>1, <1>7, <2>2, <3>1
  <2>4. ASSUME NEW i \in 1..n PROVE w[i] # "\n"
    <3>1. current + i - 1 \in current..(end - 1) /\ current + i - 1 <= Len(input)
      BY <1>1, <1>3, <1>6, <1>8, <2>4
    <3>2. w[i] = input[current + i - 1]
      BY <1>7, <1>8, <2>2, <2>4
    <3> QED
      BY <1>3, <3>1, <3>2 DEF CharAt, InComment
  <2>5. "\n" \notin Language!ToSet(w)
    BY <2>2, <2>4 DEF Language!ToSet
  <2> QED
    BY <1>8, <2>1, <2>2, <2>3, <2>5 DEF Language!IsComment
<1>10. n = Len(r) \/ r[n + 1] = "\n"
  <2>1. CASE end = Len(input) + 1
    BY <1>1, <1>6, <1>7, <2>1
  <2>2. CASE end # Len(input) + 1
    <3>1. end \in 1..Len(input) /\ input[end] = "\n"
      BY <1>1, <1>3, <1>4, <2>2 DEF CharAt, InComment
    <3>2. n + 1 \in 1..(Len(input) - current + 1) /\ current + (n + 1) - 1 = end
      BY <1>1, <1>3, <1>6, <3>1
    <3> QED
      BY <1>7, <3>1, <3>2
  <2> QED
    BY <2>1, <2>2
<1>11. n \in Language!BlankLengths(Rest(current))
  BY <1>6, <1>8, <1>9, <1>10 DEF Language!BlankLengths
<1>12. current' = current + n /\ current + n <= Len(input) + 1 /\ UNCHANGED <<input, tokens>>
  BY <1>1, <1>2, <1>3, <1>6 DEF comment
<1> QED
  BY <1>8, <1>11, <1>12, BlankLosesNothing

LEMMA NextLosesNothing == IInv /\ AllFollowed /\ [Next]_vars => AllFollowed'
<1> SUFFICES ASSUME IInv, AllFollowed, [Next]_vars PROVE AllFollowed'
  OBVIOUS
<1>1. IInv'
  BY NextIInv
<1>2. CASE UNCHANGED vars
  <2>1. input' = input /\ tokens' = tokens /\ \A i : Ends(i)' = Ends(i) /\ Starts(i)' = Starts(i)
    BY <1>2 DEF vars, Ends, Starts
  <2>2. ASSUME NEW i \in 0..Len(tokens) PROVE Followed(i)'
    <3>1. PICK e, s : e = Ends(i) /\ s = Starts(i + 1)
      OBVIOUS
    <3>2. e \in Nat \ {0} /\ s \in Nat /\ e <= s /\ Blank(e, s)
      BY <2>2, <3>1 DEF AllFollowed, Followed
    <3>3. Blank(e, s)'
      BY <2>1, <3>2, StaysBlank
    <3> QED
      BY <2>1, <3>1, <3>2, <3>3 DEF Followed
  <2> QED
    BY <2>1, <2>2 DEF AllFollowed
<1>3. CASE \E type, end, lines : Token(type, end, lines)
  BY <1>1, <1>3, TokenLosesNothing
<1>4. identifier \/ number \/ string \/ punctuation \/ unexpected \/ atEnd
        => UNCHANGED vars \/ \E type, end, lines : Token(type, end, lines)
  BY Zenon DEF identifier, number, string, punctuation, unexpected, atEnd
<1> QED
  BY <1>2, <1>3, <1>4, blankLosesNothing, commentLosesNothing DEF Next

(* On every text: the tokens lie in the order of the text, and between two *)
(* of them, before the first and after the last there is nothing but       *)
(* spaces, newlines and whole comments.                                    *)
THEOREM LosesNothing == Spec => []NothingIsLost
<1>1. Init => AllFollowed
  <2>1. \A a \in Nat : Blank(a, a)
    BY DEF Blank
  <2> QED
    BY <2>1 DEF Init, AllFollowed, Followed, Ends, Starts
<1>2. AllFollowed => NothingIsLost
  BY DEF AllFollowed, Followed, NothingIsLost
<1> QED
  BY <1>1, <1>2, Invariance, NextLosesNothing, PTL DEF Spec

=============================================================================
