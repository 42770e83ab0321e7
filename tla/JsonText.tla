------------------------------ MODULE JsonText ------------------------------
(***************************************************************************)
(* What the two JSON readers of src/jsoncpp.cpp share: how a document is   *)
(* cut into tokens, and what strings and numbers decode to.                *)
(*                                                                         *)
(* A document is a sequence of characters.  The rest of a literal ("rue"), *)
(* the four digits of a \u escape and the byte order mark are matched as a *)
(* whole by the code and are one element.  A location is an index, and one *)
(* past the end stands for end_.                                           *)
(***************************************************************************)
EXTENDS JsonValue

CONSTANTS
  Byte,              \* the bytes of each element: [STRING -> Seq(0 .. 255)]
  Quad,              \* the number each hexadecimal quadruple stands for
  maxDouble          \* the largest double, in tenths

ASSUME TextAssumption == maxLargestInt > 10 /\ maxDouble \in 10 * maxLargestUInt .. 99999

DQ == "\""
SQ == "'"
BS == "\\"
LF == "\n"
CR == "\r"
Space == {" ", "\t", CR, LF}
Structural == {"{", "}", "[", "]", ",", ":"}

(* getNextChar gives 0 at the end, and so does a 0 in the document.        *)
CharAt(doc, p) == IF p <= Len(doc) THEN doc[p] ELSE "0x0"
Next1(doc, p) == IF p <= Len(doc) THEN p + 1 ELSE p

(* The first location from p on that does not hold one of S.               *)
Past(doc, p, S) ==
  CHOOSE q \in p .. Len(doc) + 1 :
    CharAt(doc, q) \notin S /\ \A k \in p .. q - 1 : doc[k] \in S

skipSpaces(doc, p) == Past(doc, p, Space)

-----------------------------------------------------------------------------
(* Tokens.  A scan starts behind the first character and gives the         *)
(* location where it ends, with a minus sign if it failed there.           *)
match(doc, p, word) == IF CharAt(doc, p) = word THEN p + 1 ELSE -p

readNumber(doc, p) ==
  LET i == Past(doc, p, Digit)
      f == IF CharAt(doc, i) = "." THEN Past(doc, i + 1, Digit) ELSE i
      Exponent == IF CharAt(doc, f + 1) \in {"+", "-"} THEN f + 2 ELSE f + 1
  IN IF CharAt(doc, f) \in {"e", "E"} THEN Past(doc, Exponent, Digit) ELSE f

(* Up to the first quote that no backslash precedes.                       *)
RECURSIVE ScanString(_, _, _)
ScanString(doc, p, quote) ==
  CASE p > Len(doc) -> -(Len(doc) + 1)
    [] CharAt(doc, p) = quote -> p + 1
    [] CharAt(doc, p) = BS -> ScanString(doc, p + 2, quote)
    [] OTHER -> ScanString(doc, p + 1, quote)

readString(doc, p) == ScanString(doc, p, DQ)

(* Up to the first "*/"; the last character counts as its slash.           *)
readCStyleComment(doc, p) ==
  LET closed == {q \in p .. Len(doc) - 1 : doc[q] = "*" /\ doc[q + 1] = "/"}
  IN CASE closed # {} -> (CHOOSE q \in closed : \A r \in closed : q <= r) + 2
       [] closed = {} /\ p <= Len(doc) /\ CharAt(doc, Len(doc)) = "/" -> Len(doc) + 1
       [] OTHER -> -(Len(doc) + 1)

(* Up to the end of the line, whichever of the three kinds it is.          *)
readCppStyleComment(doc, p) ==
  LET q == CHOOSE k \in p .. Len(doc) + 1 :
             (k = Len(doc) + 1 \/ CharAt(doc, k) \in {LF, CR})
             /\ \A j \in p .. k - 1 : doc[j] \notin {LF, CR}
  IN IF CharAt(doc, q) = CR /\ CharAt(doc, q + 1) = LF THEN q + 2 ELSE Next1(doc, q)

readComment(doc, p) ==
  CASE CharAt(doc, p) = "*" -> readCStyleComment(doc, p + 1)
    [] CharAt(doc, p) = "/" -> readCppStyleComment(doc, p + 1)
    [] OTHER -> -Next1(doc, p)

Token(tokenType, from, to) ==
  [type |-> IF to < 0 THEN "error" ELSE tokenType, from |-> from,
   to |-> IF to < 0 THEN -to ELSE to]

Literal(c) == CASE c = "t" -> "rue" [] c = "f" -> "alse" [] OTHER -> "ull"

readToken(doc, p) ==
  LET s == skipSpaces(doc, p)
      c == CharAt(doc, s)
      Is(tokenType, to) == Token(tokenType, s, to)
  IN CASE c \in Structural -> Is(c, s + 1)
       [] c = DQ -> Is("string", readString(doc, s + 1))
       [] c = "/" -> Is("comment", readComment(doc, s + 1))
       [] c \in Digit \cup {"-"} -> Is("number", readNumber(doc, s + 1))
       [] c \in {"t", "f", "n"} -> Is(c, match(doc, s + 1, Literal(c)))
       [] c = "0x0" -> Is("end", Next1(doc, s))
       [] OTHER -> Is("error", s + 1)

-----------------------------------------------------------------------------
(* Strings decode to bytes; the byte -1 stands for a decoding error.       *)
Bad == <<-1>>
Div(n, k) == n \div 2 ^ k
Tail6(n) == 128 + (n % 64)

codePointToUTF8(cp) ==
  CASE cp <= 127 -> <<cp>>
    [] cp > 127 /\ cp <= 2047 -> <<192 + Div(cp, 6), Tail6(cp)>>
    [] cp > 2047 /\ cp <= 65535 -> <<224 + Div(cp, 12), Tail6(Div(cp, 6)), Tail6(cp)>>
    [] cp > 65535 /\ cp <= 1114111 ->
         <<240 + Div(cp, 18), Tail6(Div(cp, 12)), Tail6(Div(cp, 6)), Tail6(cp)>>
    [] OTHER -> <<>>

Escape == [c \in {DQ, "/", BS, "b", "f", "n", "r", "t"} |->
  CASE c = "b" -> <<8>> [] c = "f" -> <<12>> [] c = "n" -> <<10>>
    [] c = "r" -> <<13>> [] c = "t" -> <<9>> [] OTHER -> Byte[c]]

HasQuad(text, p) == p <= Len(text) /\ text[p] \in DOMAIN Quad
High(unit) == unit >= 55296 /\ unit <= 56319

(* The code point behind "\u" and the location behind it; 0 is an error.   *)
(* A high surrogate takes any second unit as its low half.                 *)
decodeUnicodeCodePoint(text, p) ==
  CASE ~HasQuad(text, p) -> <<0, 0>>
    [] HasQuad(text, p) /\ ~High(Quad[text[p]]) -> <<Quad[text[p]], p + 1>>
    [] OTHER ->
         IF CharAt(text, p + 1) = BS /\ CharAt(text, p + 2) = "u" /\ HasQuad(text, p + 3)
         THEN <<65536 + (Quad[text[p]] % 1024) * 1024 + (Quad[text[p + 3]] % 1024), p + 4>>
         ELSE <<0, 0>>

(* A double quote ends the string: a single-quoted token may contain one.  *)
RECURSIVE Decoded(_, _)
Decoded(text, p) ==
  LET c == CharAt(text, p)
      e == CharAt(text, p + 1)
      u == decodeUnicodeCodePoint(text, p + 2)
  IN CASE p > Len(text) \/ c = DQ -> <<>>
       [] p <= Len(text) /\ c \notin {DQ, BS} -> Byte[c] \o Decoded(text, p + 1)
       [] c = BS /\ e \in DOMAIN Escape -> Escape[e] \o Decoded(text, p + 2)
       [] c = BS /\ e = "u" /\ u[2] > 0 ->
            codePointToUTF8(u[1]) \o Decoded(text, u[2])
       [] OTHER -> Bad

IsBad(bytes) == \E k \in DOMAIN bytes : bytes[k] = -1

decodeString(doc, t) == Decoded(SubSeq(doc, t.from + 1, t.to - 2), 1)

-----------------------------------------------------------------------------
(* Numbers.  A double is cut towards zero, up to maxDouble.                *)
NotANumber == <<"error", 0>>

RECURSIVE Natural(_)
Natural(digits) ==
  IF digits = <<>> THEN 0
  ELSE 10 * Natural(SubSeq(digits, 1, Len(digits) - 1)) + DigitValue[digits[Len(digits)]]

DigitsIn(text, a, b) == SelectSeq(SubSeq(text, a, b), LAMBDA c : c \in Digit)
Position(text, S) ==
  IF \E k \in DOMAIN text : text[k] \in S
  THEN CHOOSE k \in DOMAIN text : text[k] \in S ELSE Len(text) + 1

(* What operator>> makes of a scanned number: it needs a digit in the      *)
(* mantissa, and one in the exponent if there is one.  Out of range is     *)
(* infinite.                                                               *)
decodeDouble(text) ==
  LET e == Position(text, {"e", "E"})
      m == Natural(DigitsIn(text, 1, e - 1))
      power == DigitsIn(text, e + 1, Len(text))
      x == IF CharAt(text, e + 1) = "-" THEN -Natural(power) ELSE Natural(power)
      k == x + 1 - Len(DigitsIn(text, Position(text, {"."}), e - 1))
      n == IF k >= 0 THEN m * 10 ^ k ELSE m \div 10 ^ (-k)
  IN CASE DigitsIn(text, 1, e - 1) = <<>> \/ (e <= Len(text) /\ power = <<>>) -> NotANumber
       [] m = 0 \/ k < -5 -> Tenths(0)
       [] OTHER -> IF k > 4 \/ n > maxDouble THEN Infinity(text[1] = "-")
                   ELSE Tenths(IF text[1] = "-" THEN -n ELSE n)

(* Would value * 10 + digit pass the limit?                                *)
TooBig(value, digit, last, limit) ==
  /\ value >= limit \div 10
  /\ value > limit \div 10 \/ ~last \/ digit > limit % 10

(* The magnitude of the digits from p on, or -1 to decode a double.        *)
RECURSIVE Magnitude(_, _, _, _)
Magnitude(text, p, value, limit) ==
  IF p > Len(text) THEN value
  ELSE IF text[p] \notin Digit
          \/ TooBig(value, DigitValue[text[p]], p = Len(text), limit) THEN -1
  ELSE Magnitude(text, p + 1, 10 * value + DigitValue[text[p]], limit)

(* Small positive numbers are Ints, those above the limit UInts.           *)
DecodedNumber(text, intLimit) ==
  LET negative == text[1] = "-"
      m == IF negative THEN Magnitude(text, 2, 0, maxLargestInt + 1)
                       ELSE Magnitude(text, 1, 0, maxLargestUInt)
  IN CASE m = -1 -> decodeDouble(text)
       [] m >= 0 /\ negative -> IntValue(-m)
       [] m >= 0 /\ ~negative /\ m <= intLimit -> IntValue(m)
       [] OTHER -> UIntValue(m)

decodeNumber(doc, t) == DecodedNumber(SubSeq(doc, t.from, t.to - 1), maxInt)
=============================================================================
