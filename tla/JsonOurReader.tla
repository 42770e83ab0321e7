--------------------------- MODULE JsonOurReader ---------------------------
(***************************************************************************)
(* OurReader and CharReaderBuilder of src/jsoncpp.cpp, the parser behind   *)
(* operator>> and CharReader.  It is a copy of Reader with more features:  *)
(* what was copied as it stands is named here and taken from JsonReader,   *)
(* what differs is written out.                                            *)
(***************************************************************************)
EXTENDS JsonReader

(* The settings of CharReaderBuilder, and the features read from them.     *)
setDefaults ==
  [collectComments |-> TRUE, allowComments |-> TRUE, allowTrailingCommas |-> TRUE,
   strictRoot |-> FALSE, allowDroppedNullPlaceholders |-> FALSE,
   allowNumericKeys |-> FALSE, allowSingleQuotes |-> FALSE, stackLimit |-> 1000,
   failIfExtra |-> FALSE, rejectDupKeys |-> FALSE, allowSpecialFloats |-> FALSE,
   skipBom |-> TRUE]

(* strictMode leaves collectComments as it is.                             *)
BuilderStrictMode(settings) ==
  [setDefaults EXCEPT
     !.collectComments = settings.collectComments,
     !.allowComments = FALSE, !.allowTrailingCommas = FALSE, !.strictRoot = TRUE,
     !.failIfExtra = TRUE, !.rejectDupKeys = TRUE]

newCharReader(settings) == [s \in DOMAIN setDefaults \ {"collectComments"} |-> settings[s]]

(* The settings CharReaderBuilder knows no use for.                        *)
validate(settings) == DOMAIN settings \ DOMAIN setDefaults

-----------------------------------------------------------------------------
(* The copies.                                                             *)
OurSkipSpaces(doc, p) == skipSpaces(doc, p)
OurMatch(doc, p, word) == match(doc, p, word)
OurReadCStyleComment(doc, p) == readCStyleComment(doc, p)
OurReadCppStyleComment(doc, p) == readCppStyleComment(doc, p)
OurReadString(doc, p) == ScanString(doc, p, DQ)
OurDecodeUnicode(text, p) == decodeUnicodeCodePoint(text, p)
OurDecodeString(doc, t) == decodeString(doc, t)
OurDecodeDouble(text) == decodeDouble(text)

OurReadComment(doc, p) ==
  CASE CharAt(doc, p) = "*" -> OurReadCStyleComment(doc, p + 1)
    [] CharAt(doc, p) = "/" -> OurReadCppStyleComment(doc, p + 1)
    [] OTHER -> -Next1(doc, p)

readStringSingleQuote(doc, p) == ScanString(doc, p, SQ)

(* Every Int64 is an Int here, and a sign may be a plus: such a number is  *)
(* a double, as "+" is not a digit.                                        *)
OurDecodeNumber(doc, t) ==
  DecodedNumber(SubSeq(doc, t.from, t.to - 1), maxLargestInt)

skipBom(f, doc) == IF f.skipBom /\ CharAt(doc, 1) = "BOM" THEN 2 ELSE 1

(* A sign starts a number unless an "I" follows.                           *)
OurReadToken(f, doc, p) ==
  LET s == OurSkipSpaces(doc, p)
      c == CharAt(doc, s)
      Is(tokenType, to) == Token(tokenType, s, to)
      Infinite(q) == IF f.allowSpecialFloats THEN OurMatch(doc, q, "nfinity") ELSE -q
  IN CASE c \in Structural -> Is(c, s + 1)
       [] c = DQ -> Is("string", OurReadString(doc, s + 1))
       [] c = SQ /\ f.allowSingleQuotes -> Is("string", readStringSingleQuote(doc, s + 1))
       [] c = "/" -> Is("comment", OurReadComment(doc, s + 1))
       [] c \in Digit -> Is("number", readNumber(doc, s + 1))
       [] c \in {"-", "+"} ->
            IF CharAt(doc, s + 1) = "I"
            THEN Is(IF c = "-" THEN "negInf" ELSE "posInf", Infinite(s + 2))
            ELSE Is("number", readNumber(doc, s + 1))
       [] c \in {"t", "f", "n"} -> Is(c, OurMatch(doc, s + 1, Literal(c)))
       [] c = "N" /\ f.allowSpecialFloats -> Is("nan", OurMatch(doc, s + 1, "aN"))
       [] c = "I" /\ f.allowSpecialFloats -> Is("posInf", Infinite(s + 1))
       [] c = "0x0" -> Is("end", Next1(doc, s))
       [] OTHER -> Is("error", s + 1)

RECURSIVE OurSkipComments(_, _, _)
OurSkipComments(f, doc, p) ==
  LET t == OurReadToken(f, doc, p)
  IN IF t.type = "comment" THEN OurSkipComments(f, doc, t.to) ELSE t

OurSkipCommentTokens(f, doc, p) ==
  IF f.allowComments THEN OurSkipComments(f, doc, p) ELSE OurReadToken(f, doc, p)

RECURSIVE OurRecoverFromError(_, _, _, _)
OurRecoverFromError(f, doc, p, skipUntil) ==
  LET t == OurReadToken(f, doc, p)
  IN IF t.type \in {skipUntil, "end"} THEN Failed(t.to)
     ELSE OurRecoverFromError(f, doc, t.to, skipUntil)

OurPassed(f, r, doc, skipUntil) ==
  IF r.status = "error" THEN OurRecoverFromError(f, doc, r.at, skipUntil) ELSE r

-----------------------------------------------------------------------------
RECURSIVE OurReadValue(_, _, _, _), OurReadArray(_, _, _, _, _), OurReadObject(_, _, _, _, _, _)

OurReadValue(f, doc, p, depth) ==
  LET t == OurSkipCommentTokens(f, doc, p)
      v == CASE t.type = "number" -> OurDecodeNumber(doc, t)
             [] t.type = "string" -> Str(OurDecodeString(doc, t))
             [] t.type \in {"t", "f"} -> Bool(t.type = "t")
             [] t.type = "nan" -> NaN
             [] t.type \in {"posInf", "negInf"} -> Infinity(t.type = "negInf")
             [] OTHER -> Null
  IN IF depth > f.stackLimit THEN Thrown
     ELSE CASE t.type = "{" -> OurReadObject(f, doc, t.to, depth, NoMembers, <<>>)
            [] t.type = "[" -> OurReadArray(f, doc, t.to, depth, <<>>)
            [] t.type \in {"n", "t", "f", "nan", "posInf", "negInf"} -> Read(v, t.to)
            [] t.type = "number" -> IF v = NotANumber THEN Failed(t.to) ELSE Read(v, t.to)
            [] t.type = "string" -> IF IsBad(v[2]) THEN Failed(t.to) ELSE Read(v, t.to)
            [] OTHER ->
                 IF t.type \in {",", "}", "]"} /\ f.allowDroppedNullPlaceholders
                 THEN Read(Null, t.to - 1) ELSE Failed(t.to)

(* Mutant: a trailing comma is not allowed for.                            *)
MayEndFirst(f, elements) == elements = <<>>

MayEnd(f, elements) ==
  elements = <<>> \/ (f.allowTrailingCommas /\ ~f.allowDroppedNullPlaceholders)

(* "]" ends the array before its first element, and behind a comma where   *)
(* trailing commas, and no dropped nulls, are allowed.                     *)
OurReadArray(f, doc, p, depth, elements) ==
  LET s == OurSkipSpaces(doc, p)
      r == OurReadValue(f, doc, s, depth + 1)
      t == OurSkipComments(f, doc, r.at)
      now == Append(elements, r.value)
  IN IF CharAt(doc, s) = "]" /\ MayEnd(f, elements) THEN Read(Array(elements), s + 1)
     ELSE CASE r.status # "ok" -> OurPassed(f, r, doc, "]")
            [] r.status = "ok" /\ t.type = "]" -> Read(Array(now), t.to)
            [] r.status = "ok" /\ t.type = "," -> OurReadArray(f, doc, t.to, depth, now)
            [] OTHER -> OurRecoverFromError(f, doc, t.to, "]")

OurReadObject(f, doc, p, depth, members, before) ==
  LET t == OurSkipComments(f, doc, p)
      number == OurDecodeNumber(doc, t)
      name == IF t.type = "string" THEN OurDecodeString(doc, t) ELSE NumberName(number)
      bad == IF t.type = "string" THEN IsBad(name) ELSE number = NotANumber
      repeated == f.rejectDupKeys /\ name \in DOMAIN members
      colon == OurReadToken(f, doc, t.to)
      r == OurReadValue(f, doc, colon.to, depth + 1)
      behind == OurReadToken(f, doc, r.at)
      comma == OurSkipComments(f, doc, r.at)
      now == With(members, name, r.value)
  IN CASE t.type = "}" /\ (before = <<>> \/ f.allowTrailingCommas) ->
            Read(Object(members), t.to)
       [] t.type = "string" \/ (t.type = "number" /\ f.allowNumericKeys) ->
            CASE bad \/ repeated -> OurRecoverFromError(f, doc, t.to, "}")
              [] ~bad /\ ~repeated /\ colon.type # ":" ->
                   OurRecoverFromError(f, doc, colon.to, "}")
              [] ~bad /\ ~repeated /\ colon.type = ":" /\ r.status # "ok" ->
                   OurPassed(f, r, doc, "}")
              [] OTHER ->
                   CASE behind.type \notin {"}", ",", "comment"} ->
                          OurRecoverFromError(f, doc, behind.to, "}")
                     [] behind.type # "," /\ comma.type = "}" -> Read(Object(now), comma.to)
                     [] OTHER -> OurReadObject(f, doc, comma.to, depth, now, name)
       [] OTHER -> OurRecoverFromError(f, doc, t.to, "}")

(* With failIfExtra something behind the value is an error of its own; it  *)
(* is found before the kind of the root is looked at.                      *)
OurParse(f, doc) ==
  LET first == skipBom(f, doc)
      r == OurReadValue(f, doc, first, 1)
      extra == f.failIfExtra /\ r.status # "thrown"
               /\ OurSkipCommentTokens(f, doc, r.at).type # "end"
      badRoot == f.strictRoot /\ ~extra /\ r.status # "thrown"
                 /\ OurSkipCommentTokens(f, doc, first).type \notin {"[", "{"}
      errors == (IF r.status = "error" THEN 1 ELSE 0) + (IF extra \/ badRoot THEN 1 ELSE 0)
  IN [status |-> IF r.status = "ok" /\ errors > 0 THEN "error" ELSE r.status,
      value |-> r.value, errors |-> errors]
=============================================================================
