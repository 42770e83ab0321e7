----------------------------- MODULE JsonWriter -----------------------------
(***************************************************************************)
(* The writers of src/jsoncpp.cpp as operators from a value to a document: *)
(* FastWriter, StyledWriter, StyledStreamWriter and the writer made by     *)
(* StreamWriterBuilder.  Values carry no comments, and numbers are written *)
(* exactly whatever the precision.                                         *)
(***************************************************************************)
EXTENDS JsonOrder

CONSTANT rightMargin    \* 74, scaled; a line's length is counted in elements

(* The element that is a byte, and the quadruple that is a number.         *)
CharOf == [b \in {Byte[e][1] : e \in {d \in DOMAIN Byte : Len(Byte[d]) = 1}} |->
             CHOOSE e \in DOMAIN Byte : Byte[e] = <<b>>]
toHex16Bit == [n \in {Quad[q] : q \in DOMAIN Quad} |-> CHOOSE q \in DOMAIN Quad : Quad[q] = n]

-----------------------------------------------------------------------------
(* Strings.                                                                *)
doesAnyCharRequireEscaping(bytes) ==
  \E k \in DOMAIN bytes : bytes[k] \in {34, 92} \/ bytes[k] < 32 \/ bytes[k] > 127

(* The code point that starts at k and the bytes it takes.  What is cut    *)
(* short takes one byte, what is overlong or a surrogate its whole length. *)
utf8ToCodepoint(bytes, k) ==
  LET b == bytes[k]
      n == CASE b < 128 -> 1 [] b >= 128 /\ b < 224 -> 2 [] b >= 224 /\ b < 240 -> 3
             [] OTHER -> 4
      least == <<0, 128, 2048, 65536>>
      Low(j) == bytes[k + j] % 64
      calculated == CASE n = 1 -> b
                      [] n = 2 -> (b % 32) * 64 + Low(1)
                      [] n = 3 -> (b % 16) * 4096 + Low(1) * 64 + Low(2)
                      [] OTHER -> (b % 8) * 262144 + Low(1) * 4096 + Low(2) * 64 + Low(3)
  IN CASE b >= 248 \/ k + n - 1 > Len(bytes) -> <<65533, 1>>
       [] b < 248 /\ k + n - 1 <= Len(bytes)
          /\ (calculated < least[n] \/ calculated \in 55296 .. 57343) ->
            <<65533, n>>
       [] OTHER -> <<calculated, n>>

appendHex(n) == <<BS, "u", toHex16Bit[n]>>

Short == [b \in {8, 9, 10, 12, 13, 34, 92} |->
  <<BS, CASE b = 8 -> "b" [] b = 9 -> "t" [] b = 10 -> "n" [] b = 12 -> "f" [] b = 13 -> "r"
          [] b = 34 -> DQ [] OTHER -> BS>>]

Escaped(cp) ==
  CASE cp >= 32 /\ cp < 128 -> <<CharOf[cp]>>
    [] cp < 32 \/ (cp >= 128 /\ cp < 65536) -> appendHex(cp)
    [] OTHER -> appendHex(55296 + (((cp - 65536) \div 1024) % 1024))
                  \o appendHex(56320 + (cp % 1024))

RECURSIVE EscapedFrom(_, _, _)
EscapedFrom(bytes, k, emitUTF8) ==
  LET cp == utf8ToCodepoint(bytes, k)
  IN CASE k > Len(bytes) -> <<>>
       [] k <= Len(bytes) /\ bytes[k] \in DOMAIN Short ->
            Short[bytes[k]] \o EscapedFrom(bytes, k + 1, emitUTF8)
       [] k <= Len(bytes) /\ bytes[k] \notin DOMAIN Short /\ emitUTF8 ->
            (IF bytes[k] < 32 THEN appendHex(bytes[k]) ELSE <<CharOf[bytes[k]]>>)
              \o EscapedFrom(bytes, k + 1, emitUTF8)
       [] OTHER -> Escaped(cp[1]) \o EscapedFrom(bytes, k + cp[2], emitUTF8)

valueToQuotedStringN(bytes, emitUTF8) ==
  <<DQ>> \o (IF doesAnyCharRequireEscaping(bytes) THEN EscapedFrom(bytes, 1, emitUTF8)
             ELSE [k \in DOMAIN bytes |-> CharOf[bytes[k]]]) \o <<DQ>>

(* name.c_str(): up to the first NUL.                                      *)
CutAtNul(bytes) ==
  SubSeq(bytes, 1, (CHOOSE k \in 0 .. Len(bytes) :
    /\ k = Len(bytes) \/ bytes[k + 1] = 0
    /\ \A j \in 1 .. k : bytes[j] # 0))

-----------------------------------------------------------------------------
(* The writers.  "fast" has no layout; the others share theirs.            *)
Tab == <<"\t">>
fast(yaml, drop, omit) ==
  [kind |-> "fast", indentation |-> <<>>, colon |-> IF yaml THEN <<":", " ">> ELSE <<":">>,
   null |-> IF drop THEN <<>> ELSE <<"n", "ull">>, end |-> IF omit THEN <<>> ELSE <<LF>>,
   special |-> FALSE, emitUTF8 |-> FALSE, all |-> FALSE]
styled ==
  [fast(FALSE, FALSE, FALSE) EXCEPT
     !.kind = "styled", !.indentation = <<" ", " ", " ">>, !.colon = <<" ", ":", " ">>]
stream(indentation) == [styled EXCEPT !.kind = "stream", !.indentation = indentation]

(* StreamWriterBuilder: its defaults, and the writer made from settings.   *)
writerDefaults ==
  [commentStyle |-> "All", indentation |-> Tab, enableYAMLCompatibility |-> FALSE,
   dropNullPlaceholders |-> FALSE, useSpecialFloats |-> FALSE, emitUTF8 |-> FALSE,
   precision |-> 17, precisionType |-> "significant"]

validateWriter(settings) == DOMAIN settings \ DOMAIN writerDefaults

Accepted(settings) ==
  settings.commentStyle \in {"All", "None"}
  /\ settings.precisionType \in {"significant", "decimal"}

newStreamWriter(settings) ==
  [kind |-> "built", indentation |-> settings.indentation,
   colon |-> CASE settings.enableYAMLCompatibility -> <<":", " ">>
               [] ~settings.enableYAMLCompatibility /\ settings.indentation = <<>> -> <<":">>
               [] OTHER -> <<" ", ":", " ">>,
   null |-> IF settings.dropNullPlaceholders THEN <<>> ELSE <<"n", "ull">>,
   end |-> <<>>, special |-> settings.useSpecialFloats, emitUTF8 |-> settings.emitUTF8,
   all |-> settings.commentStyle = "All"]

(* What is neither an array nor an object, and the empty ones.             *)
Compound(v) == IsContainer(v) /\ size(v) > 0
Scalar(w, v) ==
  CASE type(v) = "null" -> w.null
    [] type(v) = "bool" -> IF v[2] THEN <<"t", "rue">> ELSE <<"f", "alse">>
    [] type(v) = "string" -> valueToQuotedStringN(v[2], w.emitUTF8)
    [] isNumeric(v) -> valueToString(v, w.special)
    [] type(v) = "array" -> <<"[", "]">>
    [] OTHER -> <<"{", "}">>

Name(w, key) ==
  valueToQuotedStringN(IF w.kind \in {"styled", "stream"} THEN CutAtNul(key) ELSE key, w.emitUTF8)

RECURSIVE Joined(_, _)
Joined(texts, separator) ==
  CASE texts = <<>> -> <<>>
    [] Len(texts) = 1 -> texts[1]
    [] OTHER -> texts[1] \o separator \o Joined(Tail(texts), separator)

(* FastWriter::writeValue.                                                 *)
RECURSIVE FastText(_, _)
FastText(w, v) ==
  CASE ~Compound(v) -> Scalar(w, v)
    [] type(v) = "array" /\ Compound(v) ->
         <<"[">> \o Joined([k \in DOMAIN v[2] |-> FastText(w, v[2][k])], <<",">>) \o <<"]">>
    [] OTHER ->
         LET names == getMemberNames(v)
             Member(name) == Name(w, name) \o w.colon \o FastText(w, v[2][name])
         IN <<"{">> \o Joined([k \in DOMAIN names |-> Member(names[k])], <<",">>) \o <<"}">>

-----------------------------------------------------------------------------
(* The layout.  The writer keeps what is written so far, whether the line  *)
(* is indented (StyledWriter reads that off the text), and childValues:    *)
(* the texts of an array's elements, while addChildValues collects them.   *)
Write(d, text) == [d EXCEPT !.out = @ \o text]
Indented(d, yes) == [d EXCEPT !.indented = yes]
LastChar(d) == IF d.out = <<>> THEN LF ELSE d.out[Len(d.out)]

RECURSIVE Indent(_, _)
Indent(w, level) == IF level = 0 THEN <<>> ELSE w.indentation \o Indent(w, level - 1)

writeIndent(w, d, level) ==
  CASE w.kind = "styled" /\ LastChar(d) = " " -> d
    [] w.kind = "styled" /\ LastChar(d) # " " ->
         Write(d, (IF LastChar(d) = LF THEN <<>> ELSE <<LF>>) \o Indent(w, level))
    [] w.kind = "built" /\ w.indentation = <<>> -> d
    [] OTHER -> Write(d, <<LF>> \o Indent(w, level))

IndentOnce(w, d, level) ==
  IF d.indented /\ w.kind # "styled" THEN d ELSE writeIndent(w, d, level)

writeWithIndent(w, d, level, text) ==
  Indented(Write(IndentOnce(w, d, level), text), FALSE)

pushValue(d, text) ==
  IF d.addChildValues THEN [d EXCEPT !.childValues = Append(@, text)] ELSE Write(d, text)

(* An array is broken if it is long, has a compound element, or does not   *)
(* fit on a line.  Only for the last its elements are written, once, into  *)
(* childValues.                                                            *)
Broken(v) == Len(v[2]) * 3 >= rightMargin \/ \E k \in DOMAIN v[2] : Compound(v[2][k])

Texts(d, v) == SubSeq(d.childValues, 1, Len(v[2]))
LineLength(d, v) == 4 + (Len(v[2]) - 1) * 2 + Len(Joined(Texts(d, v), <<>>))

Collected(w, d, v) ==
  LET added == FoldLeft(LAMBDA e, u : pushValue(e, Scalar(w, u)),
                        [d EXCEPT !.addChildValues = TRUE], v[2])
  IN [added EXCEPT !.addChildValues = FALSE]

(* Mutant: childValues is not cleared.                                     *)
MeasuredOver(w, d, v) == IF Broken(v) THEN d ELSE Collected(w, d, v)

Measured(w, d, v) ==
  LET cleared == [d EXCEPT !.childValues = <<>>]
  IN IF Broken(v) THEN cleared ELSE Collected(w, cleared, v)

isMultilineArray(d, v) == Broken(v) \/ LineLength(d, v) >= rightMargin

SingleLine(w, d, v) ==
  LET blank == IF w.kind = "built" /\ w.indentation = <<>> THEN <<>> ELSE <<" ">>
  IN <<"[">> \o blank \o Joined(Texts(d, v), <<",">> \o blank) \o blank \o <<"]">>

RECURSIVE writeValue(_, _, _, _), writeArrayValue(_, _, _, _)
RECURSIVE WriteElements(_, _, _, _, _, _), WriteMembers(_, _, _, _, _)

(* A writer of all comments breaks every array and measures none.          *)
writeArrayValue(w, d, level, v) ==
  LET m == IF w.all THEN d ELSE Measured(w, d, v)
  IN IF w.all \/ isMultilineArray(m, v)
     THEN WriteElements(w, writeWithIndent(w, m, level, <<"[">>), level, v, 1,
                        m.childValues # <<>>)
     ELSE Write(m, SingleLine(w, m, v))

writeValue(w, d, level, v) ==
  CASE ~Compound(v) -> pushValue(d, Scalar(w, v))
    [] type(v) = "object" /\ Compound(v) ->
         WriteMembers(w, writeWithIndent(w, d, level, <<"{">>), level, v, 1)
    [] OTHER -> writeArrayValue(w, d, level, v)

Comma(d, more) == IF more THEN Write(d, <<",">>) ELSE d

(* With the texts at hand an element is written like a name; without, the  *)
(* value decides where it begins.                                          *)
WriteElements(w, d, level, v, k, hasChildValue) ==
  LET e == IF hasChildValue
           THEN writeWithIndent(w, d, level + 1, d.childValues[k])
           ELSE Indented(writeValue(w, Indented(IndentOnce(w, d, level + 1), TRUE),
                                    level + 1, v[2][k]), FALSE)
  IN IF k > Len(v[2]) THEN writeWithIndent(w, d, level, <<"]">>)
     ELSE WriteElements(w, Comma(e, k < Len(v[2])), level, v, k + 1, hasChildValue)

WriteMembers(w, d, level, v, k) ==
  LET names == getMemberNames(v)
      m == writeValue(w, Write(writeWithIndent(w, d, level + 1, Name(w, names[k])), w.colon),
                      level + 1, v[2][names[k]])
  IN IF k > Len(names) THEN writeWithIndent(w, d, level, <<"}">>)
     ELSE WriteMembers(w, Comma(m, k < Len(names)), level, v, k + 1)

(* A writer may be used again: what childValues holds of the value before  *)
(* ([1,3]) is still there.                                                 *)
Earlier(w) == IF w.all THEN <<>> ELSE <<<<"1">>, <<"3">>>>

write(w, v) ==
  IF w.kind = "fast" THEN FastText(w, v) \o w.end
  ELSE LET d == [out |-> <<>>, indented |-> TRUE,
                 childValues |-> Earlier(w), addChildValues |-> FALSE]
       IN writeValue(w, d, 0, v).out \o w.end
=============================================================================
