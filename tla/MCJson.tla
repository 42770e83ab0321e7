------------------------------- MODULE MCJson -------------------------------
(***************************************************************************)
(* The instance for TLC: a document changed by one edit, a value wrapped   *)
(* into arrays and objects, or a container under its operations.           *)
(***************************************************************************)
EXTENDS JsonWriter, JsonGrammar, JsonContainer

Letters == {
  <<" ", 32>>, <<"\t", 9>>, <<LF, 10>>, <<CR, 13>>, <<DQ, 34>>, <<SQ, 39>>, <<BS, 92>>,
  <<"*", 42>>, <<"+", 43>>, <<",", 44>>, <<"-", 45>>, <<".", 46>>, <<"/", 47>>, <<":", 58>>,
  <<"0", 48>>, <<"1", 49>>, <<"2", 50>>, <<"3", 51>>, <<"4", 52>>, <<"5", 53>>, <<"6", 54>>,
  <<"7", 55>>, <<"8", 56>>, <<"9", 57>>, <<"E", 69>>, <<"I", 73>>, <<"N", 78>>, <<"[", 91>>,
  <<"]", 93>>, <<"a", 97>>, <<"b", 98>>, <<"e", 101>>, <<"f", 102>>, <<"n", 110>>, <<"r", 114>>,
  <<"t", 116>>, <<"u", 117>>, <<"{", 123>>, <<"}", 125>>, <<"0x0", 0>>, <<"x80", 128>>,
  <<"x82", 130>>, <<"x98", 152>>, <<"x9F", 159>>, <<"xA9", 169>>, <<"xAC", 172>>, <<"xC3", 195>>,
  <<"xE2", 226>>, <<"xF0", 240>>, <<"xFF", 255>>}
Words == {
  <<"rue", <<114, 117, 101>>>>, <<"alse", <<97, 108, 115, 101>>>>, <<"ull", <<117, 108, 108>>>>,
  <<"nfinity", <<110, 102, 105, 110, 105, 116, 121>>>>, <<"aN", <<97, 78>>>>,
  <<"BOM", <<239, 187, 191>>>>, <<"0000", <<48, 48, 48, 48>>>>, <<"0001", <<48, 48, 48, 49>>>>,
  <<"00e9", <<48, 48, 101, 57>>>>, <<"20ac", <<50, 48, 97, 99>>>>,
  <<"d83d", <<100, 56, 51, 100>>>>, <<"de00", <<100, 101, 48, 48>>>>,
  <<"fffd", <<102, 102, 102, 100>>>>, <<"f600", <<102, 54, 48, 48>>>>}
MCByte ==
  [c \in {p[1] : p \in Letters \cup Words} |->
     IF \E p \in Letters : p[1] = c THEN <<(CHOOSE p \in Letters : p[1] = c)[2]>>
     ELSE (CHOOSE p \in Words : p[1] = c)[2]]
Quads == {<<"0000", 0>>, <<"0001", 1>>, <<"00e9", 233>>, <<"20ac", 8364>>, <<"d83d", 55357>>,
          <<"de00", 56832>>, <<"fffd", 65533>>, <<"f600", 62976>>}
MCQuad == [q \in {p[1] : p \in Quads} |-> (CHOOSE p \in Quads : p[1] = q)[2]]

-----------------------------------------------------------------------------
Seeds == {
  <<"{", DQ, "a", DQ, ":", "1", ",", DQ, DQ, ":", "[", "2", ",", "-", "3", ".", "5", "e", "1", "]", "}">>,
  <<"[", "1", ",", "[", "]", ",", "{", "}", ",", "n", "ull", ",", DQ, BS, "u", "00e9", BS, "n", DQ, "]">>,
  <<"/", "*", "b", "*", "/", "[", "1", "/", "/", "a", LF, ",", "2", "]">>,
  <<"{", DQ, "a", DQ, " ", ":", "/", "*", "*", "/", "1", "/", "*", "*", "/", ",", DQ, "b", DQ, ":", "2", "}">>,
  <<DQ, BS, "u", "d83d", BS, "u", "de00", BS, BS, DQ>>,
  <<"[", "-", "I", "nfinity", ",", "N", "aN", ",", "+", "1", ",", "t", "rue", "]">>,
  <<"{", SQ, "a", SQ, ":", SQ, "b", DQ, SQ, ",", DQ, "a", DQ, ":", "1", ",", "}">>,
  <<"[", "[", "[", "{", DQ, "a", DQ, ":", "f", "alse", "}", "]", "]", "]">>,
  <<"[", "1", "2", "7", ",", "-", "6", "4", ",", "6", "3", ",", "1", "2", "8", "]">>,
  <<"{", "1", ":", "2", ",", DQ, "1", DQ, ":", "}">>,
  <<"[", ",", "1", ",", ",", "]">>,
  <<"BOM", "{", DQ, DQ, ":", "1", ",", "}", " ", "1">>,
  <<"[", "1", ".", "5", ",", "-", "1", "e", "9", ",", "0", ".", "0", "5", "]">> }
Typed == {"{", "}", "[", "]", ",", ":", DQ, SQ, BS, "/", "*", LF, CR, " ", "1", "-", "e", "n", "t",
          "0x0", "BOM"}

Replaced(doc, k, c) == [doc EXCEPT ![k] = c]
Edited(doc) ==
  {Replaced(doc, k, c) : k \in DOMAIN doc, c \in Typed}
  \cup {SubSeq(doc, 1, k) \o <<c>> \o SubSeq(doc, k + 1, Len(doc)) : k \in 0 .. Len(doc), c \in Typed}
  \cup {SubSeq(doc, 1, k - 1) \o SubSeq(doc, k + 1, Len(doc)) : k \in DOMAIN doc}

(* Readers made by a builder whose settings it knows all of.               *)
Settings == [setDefaults EXCEPT !.stackLimit = stackLimit_g]
Lenient ==
  [Settings EXCEPT !.allowDroppedNullPlaceholders = TRUE, !.allowNumericKeys = TRUE,
                   !.allowSingleQuotes = TRUE, !.allowSpecialFloats = TRUE, !.failIfExtra = TRUE]
Sparse ==
  [Lenient EXCEPT !.allowTrailingCommas = FALSE, !.rejectDupKeys = TRUE, !.allowSpecialFloats = FALSE]
strict == [newCharReader(BuilderStrictMode(setDefaults)) EXCEPT !.stackLimit = stackLimit_g]
plain == newCharReader([Settings EXCEPT !.allowTrailingCommas = FALSE])
FeatureSets ==
  {newCharReader(s) : s \in {t \in {Settings, Lenient, Sparse} : validate(t) = {}}} \cup {strict}

Scalars ==
  {Null, Bool(TRUE), Bool(FALSE), IntValue(0), IntValue(-16), IntValue(15), IntValue(16),
   IntValue(-64), IntValue(63), UIntValue(15), UIntValue(31), UIntValue(32), UIntValue(127),
   Tenths(0), Tenths(15), Tenths(-5), Tenths(155), Tenths(160), Tenths(-160), Tenths(-165), Tenths(310),
   Tenths(315), Tenths(640), Tenths(1280), Tenths(-640), Tenths(1285),
   NaN, Infinity(TRUE), Infinity(FALSE),
   Str(<<>>), Str(<<97>>), Str(<<97, 0>>), Str(<<98, 34, 92>>), Str(<<10, 1>>),
   Str(<<195, 169, 97>>), Str(<<226, 130, 172>>), Str(<<240, 159, 152, 128>>),
   Str(<<195>>), Str(<<255, 97>>), Str(<<226, 130>>)}
Names == {<<>>, <<97, 0>>, <<195, 169>>}
Others == {Null, IntValue(16), Object(NoMembers)}
Sample == {Null, IntValue(15), UIntValue(15), Tenths(150), Str(<<97>>), Str(<<98>>), Array(<<IntValue(1), IntValue(2)>>),
           Array(<<IntValue(2), IntValue(1)>>), Array(<<IntValue(3)>>),
           Object(With(NoMembers, <<97>>, IntValue(2))), Object(With(NoMembers, <<98>>, IntValue(1)))}
Convertible == Scalars \cup Sample \cup {Array(<<>>), Object(NoMembers)}

Wrapped(v) ==
  {Array(<<v>>)} \cup {Array(<<v, s>>) : s \in Others} \cup {Array(<<s, v>>) : s \in Others}
  \cup {Object(With(NoMembers, k, v)) : k \in Names}
  \cup {Object(With(With(NoMembers, <<97>>, s), <<98>>, v)) : s \in Others}

-----------------------------------------------------------------------------
VARIABLES unit, doc, value, steps
text == <<unit, doc, value, steps>>

Aliased == [k \in Keys |-> CHOOSE l \in Keys : TRUE]

MaxSteps == IF unit = "doc" THEN 2 ELSE 3    \* bound: a seed and an edit, depth of a value

Edit ==
  /\ unit = "doc" /\ steps < MaxSteps
  /\ doc' \in IF steps = 0 THEN Seeds ELSE Edited(doc)
  /\ steps' = steps + 1 /\ UNCHANGED <<unit, value, containerVars>>
Wrap ==
  /\ unit = "value" /\ steps < MaxSteps
  /\ value' \in IF steps = 0 THEN Scalars ELSE Wrapped(value)
  /\ steps' = steps + 1 /\ UNCHANGED <<unit, doc, containerVars>>

(* The document is parsed, the value written.                              *)
Use ==
  /\ unit # "container" /\ steps > 0
  /\ steps' = 0 /\ doc' = <<>> /\ value' = Null /\ UNCHANGED <<unit, containerVars>>
Change == unit = "container" /\ ContainerNext /\ UNCHANGED text

MCInit ==
  /\ unit \in {"doc", "value", "container"} /\ steps = 0
  /\ doc = <<>> /\ value = Null /\ ContainerInit
MCNext == Edit \/ Wrap \/ Use \/ Change
MCSpec == MCInit /\ [][MCNext]_<<text, containerVars>>

-----------------------------------------------------------------------------
(* A UInt that fits is read as an Int.                                     *)
RECURSIVE Norm(_)
Norm(v) ==
  CASE IsContainer(v) -> <<type(v), [k \in DOMAIN v[2] |-> Norm(v[2][k])]>>
    [] type(v) = "uint" /\ v[2] <= maxLargestInt -> IntValue(v[2])
    [] OTHER -> v

Same(r, s) ==
  r.status = s.status /\ r.errors = s.errors
  /\ (r.status = "ok" => Norm(r.value) = Norm(s.value))

(***************************************************************************)
(* A document without comments is read as what it means: accepted, within  *)
(* the depth limit, exactly if it has a meaning under the features, with   *)
(* that value and no error reported.                                       *)
(***************************************************************************)
ReadsMeaning(f, tokens) ==
  LET r == OurParse(f, doc)
      m == Meaning(f, doc)
      kinds == Kinds([k \in DOMAIN tokens |-> Symbol(doc, tokens[k])])
  IN /\ Nesting(kinds) < stackLimit_g => r.status = m.status
     /\ r.status = "ok" => m.status = "ok" /\ r.value = m.value
     /\ (r.status = "error") = (r.errors > 0)

(***************************************************************************)
(* Comments do not matter where they are allowed, but for three places:    *)
(* before a colon, alone before a closing square bracket, and behind a     *)
(* member's value where neither a comma nor the closing bracket follows.   *)
(***************************************************************************)
InObject(kinds, k) ==
  \E o \in 1 .. k : /\ kinds[o] = "{" /\ Depth(kinds, k) = Depth(kinds, o)
                    /\ \A i \in o .. k : Depth(kinds, i) >= Depth(kinds, o)

OddPlace(tokens, k) ==
  LET kinds == [i \in DOMAIN tokens |-> tokens[i].type]
      j == CHOOSE i \in 0 .. k - 1 :
        /\ i = 0 \/ tokens[i].type # "comment"
        /\ \A l \in i + 1 .. k : tokens[l].type = "comment"
      before == IF j = 0 THEN "," ELSE tokens[j].type
      after == tokens[k + 1].type
  IN /\ tokens[k].type = "comment" /\ after # "comment"
     /\ \/ after = ":"
        \/ before \in {"[", ","} /\ after = "]"
        \/ before \notin {"[", "{", ",", ":"} /\ after \notin {",", "}", "end"}
           /\ after = "]" => InObject(kinds, k)

RECURSIVE Stripped(_, _)
Stripped(tokens, text_) ==
  LET k == SelectLastInSeq(tokens, LAMBDA t : t.type = "comment")
  IN IF k = 0 THEN text_
     ELSE Stripped(SubSeq(tokens, 1, k - 1),
                   SubSeq(text_, 1, tokens[k].from - 1) \o <<" ">>
                     \o SubSeq(text_, tokens[k].to, Len(text_)))

CommentsIgnored(f, tokens) ==
  f.allowComments /\ (\A k \in DOMAIN tokens : ~OddPlace(tokens, k)) =>
    Same(OurParse(f, doc), OurParse(f, Stripped(tokens, doc)))

(***************************************************************************)
(* Reader, which the configuration is read with, agrees with OurReader on  *)
(* what both know.                                                         *)
(***************************************************************************)
Alike(f) ==
  [plain EXCEPT !.allowComments = f.allowComments, !.strictRoot = f.strictRoot,
                !.allowDroppedNullPlaceholders = f.allowDroppedNullPlaceholders,
                !.allowNumericKeys = f.allowNumericKeys]
sparseFeatures ==
  [all EXCEPT !.allowDroppedNullPlaceholders = TRUE, !.allowNumericKeys = TRUE]

ReadersAgree ==
  {doc[k] : k \in DOMAIN doc} \cap {"BOM", "+", "I"} = {} =>
    \A f \in {all, strictMode, sparseFeatures} : Same(parse(f, doc), OurParse(Alike(f), doc))

ReadSoundly ==
    /\ ReadersAgree
    /\ \A f \in FeatureSets :
         LET tokens == Tokens(f, doc)
         IN IF \E k \in DOMAIN tokens : tokens[k].type = "comment"
            THEN CommentsIgnored(f, tokens) ELSE ReadsMeaning(f, tokens)

(***************************************************************************)
(* Whatever document is parsed, both readers give it its meaning.          *)
(***************************************************************************)
ReadersSound == [][unit = "doc" /\ Use => ReadSoundly]_text

-----------------------------------------------------------------------------
(* Writers of every class; a builder refuses a comment style it does not   *)
(* know.                                                                   *)
WriterSettings(style, indentation, drop, special) ==
  [writerDefaults EXCEPT
    !.commentStyle = style, !.indentation = indentation, !.dropNullPlaceholders = drop,
    !.useSpecialFloats = special, !.emitUTF8 = ~special]
AllSettings ==
  {writerDefaults, WriterSettings("None", Tab, FALSE, FALSE), WriterSettings("None", Tab, TRUE, TRUE),
   WriterSettings("None", <<>>, FALSE, TRUE), WriterSettings("All", <<>>, TRUE, FALSE),
   WriterSettings("Most", Tab, FALSE, FALSE)}
Writers ==
  {fast(FALSE, FALSE, FALSE), fast(TRUE, TRUE, TRUE), styled, stream(Tab)}
  \cup {newStreamWriter(s) : s \in {t \in AllSettings : Accepted(t) /\ validateWriter(t) = {}}}

(* Well-formed UTF-8: every code point is there, and no shorter form of it.*)
RECURSIVE WellFormed(_, _)
WellFormed(bytes, k) ==
  \/ k > Len(bytes)
  \/ /\ utf8ToCodepoint(bytes, k)[1] # 65533
     /\ codePointToUTF8(utf8ToCodepoint(bytes, k)[1])
          = SubSeq(bytes, k, k + utf8ToCodepoint(bytes, k)[2] - 1)
     /\ WellFormed(bytes, k + utf8ToCodepoint(bytes, k)[2])

RECURSIVE Parts(_)
Parts(v) ==
  {v} \cup (IF IsContainer(v) THEN UNION {Parts(v[2][k]) : k \in DOMAIN v[2]}
            ELSE {})

(* What a writer can write so that it can be read again: text that is      *)
(* UTF-8 unless bytes are passed on, names that end at no NUL, NaN only    *)
(* as itself, and no null dropped where nothing marks its place.           *)
Writable(w, v) ==
  LET Textual(bytes) == w.emitUTF8 \/ WellFormed(bytes, 1)
      Good(u) ==
        /\ type(u) = "string" => Textual(u[2])
        /\ type(u) = "object" => \A k \in DOMAIN u[2] :
             Textual(k) /\ (w.kind \in {"styled", "stream"} => CutAtNul(k) = k)
        /\ u = NaN => w.special
        /\ w.null = <<>> => u # Array(<<Null>>)
  IN (\A u \in Parts(v) : Good(u)) /\ (w.null = <<>> => v # Null)

(* What w writes is read again as v, by the strictest reader that knows    *)
(* the writer's extras, and by Reader if there are none.                   *)
RoundTrip(w, v) ==
  LET written == write(w, v)
      f == [strict EXCEPT !.strictRoot = FALSE, !.allowSpecialFloats = w.special,
                          !.allowDroppedNullPlaceholders = (w.null = <<>>)]
      again == [status |-> "ok", errors |-> 0, value |-> v]
  IN Writable(w, v) =>
       /\ Same(OurParse(f, written), again)
       /\ w.null # <<>> /\ ~w.special => Same(parse(all, written), again)

(***************************************************************************)
(* Whatever value is written, by whichever writer, is read again as the    *)
(* value it was.                                                           *)
(***************************************************************************)
RoundTrips == [][unit = "value" /\ Use => \A w \in Writers : RoundTrip(w, value)]_text

(* operator< orders the value and the sample as OrderedWith says.          *)
Ordered ==
  unit = "value" => \A w \in Sample : OrderedWith(value, w, Sample) /\ OrderedWith(w, value, Sample)
=============================================================================
