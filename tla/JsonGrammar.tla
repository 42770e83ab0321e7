---------------------------- MODULE JsonGrammar ----------------------------
(***************************************************************************)
(* What a document without comments means, said without the readers: its   *)
(* tokens are reduced from the inside out, the first bracket that closes   *)
(* together with the one that opens it giving a value, until one is left.  *)
(*                                                                         *)
(* A symbol is a pair of a kind and a value: "value", "name" for a string, *)
(* "number", "bad", or a structural character.                             *)
(***************************************************************************)
EXTENDS JsonOurReader, SequencesExt

Closers == {"]", "}"}
Openers == {"[", "{"}

(* The tokens up to the end or to the first that is none.                  *)
RECURSIVE TokensFrom(_, _, _)
TokensFrom(f, doc, p) ==
  LET t == OurReadToken(f, doc, p)
  IN IF t.type \in {"end", "error"} THEN <<t>> ELSE <<t>> \o TokensFrom(f, doc, t.to)

Tokens(f, doc) == TokensFrom(f, doc, skipBom(f, doc))

Symbol(doc, t) ==
  LET s == Str(OurDecodeString(doc, t))
      n == OurDecodeNumber(doc, t)
  IN CASE t.type = "string" -> IF IsBad(s[2]) THEN <<"bad", Null>> ELSE <<"name", s>>
       [] t.type = "number" -> IF n = NotANumber THEN <<"bad", Null>> ELSE <<"number", n>>
       [] t.type \in {"t", "f"} -> <<"value", Bool(t.type = "t")>>
       [] t.type = "n" -> <<"value", Null>>
       [] t.type = "nan" -> <<"value", NaN>>
       [] t.type \in {"posInf", "negInf"} -> <<"value", Infinity(t.type = "negInf")>>
       [] OTHER -> <<t.type, Null>>

Kinds(symbols) == [k \in DOMAIN symbols |-> symbols[k][1]]
IsValue(cell) == Len(cell) = 1 /\ cell[1][1] \in {"value", "name", "number"}

(* The cells between commas.                                               *)
RECURSIVE Cells(_)
Cells(symbols) ==
  LET k == SelectInSeq(symbols, LAMBDA s : s[1] = ",")
  IN IF k = 0 THEN <<symbols>>
     ELSE <<SubSeq(symbols, 1, k - 1)>> \o Cells(SubSeq(symbols, k + 1, Len(symbols)))

BadValue == <<"bad", Null>>

(* A dropped null is an empty cell; a last one that is empty may also be a *)
(* trailing comma.                                                         *)
ArrayOf(f, symbols) ==
  LET cells == Cells(symbols)
      trailing == Len(cells) > 1 /\ cells[Len(cells)] = <<>>
                  /\ f.allowTrailingCommas /\ ~f.allowDroppedNullPlaceholders
      used == IF trailing THEN SubSeq(cells, 1, Len(cells) - 1) ELSE cells
      Meant(cell) == IF cell = <<>> THEN Null ELSE cell[1][2]
  IN CASE symbols = <<>> -> <<"value", Array(<<>>)>>
       [] symbols # <<>> /\ \A k \in DOMAIN used :
            IsValue(used[k]) \/ (used[k] = <<>> /\ f.allowDroppedNullPlaceholders) ->
              <<"value", Array([k \in DOMAIN used |-> Meant(used[k])])>>
       [] OTHER -> BadValue

(* A comma behind a member with an empty name is always taken as trailing. *)
ObjectOf(f, symbols) ==
  LET cells == Cells(symbols)
      IsName(s) == s[1] = "name" \/ (s[1] = "number" /\ f.allowNumericKeys)
      IsMember(cell) ==
        /\ Len(cell) >= 2 /\ IsName(cell[1]) /\ cell[2][1] = ":"
        /\ \/ IsValue(SubSeq(cell, 3, Len(cell)))
           \/ Len(cell) = 2 /\ f.allowDroppedNullPlaceholders
      NameOf(cell) == IF cell[1][1] = "name" THEN cell[1][2][2] ELSE NumberName(cell[1][2])
      n == Len(cells)
      trailing == /\ n > 1 /\ cells[n] = <<>> /\ IsMember(cells[n - 1])
                  /\ f.allowTrailingCommas \/ NameOf(cells[n - 1]) = <<>>
      used == IF trailing THEN 1 .. n - 1 ELSE 1 .. n
      LastOf(key) == CHOOSE k \in used :
        NameOf(cells[k]) = key /\ \A j \in used : j > k => NameOf(cells[j]) # key
      Meant(cell) == IF Len(cell) = 2 THEN Null ELSE cell[3][2]
      members == [key \in {NameOf(cells[k]) : k \in used} |-> Meant(cells[LastOf(key)])]
  IN CASE symbols = <<>> -> <<"value", Object(NoMembers)>>
       [] symbols # <<>> /\ (\A k \in used : IsMember(cells[k]))
          /\ (f.rejectDupKeys =>
                \A j, k \in used : j # k => NameOf(cells[j]) # NameOf(cells[k])) ->
            <<"value", Object(members)>>
       [] OTHER -> BadValue

RECURSIVE Reduced(_, _)
Reduced(f, symbols) ==
  LET c == SelectInSeq(symbols, LAMBDA s : s[1] \in Closers)
      o == SelectLastInSubSeq(symbols, 1, c - 1, LAMBDA s : s[1] \in Openers)
      inside == SubSeq(symbols, o + 1, c - 1)
      v == CASE symbols[o][1] = "[" /\ symbols[c][1] = "]" -> ArrayOf(f, inside)
             [] symbols[o][1] = "{" /\ symbols[c][1] = "}" -> ObjectOf(f, inside)
             [] OTHER -> BadValue
  IN IF c = 0 \/ o = 0 THEN symbols
     ELSE Reduced(f, SubSeq(symbols, 1, o - 1) \o <<v>> \o SubSeq(symbols, c + 1, Len(symbols)))

(* How deep the brackets are after the first k symbols, and where the      *)
(* first value ends: 0 if it does not.                                     *)
Depth(kinds, k) ==
  Cardinality({j \in 1 .. k : kinds[j] \in Openers})
    - Cardinality({j \in 1 .. k : kinds[j] \in Closers})
RootEnd(kinds) ==
  IF kinds[1] \notin Openers THEN 1
  ELSE IF \E k \in DOMAIN kinds : Depth(kinds, k) = 0
  THEN CHOOSE k \in DOMAIN kinds :
         Depth(kinds, k) = 0 /\ \A j \in 1 .. k - 1 : Depth(kinds, j) > 0
  ELSE 0

Nesting(kinds) ==
  CHOOSE d \in 0 .. Len(kinds) :
    /\ \E k \in 0 .. Len(kinds) : Depth(kinds, k) = d
    /\ \A k \in 0 .. Len(kinds) : Depth(kinds, k) <= d

NoMeaning == [status |-> "error", value |-> Null]

(* What a document means: its first value, if nothing is wrong with it.    *)
Meaning(f, doc) ==
  LET tokens == Tokens(f, doc)
      symbols == [k \in DOMAIN tokens |-> Symbol(doc, tokens[k])]
      kinds == Kinds(symbols)
      dropped == f.allowDroppedNullPlaceholders /\ kinds[1] \in Closers \cup {","}
      end == IF dropped THEN 0 ELSE RootEnd(kinds)
      root == IF dropped THEN <<<<"value", Null>>>> ELSE Reduced(f, SubSeq(symbols, 1, end))
  IN IF /\ end > 0 \/ dropped
        /\ IsValue(root)
        /\ f.strictRoot => kinds[1] \in Openers
        /\ f.failIfExtra => kinds[end + 1] = "end"
     THEN [status |-> "ok", value |-> root[1][2]]
     ELSE NoMeaning
=============================================================================
