----------------------------- MODULE JsonReader -----------------------------
(***************************************************************************)
(* Json::Reader of src/jsoncpp.cpp, the parser config_read uses, as an     *)
(* operator from a document and the features to the value, or to an error  *)
(* or the exception thrown at the depth limit.  Of the errors their number *)
(* is kept; comments are skipped but not collected.                        *)
(***************************************************************************)
EXTENDS JsonText

CONSTANT stackLimit_g

(* Class Features.                                                         *)
all == [allowComments |-> TRUE, strictRoot |-> FALSE,
        allowDroppedNullPlaceholders |-> FALSE, allowNumericKeys |-> FALSE]
strictMode == [allowComments |-> FALSE, strictRoot |-> TRUE,
               allowDroppedNullPlaceholders |-> FALSE, allowNumericKeys |-> FALSE]

(* What reading gives: a value and the location behind it, or no value.    *)
Read(v, p) == [status |-> "ok", value |-> v, at |-> p]
Failed(p) == [status |-> "error", value |-> Null, at |-> p]
Thrown == [status |-> "thrown", value |-> Null, at |-> 0]

Array(elements) == <<"array", elements>>
Object(members) == <<"object", members>>
NoMembers == [k \in {} |-> Null]
With(members, key, v) ==
  [k \in DOMAIN members \cup {key} |-> IF k = key THEN v ELSE members[k]]

(* A number as a key: asString().                                          *)
NumberName(v) ==
  LET text == valueToString(v, FALSE) IN [k \in DOMAIN text |-> Byte[text[k]][1]]

-----------------------------------------------------------------------------
RECURSIVE SkipComments(_, _)
SkipComments(doc, p) ==
  LET t == readToken(doc, p)
  IN IF t.type = "comment" THEN SkipComments(doc, t.to) ELSE t

skipCommentTokens(f, doc, p) ==
  IF f.allowComments THEN SkipComments(doc, p) ELSE readToken(doc, p)

(* Skip until the closing bracket or the end; errors on the way are lost.  *)
RECURSIVE recoverFromError(_, _, _)
recoverFromError(doc, p, skipUntil) ==
  LET t == readToken(doc, p)
  IN IF t.type \in {skipUntil, "end"} THEN Failed(t.to) ELSE recoverFromError(doc, t.to, skipUntil)

(* What follows an element or a member's value.                            *)
Passed(r, doc, skipUntil) ==
  IF r.status = "error" THEN recoverFromError(doc, r.at, skipUntil) ELSE r

RECURSIVE readValue(_, _, _, _), readArray(_, _, _, _, _), readObject(_, _, _, _, _, _)

readValue(f, doc, p, depth) ==
  LET t == skipCommentTokens(f, doc, p)
      v == CASE t.type = "number" -> decodeNumber(doc, t)
             [] t.type = "string" -> Str(decodeString(doc, t))
             [] t.type \in {"t", "f"} -> Bool(t.type = "t")
             [] OTHER -> Null
  IN IF depth > stackLimit_g THEN Thrown
     ELSE CASE t.type = "{" -> readObject(f, doc, t.to, depth, NoMembers, <<>>)
            [] t.type = "[" ->
                 LET s == skipSpaces(doc, t.to)
                 IN IF CharAt(doc, s) = "]" THEN Read(Array(<<>>), s + 1)
                    ELSE readArray(f, doc, s, depth, <<>>)
            [] t.type \in {"n", "t", "f"} -> Read(v, t.to)
            [] t.type = "number" -> IF v = NotANumber THEN Failed(t.to) ELSE Read(v, t.to)
            [] t.type = "string" -> IF IsBad(v[2]) THEN Failed(t.to) ELSE Read(v, t.to)
            [] OTHER ->
                 IF t.type \in {",", "}", "]"} /\ f.allowDroppedNullPlaceholders
                 THEN Read(Null, t.to - 1) ELSE Failed(t.to)

(* The loop of readArray from an element on.                               *)
readArray(f, doc, p, depth, elements) ==
  LET r == readValue(f, doc, p, depth + 1)
      t == SkipComments(doc, r.at)
      now == Append(elements, r.value)
  IN CASE r.status # "ok" -> Passed(r, doc, "]")
       [] r.status = "ok" /\ t.type = "]" -> Read(Array(now), t.to)
       [] r.status = "ok" /\ t.type = "," -> readArray(f, doc, t.to, depth, now)
       [] OTHER -> recoverFromError(doc, t.to, "]")

(***************************************************************************)
(* The loop of readObject from a name on.  "}" ends the object while the   *)
(* name before it is empty.  A comment behind the value may be followed by *)
(* any token, an error too: the loop goes on as if it were a comma.        *)
(***************************************************************************)
readObject(f, doc, p, depth, members, before) ==
  LET t == SkipComments(doc, p)
      number == decodeNumber(doc, t)
      name == IF t.type = "string" THEN decodeString(doc, t) ELSE NumberName(number)
      bad == IF t.type = "string" THEN IsBad(name) ELSE number = NotANumber
      colon == readToken(doc, t.to)
      r == readValue(f, doc, colon.to, depth + 1)
      behind == readToken(doc, r.at)
      comma == SkipComments(doc, r.at)
      now == With(members, name, r.value)
  IN CASE t.type = "}" /\ before = <<>> -> Read(Object(members), t.to)
       [] t.type = "string" \/ (t.type = "number" /\ f.allowNumericKeys) ->
            CASE bad -> recoverFromError(doc, t.to, "}")
              [] ~bad /\ colon.type # ":" -> recoverFromError(doc, colon.to, "}")
              [] ~bad /\ colon.type = ":" /\ r.status # "ok" -> Passed(r, doc, "}")
              [] OTHER ->
                   CASE behind.type \notin {"}", ",", "comment"} ->
                          recoverFromError(doc, behind.to, "}")
                     [] behind.type # "," /\ comma.type = "}" -> Read(Object(now), comma.to)
                     [] OTHER -> readObject(f, doc, comma.to, depth, now, name)
       [] OTHER -> recoverFromError(doc, t.to, "}")

(* parse() stops behind the value: what follows it is not looked at.       *)
parse(f, doc) ==
  LET r == readValue(f, doc, 1, 1)
      badRoot == f.strictRoot /\ r.status # "thrown"
                 /\ skipCommentTokens(f, doc, 1).type \notin {"[", "{"}
      errors == (IF r.status = "error" THEN 1 ELSE 0) + (IF badRoot THEN 1 ELSE 0)
  IN [status |-> IF r.status = "ok" /\ badRoot THEN "error" ELSE r.status,
      value |-> r.value, errors |-> errors]
=============================================================================
