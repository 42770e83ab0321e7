--------------------------- MODULE JsonContainer ---------------------------
(***************************************************************************)
(* The operations of Json::Value that change a container.  A value starts  *)
(* as null and becomes an array or an object with the first call that      *)
(* needs one.  An array is a map from indices: operator[] may write behind *)
(* the end and leave holes, which read as null.                            *)
(*                                                                         *)
(* A call that the code ends with an exception sets threw.  The last call  *)
(* is kept with its arguments, for what is said of each.                   *)
(***************************************************************************)
EXTENDS Integers, FiniteSets

CONSTANTS
  Values, NullValue, \* what can be stored; NullValue is one of them
  Keys,
  CString,           \* what a key is as a NUL-terminated string
  MaxSize            \* bound: indices stay below it

ASSUME ContainerAssumption ==
  /\ NullValue \in Values
  /\ CString \in [Keys -> Keys]
  /\ MaxSize \in Nat \ {0}

VARIABLES kind, items, members, threw, call
containerVars == <<kind, items, members, threw, call>>

Index == 0 .. MaxSize - 1

(* size(): one more than the last index.                                   *)
SizeOf(map) ==
  IF DOMAIN map = {} THEN 0
  ELSE (CHOOSE i \in DOMAIN map : \A j \in DOMAIN map : j <= i) + 1
Size == SizeOf(items)

(* operator[] const.                                                       *)
At(i) == IF i \in DOMAIN items THEN items[i] ELSE NullValue

Dense == DOMAIN items = 0 .. Size - 1

ContainerInit == kind = "null" /\ items = [i \in {} |-> NullValue]
        /\ members = [k \in {} |-> NullValue] /\ threw = FALSE /\ call = <<"Value">>

-----------------------------------------------------------------------------
(* Arrays.  The calls are only allowed for null and arrays.                *)
WrongType(needed) == kind \notin {"null", needed}

Throw == threw' = TRUE /\ UNCHANGED <<kind, items, members>>

ArrayBecomes(map) ==
  kind' = "array" /\ items' = map /\ threw' = FALSE /\ UNCHANGED members

(* value[i] = v, or value[i] alone, which creates a null.                  *)
Subscript(i) ==
  /\ call' = <<"operator[]", i>>
  /\ \/ WrongType("array") /\ Throw
     \/ ~WrongType("array") /\
        \E v \in Values \cup {At(i)} :
          ArrayBecomes([j \in DOMAIN items \cup {i} |-> IF j = i THEN v ELSE items[j]])

append(v) ==
  /\ call' = <<"append", v>>
  /\ \/ WrongType("array") /\ Throw
     \/ /\ ~WrongType("array") /\ Size < MaxSize
        /\ ArrayBecomes([j \in DOMAIN items \cup {Size} |-> IF j = Size THEN v ELSE items[j]])

(* Mutant: the elements are moved from the front, each over the next.      *)
InsertedOver(i, v) ==
  [j \in {k \in DOMAIN items : k < i} \cup i .. Size |->
     IF j < i THEN items[j] ELSE IF j = i THEN v ELSE At(i)]

(* Elements from i on move up; the holes among them become nulls.  An      *)
(* index behind the end is refused.                                        *)
Inserted(i, v) ==
  [j \in {k \in DOMAIN items : k < i} \cup i .. Size |->
     IF j < i THEN items[j] ELSE IF j = i THEN v ELSE At(j - 1)]

insert(i, v) ==
  /\ call' = <<"insert", i, v>>
  /\ \/ WrongType("array") /\ Throw
     \/ ~WrongType("array") /\ i <= Size /\ Size < MaxSize /\ ArrayBecomes(Inserted(i, v))
     \/ ~WrongType("array") /\ i > Size /\ threw' = FALSE /\ UNCHANGED <<kind, items, members>>

(* Mutant: the element is erased and nothing moves.                        *)
RemovedGap(i) == [j \in DOMAIN items \ {i} |-> items[j]]

(* Elements behind i move down, filling holes, and the last is erased.     *)
Removed(i) ==
  [j \in {k \in DOMAIN items : k < i} \cup i .. Size - 2 |->
     IF j < i THEN items[j] ELSE At(j + 1)]

(* A hole cannot be removed.                                               *)
removeIndex(i) ==
  /\ call' = <<"removeIndex", i>>
  /\ IF kind = "array" /\ i \in DOMAIN items THEN ArrayBecomes(Removed(i))
     ELSE threw' = FALSE /\ UNCHANGED <<kind, items, members>>

(* Growing fills with nulls.  Shrinking erases, then asserts the new size: *)
(* a hole at the new end makes the assertion fail.                         *)
Resized(n) ==
  [j \in {k \in DOMAIN items : k < n} \cup (IF n > Size THEN Size .. n - 1 ELSE {}) |-> At(j)]

resize(n) ==
  /\ call' = <<"resize", n>>
  /\ \/ WrongType("array") /\ Throw
     \/ /\ ~WrongType("array")
        /\ kind' = "array" /\ items' = Resized(n)
        /\ threw' = (SizeOf(Resized(n)) # n)
        /\ UNCHANGED members

clear ==
  /\ call' = <<"clear">>
  /\ items' = [i \in {} |-> NullValue] /\ members' = [k \in {} |-> NullValue]
  /\ threw' = FALSE /\ UNCHANGED kind

-----------------------------------------------------------------------------
(* Objects.                                                                *)
ObjectBecomes(map) ==
  kind' = "object" /\ members' = map /\ threw' = FALSE /\ UNCHANGED items

find(k) == IF k \in DOMAIN members THEN members[k] ELSE NullValue

(* value[key] = v, or value[key] alone, for a key of any kind.             *)
resolveReference(k) ==
  /\ call' = <<"resolveReference", k>>
  /\ \/ WrongType("object") /\ Throw
     \/ ~WrongType("object") /\
        \E v \in Values \cup {find(k)} :
          ObjectBecomes([l \in DOMAIN members \cup {k} |-> IF l = k THEN v ELSE members[l]])

Without(k) == [l \in DOMAIN members \ {k} |-> members[l]]

(* The overloads that report success do nothing to other types.            *)
removeMemberFound(k) ==
  /\ call' = <<"removeMember", k>>
  /\ IF kind = "object" THEN ObjectBecomes(Without(k))
     ELSE threw' = FALSE /\ UNCHANGED <<kind, items, members>>

removeMember(k) ==
  /\ call' = <<"removeMember", k>>
  /\ CASE kind = "null" -> threw' = FALSE /\ UNCHANGED <<kind, items, members>>
       [] kind = "object" -> ObjectBecomes(Without(k))
       [] OTHER -> Throw

ContainerNext ==
  \/ \E i \in Index : Subscript(i) \/ removeIndex(i) \/ resize(i + 1)
  \/ \E v \in Values : append(v)
  \/ \E i \in Index, v \in Values : insert(i, v)
  \/ resize(0) \/ clear
  \/ \E k \in Keys : \/ resolveReference(k) \/ resolveReference(CString[k])
                     \/ removeMemberFound(k) \/ removeMember(CString[k])

ContainerSpec == ContainerInit /\ [][ContainerNext]_containerVars

-----------------------------------------------------------------------------
(* Only one kind of content is there, and indices and values are as they   *)
(* should be.                                                              *)
ContainerTypeOK ==
  /\ kind \in {"null", "array", "object"} /\ threw \in BOOLEAN
  /\ DOMAIN items \subseteq Index /\ \A i \in DOMAIN items : items[i] \in Values
  /\ DOMAIN members \subseteq Keys /\ \A k \in DOMAIN members : members[k] \in Values
  /\ DOMAIN items # {} => kind = "array"
  /\ DOMAIN members # {} => kind = "object"

(***************************************************************************)
(* Holes have one source: only writing with operator[] behind the end can  *)
(* turn an array without holes into one with holes.  And without holes     *)
(* resize gives exactly the size it was asked for: the assertion in it     *)
(* cannot fail.                                                            *)
(***************************************************************************)
DenseStep ==
  Dense => /\ Dense' \/ \E i \in Index : i > Size /\ Subscript(i)
           /\ \A n \in 0 .. MaxSize : resize(n) /\ ~WrongType("array") => Size' = n /\ ~threw'

KeepsDense == [][DenseStep]_containerVars

(* Read with the const operator[], an array is a list.                     *)
Elements == [k \in 1 .. Size |-> At(k - 1)]
List == INSTANCE JsonList
          WITH Null <- NullValue, list <- Elements, object <- (kind = "object")

(***************************************************************************)
(* Every call on an array is, with its arguments, the operation of its     *)
(* name on the list of what the array reads as: an insert that overwrites, *)
(* an append at the front or a removeIndex that cuts the end off is none.  *)
(* Nothing happens to the list only where the call has nothing to do, or   *)
(* where the value is an object.                                           *)
(***************************************************************************)
ImplementsList == List!ListSpec
=============================================================================
