------------------------------ MODULE JsonList ------------------------------
(***************************************************************************)
(* What an array of Json::Value promises: a list of values, on which each  *)
(* call is the operation of its name.  Writing behind the end fills the    *)
(* gap with nulls, and nulls at the end may be lost when the end is cut    *)
(* off.  An object refuses the calls on arrays.                            *)
(***************************************************************************)
EXTENDS Integers, Sequences

CONSTANTS Values, Null, Keys, MaxSize
VARIABLES
  list,
  object,            \* the value is an object, and its list empty
  call               \* the last call and its arguments

ListInit == list = <<>> /\ ~object /\ call = <<"Value">>

Index == 0 .. MaxSize - 1

Padded(k) == [j \in 1 .. (IF k > Len(list) THEN k ELSE Len(list)) |->
                IF j <= Len(list) THEN list[j] ELSE Null]

(* Changes of the list at place k.                                         *)
Set(k, v) == list' = [Padded(k) EXCEPT ![k] = v]
AppendOne(v) == list' = Append(list, v)
InsertAt(k, v) ==
  k <= Len(list) + 1
  /\ list' = SubSeq(list, 1, k - 1) \o <<v>> \o SubSeq(list, k, Len(list))
RemoveAt(k) ==
  k < Len(list) /\ list' = SubSeq(list, 1, k - 1) \o SubSeq(list, k + 1, Len(list))
Grow(n) == n > Len(list) /\ list' = Padded(n)
Cut(n) ==
  n < Len(list)
  /\ \E m \in 0 .. n :
       list' = SubSeq(list, 1, m) /\ \A k \in m + 1 .. n : list[k] = Null

(* The calls.  Index i is place i + 1.  insert refuses an index behind the *)
(* end, and removeIndex one where nothing was written.                     *)
Assigned(i) == call' = <<"operator[]", i>> /\ \E v \in Values : Set(i + 1, v)
Appended(v) == call' = <<"append", v>> /\ AppendOne(v)
Inserted(i, v) ==
  /\ call' = <<"insert", i, v>>
  /\ IF i <= Len(list) THEN InsertAt(i + 1, v) ELSE UNCHANGED list
Removed(i) ==
  /\ call' = <<"removeIndex", i>>
  /\ \/ RemoveAt(i + 1)
     \/ i + 1 = Len(list) /\ Cut(i)
     \/ i < Len(list) /\ list[i + 1] = Null /\ UNCHANGED list
     \/ i >= Len(list) /\ UNCHANGED list
Resized(n) ==
  /\ call' = <<"resize", n>>
  /\ \/ Grow(n)
     \/ Cut(n)
     \/ n = Len(list) /\ UNCHANGED list
Cleared == call' = <<"clear">> /\ list' = <<>>

ArrayCall ==
  \/ \E i \in Index : Assigned(i) \/ Removed(i)
  \/ \E v \in Values : Appended(v)
  \/ \E i \in Index, v \in Values : Inserted(i, v)
  \/ \E n \in 0 .. MaxSize : Resized(n)
  \/ Cleared

(* Only a list that is empty can become an object.                         *)
MemberCall ==
  \/ \E k \in Keys : call' = <<"resolveReference", k>>
     /\ UNCHANGED list /\ (list # <<>> => UNCHANGED object)
  \/ \E k \in Keys : call' = <<"removeMember", k>> /\ UNCHANGED <<list, object>>

ListNext ==
  \/ ~object /\ ArrayCall /\ UNCHANGED object
  \/ object /\ UNCHANGED <<list, object>>
  \/ MemberCall

ListSpec == ListInit /\ [][ListNext]_<<list, object, call>>
=============================================================================
