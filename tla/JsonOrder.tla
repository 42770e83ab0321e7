----------------------------- MODULE JsonOrder -----------------------------
(***************************************************************************)
(* The order and the equality of Json::Value, src/jsoncpp.cpp: scalars and *)
(* containers are compared as JsonValue says, elements by recursion.       *)
(***************************************************************************)
EXTENDS JsonReader, SequencesExt, FiniteSets

(* Mutant: containers of one size are compared by their members alone.     *)
RECURSIVE LessByKeys(_, _)
LessByKeys(v, w) ==
  CASE type(v) # type(w) -> Rank[type(v)] < Rank[type(w)]
    [] type(v) = type(w) /\ ~IsContainer(v) -> ScalarLess(v, w)
    [] OTHER -> \E k \in DOMAIN Sorted(v) \cap DOMAIN Sorted(w) :
                  LessByKeys(Sorted(v)[k][2], Sorted(w)[k][2])

RECURSIVE Less(_, _)
Less(v, w) == ValueLess(v, w, Less)

compare(v, w) == IF Less(v, w) THEN -1 ELSE IF Less(w, v) THEN 1 ELSE 0

RECURSIVE Equal(_, _)
Equal(v, w) == ValueEqual(v, w, Equal)

(***************************************************************************)
(* operator< orders all values without NaN strictly and weakly, the values *)
(* it cannot tell apart are the equal ones, and compare() is its sign.     *)
(***************************************************************************)
RECURSIVE HasNaN(_)
HasNaN(v) ==
  IF IsContainer(v) THEN \E k \in DOMAIN v[2] : HasNaN(v[2][k]) ELSE IsNaN(v)

OrderedWith(v, w, others) ==
  ~HasNaN(v) /\ ~HasNaN(w) =>
    /\ ~(Less(v, w) /\ Less(w, v))
    /\ (compare(v, w) = 0) = Equal(v, w)
    /\ \A x \in others :
         /\ Less(v, w) /\ Less(w, x) => Less(v, x)
         /\ ~HasNaN(x) /\ compare(v, w) = 0 /\ compare(w, x) = 0 => compare(v, x) = 0
=============================================================================
