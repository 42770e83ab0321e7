----------------------------- MODULE JsonValue -----------------------------
(***************************************************************************)
(* Json::Value of src/jsoncpp.cpp as far as it looks at one value without  *)
(* going into its elements: how numbers are written, the order of scalars  *)
(* and of names, what counts as an integer, and the conversions.  An       *)
(* operator that the code ends with an exception gives Throws.             *)
(***************************************************************************)
EXTENDS Integers, Sequences, FiniteSets

CONSTANTS
  maxLargestUInt,    \* 2^64 - 1, scaled
  maxLargestInt,     \* 2^63 - 1, scaled
  maxInt,            \* 2^31 - 1, scaled
  Examined           \* the values that are converted

maxUInt == 2 * maxInt + 1
minInt == -maxInt - 1
minLargestInt == -maxLargestInt - 1

ASSUME LimitsAssumption ==
  /\ maxLargestInt \in Nat /\ maxLargestUInt = 2 * maxLargestInt + 1
  /\ maxInt \in 1 .. maxLargestInt

(* A value is a tuple of its type and its payload.  A double is a multiple *)
(* of a tenth, cut towards zero, or infinite.                              *)
Null == <<"null", 0>>
Bool(b) == <<"bool", b>>
IntValue(n) == <<"int", n>>
UIntValue(n) == <<"uint", n>>
Str(bytes) == <<"string", bytes>>
Tenths(n) == <<"real", <<"finite", n>>>>
Infinity(negative) == <<"real", <<IF negative THEN "negInf" ELSE "posInf", 0>>>>
NaN == <<"real", <<"nan", 0>>>>

type(v) == v[1]
Rank == [t \in {"null", "int", "uint", "real", "string", "bool", "array", "object"} |->
  CHOOSE k \in 0 .. 7 :
    t = <<"null", "int", "uint", "real", "string", "bool", "array", "object">>[k + 1]]

IsContainer(v) == type(v) \in {"array", "object"}

Bytes == Seq(0 .. 255)
IsReal(r) ==
  /\ r = <<r[1], r[2]>>
  /\ \/ r[1] = "finite" /\ r[2] \in Int
     \/ r[1] \in {"negInf", "posInf", "nan"} /\ r[2] = 0
IsScalar(v) ==
  /\ v = <<type(v), v[2]>>
  /\ \/ v = Null
     \/ type(v) = "int" /\ v[2] \in minLargestInt .. maxLargestInt
     \/ type(v) = "uint" /\ v[2] \in 0 .. maxLargestUInt
     \/ type(v) = "real" /\ IsReal(v[2])
     \/ type(v) = "string" /\ v[2] \in Bytes
     \/ type(v) = "bool" /\ v[2] \in BOOLEAN

ASSUME ExaminedAssumption ==
  \A v \in Examined : IsScalar(v) \/ IsContainer(v)

IsNaN(v) == v = NaN
(* A finite number in tenths.                                              *)
Finite(v) == type(v) \in {"int", "uint"} \/ (type(v) = "real" /\ v[2][1] = "finite")
InTenths(v) == IF type(v) = "real" THEN v[2][2] ELSE 10 * v[2]

-----------------------------------------------------------------------------
(* valueToString: what numbers are written as.                             *)
Digit == {"0", "1", "2", "3", "4", "5", "6", "7", "8", "9"}
DigitValue == [c \in Digit |->
  CHOOSE d \in 0 .. 9 : c = <<"0", "1", "2", "3", "4", "5", "6", "7", "8", "9">>[d + 1]]

uintToString[n \in Nat] ==
  LET last == <<CHOOSE c \in Digit : DigitValue[c] = n % 10>>
  IN IF n < 10 THEN last ELSE uintToString[n \div 10] \o last

intToString(n) == IF n < 0 THEN <<"-">> \o uintToString[-n] ELSE uintToString[n]

doubleToString(r, useSpecialFloats) ==
  CASE r[1] = "finite" ->
         (IF r[2] < 0 THEN <<"-">> ELSE <<>>) \o
         LET n == IF r[2] < 0 THEN -r[2] ELSE r[2]
         IN uintToString[n \div 10] \o <<".">> \o uintToString[n % 10]
    [] r[1] = "nan" -> IF useSpecialFloats THEN <<"N", "aN">> ELSE <<"n", "ull">>
    [] OTHER -> (IF r[1] = "negInf" THEN <<"-">> ELSE <<>>) \o
                IF useSpecialFloats THEN <<"I", "nfinity">>
                ELSE <<"1", "e", "+", "9", "9", "9", "9">>

valueToString(v, useSpecialFloats) ==
  IF v[1] = "real" THEN doubleToString(v[2], useSpecialFloats) ELSE intToString(v[2])

-----------------------------------------------------------------------------
(* operator< and operator==, of two scalars and of two containers of one    *)
(* type.                                                                   *)
RealLess(r, s) ==
  CASE r[1] = "finite" /\ s[1] = "finite" -> r[2] < s[2]
    [] "nan" \in {r[1], s[1]} -> FALSE
    [] OTHER -> r[1] # s[1] /\ (r[1] = "negInf" \/ s[1] = "posInf")

(* memcmp over the shorter length, then the length: CZString and strings.  *)
BytesLess(s, t) ==
  \/ \E k \in DOMAIN s \cap DOMAIN t :
       s[k] < t[k] /\ \A j \in 1 .. k - 1 : s[j] = t[j]
  \/ Len(s) < Len(t) /\ \A k \in DOMAIN s : s[k] = t[k]

ScalarLess(v, w) ==
  CASE type(v) = "null" -> FALSE
    [] type(v) \in {"int", "uint"} -> v[2] < w[2]
    [] type(v) = "bool" -> ~v[2] /\ w[2]
    [] type(v) = "real" -> RealLess(v[2], w[2])
    [] OTHER -> BytesLess(v[2], w[2])

ScalarEqual(v, w) == v = w /\ ~IsNaN(v)

(* The members in the order of the map, and the pairs of a key and an      *)
(* element; the keys of an array are its indices.                          *)
getMemberNames(v) ==
  CHOOSE s \in [1 .. Cardinality(DOMAIN v[2]) -> DOMAIN v[2]] :
    \A j, k \in DOMAIN s : j < k => BytesLess(s[j], s[k])
Sorted(v) ==
  IF type(v) = "array" THEN [k \in DOMAIN v[2] |-> <<<<k>>, v[2][k]>>]
  ELSE [k \in DOMAIN getMemberNames(v) |-> <<getMemberNames(v)[k], v[2][getMemberNames(v)[k]]>>]

(* Containers: the smaller first, then the first pair that differs.        *)
PairLess(p, q, less(_, _)) ==
  BytesLess(p[1], q[1]) \/ (~BytesLess(q[1], p[1]) /\ less(p[2], q[2]))

ContainerLess(s, t, less(_, _)) ==
  IF Len(s) # Len(t) THEN Len(s) < Len(t)
  ELSE \E k \in DOMAIN s :
         /\ PairLess(s[k], t[k], less)
         /\ \A j \in 1 .. k - 1 : ~PairLess(s[j], t[j], less) /\ ~PairLess(t[j], s[j], less)

ContainerEqual(s, t, equal(_, _)) ==
  Len(s) = Len(t) /\ \A k \in DOMAIN s : s[k][1] = t[k][1] /\ equal(s[k][2], t[k][2])

(* Both, given how elements are compared.                                  *)
ValueLess(v, w, less(_, _)) ==
  CASE type(v) # type(w) -> Rank[type(v)] < Rank[type(w)]
    [] type(v) = type(w) /\ ~IsContainer(v) -> ScalarLess(v, w)
    [] OTHER -> ContainerLess(Sorted(v), Sorted(w), less)

ValueEqual(v, w, equal(_, _)) ==
  /\ type(v) = type(w)
  /\ IF IsContainer(v) THEN ContainerEqual(Sorted(v), Sorted(w), equal) ELSE ScalarEqual(v, w)

-----------------------------------------------------------------------------
(* What counts as an integer.  The largest integers of 64 bits become the  *)
(* next power of two as doubles.                                           *)
IsIntegral(v) == type(v) \in {"int", "uint"} \/ (Finite(v) /\ v[2][2] % 10 = 0)
Within(v, low, high) == Finite(v) /\ 10 * low <= InTenths(v) /\ InTenths(v) <= 10 * high

isInt(v) == IsIntegral(v) /\ Within(v, minInt, maxInt)
isUInt(v) == IsIntegral(v) /\ Within(v, 0, maxUInt)
isInt64(v) == IsIntegral(v) /\ Within(v, minLargestInt, maxLargestInt)
isUInt64(v) == IsIntegral(v) /\ Within(v, 0, maxLargestUInt)
isNumeric(v) == type(v) \in {"int", "uint", "real"}

Throws == <<"throws", 0>>
Undefined == <<"undefined", 0>>   \* a double cast to a type it does not fit
Ok(n) == <<"ok", n>>

Truncated(n) == IF n >= 0 THEN n \div 10 ELSE -((-n) \div 10)

(* Mutant: InRange leaves the upper end open to the next integer.          *)
InRangeWide(v, low, high) == Within(v, low, high + 1)

(* InRange of a double against two limits converted to doubles.            *)
InRange(v, low, high) == Within(v, low, high)

(* The four integral conversions, given the type's own test and limits.    *)
AsIntegral(v, fits, low, high, roundedHigh) ==
  CASE type(v) \in {"int", "uint"} -> IF fits THEN Ok(v[2]) ELSE Throws
    [] type(v) = "real" ->
         CASE ~InRange(v, low, roundedHigh) -> Throws
           [] InRange(v, low, roundedHigh) /\ Truncated(v[2][2]) > high -> Undefined
           [] OTHER -> Ok(Truncated(v[2][2]))
    [] type(v) = "null" -> Ok(0)
    [] type(v) = "bool" -> Ok(IF v[2] THEN 1 ELSE 0)
    [] OTHER -> Throws

asInt(v) == AsIntegral(v, isInt(v), minInt, maxInt, maxInt)
asUInt(v) == AsIntegral(v, isUInt(v), 0, maxUInt, maxUInt)
asInt64(v) == AsIntegral(v, isInt64(v), minLargestInt, maxLargestInt, maxLargestInt + 1)
asUInt64(v) == AsIntegral(v, isUInt64(v), 0, maxLargestUInt, maxLargestUInt + 1)

asDouble(v) ==
  CASE Finite(v) -> Ok(Tenths(InTenths(v))[2])
    [] type(v) = "real" /\ ~Finite(v) -> Ok(v[2])
    [] type(v) = "null" -> Ok(Tenths(0)[2])
    [] type(v) = "bool" -> Ok(Tenths(IF v[2] THEN 10 ELSE 0)[2])
    [] OTHER -> Throws

(* Zero and NaN are false.                                                 *)
asBool(v) ==
  CASE type(v) = "bool" -> Ok(v[2])
    [] type(v) = "null" -> Ok(FALSE)
    [] isNumeric(v) -> Ok(~IsNaN(v) /\ (Finite(v) => InTenths(v) # 0))
    [] OTHER -> Throws

asString(v) ==
  CASE type(v) = "null" -> Ok(<<>>)
    [] type(v) = "string" -> Ok(v[2])
    [] type(v) = "bool" -> Ok(IF v[2] THEN <<116, 114, 117, 101>> ELSE <<102, 97, 108, 115, 101>>)
    [] isNumeric(v) -> Ok(valueToString(v, FALSE))
    [] OTHER -> Throws

(* Number of elements or members; an array's is that of JsonContainer.      *)
size(v) ==
  CASE type(v) = "array" -> Len(v[2])
    [] type(v) = "object" -> Cardinality(DOMAIN v[2])
    [] OTHER -> 0

isConvertibleTo(v, other) ==
  CASE other = "null" ->
         \/ type(v) = "null" \/ (isNumeric(v) /\ asDouble(v) = Ok(Tenths(0)[2]))
         \/ v = Bool(FALSE) \/ (type(v) = "string" /\ v[2] = <<>>)
         \/ IsContainer(v) /\ size(v) = 0
    [] other = "int" ->
         isInt(v) \/ type(v) \in {"bool", "null"} \/ (type(v) = "real" /\ InRange(v, minInt, maxInt))
    [] other = "uint" ->
         isUInt(v) \/ type(v) \in {"bool", "null"} \/ (type(v) = "real" /\ InRange(v, 0, maxUInt))
    [] other \in {"real", "bool"} -> isNumeric(v) \/ type(v) \in {"bool", "null"}
    [] other = "string" -> isNumeric(v) \/ type(v) \in {"bool", "string", "null"}
    [] OTHER -> type(v) \in {other, "null"}

-----------------------------------------------------------------------------
(***************************************************************************)
(* The conversions of a number agree with each other: isConvertibleTo says *)
(* beforehand whether asInt, asUInt, asDouble, asBool and asString throw;  *)
(* what counts as an integer of a type converts to itself; every integer   *)
(* obtained is the number cut towards zero and fits; only a double at the  *)
(* very end of a 64-bit type converts to something undefined.              *)
(***************************************************************************)
ConversionOf(v, is, as, low, high) ==
  /\ is => as = Ok(Truncated(InTenths(v)))
  /\ as[1] = "ok" /\ isNumeric(v) => as[2] = Truncated(InTenths(v)) /\ as[2] \in low .. high
  /\ as = Undefined => ~is /\ InTenths(v) = 10 * (high + 1) /\ high >= maxLargestInt

ConversionsAgree(v) ==
  /\ ConversionOf(v, isInt(v), asInt(v), minInt, maxInt)
  /\ ConversionOf(v, isUInt(v), asUInt(v), 0, maxUInt)
  /\ ConversionOf(v, isInt64(v), asInt64(v), minLargestInt, maxLargestInt)
  /\ ConversionOf(v, isUInt64(v), asUInt64(v), 0, maxLargestUInt)
  /\ isConvertibleTo(v, "int") <=> (asInt(v)[1] = "ok")
  /\ isConvertibleTo(v, "uint") <=> (asUInt(v)[1] = "ok")
  /\ isConvertibleTo(v, "real") <=> (asDouble(v) # Throws)
  /\ isConvertibleTo(v, "bool") <=> (asBool(v) # Throws)
  /\ isConvertibleTo(v, "string") <=> (asString(v) # Throws)
  /\ asBool(v) # Throws => (asBool(v) = Ok(FALSE) <=> isConvertibleTo(v, "null") \/ IsNaN(v))

(* Whatever value is examined, its conversions agree.                      *)
Conversions == \A v \in Examined : ConversionsAgree(v)
=============================================================================
