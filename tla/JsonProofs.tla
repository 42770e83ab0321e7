----------------------------- MODULE JsonProofs -----------------------------
(***************************************************************************)
(* Json::Value: the conversions of every value in every range of the       *)
(* integer types, the order of values, and the containers, for every bound *)
(* on the indices and every set of values and keys.                        *)
(***************************************************************************)
EXTENDS JsonValue, JsonContainer, SequenceTheorems, FiniteSetTheorems, WellFoundedInduction, TLAPS

-----------------------------------------------------------------------------
(* The conversions.                                                        *)

(* Cutting a number of tenths towards zero, at the ends of a range.        *)
LEMMA Cut ==
  ASSUME NEW n \in Int, NEW low \in Int, NEW high \in Int, low <= 0, high >= 0
  PROVE  /\ Truncated(n) \in Int
         /\ 10 * low <= n /\ n <= 10 * high => Truncated(n) \in low .. high
         /\ Truncated(n) > high /\ n <= 10 * (high + 1) => n = 10 * (high + 1)
         /\ Truncated(10 * n) = n
  BY DEF Truncated

(* The limits of the integer types are integers and lie as they do in C++. *)
LEMMA Limits ==
  /\ maxInt \in Nat /\ maxLargestInt \in Nat /\ maxInt <= maxLargestInt
  /\ maxUInt \in Nat /\ maxLargestUInt \in Nat /\ maxUInt <= maxLargestUInt
  /\ minInt \in Int /\ minInt <= 0 /\ minLargestInt \in Int /\ minLargestInt <= 0
  /\ minLargestInt <= minInt
  /\ maxLargestUInt >= maxLargestInt
  BY LimitsAssumption DEF maxUInt, minInt, minLargestInt

(* One integral conversion of an integer, given what its own test says.    *)
LEMMA IntegerConverts ==
  ASSUME NEW v, type(v) \in {"int", "uint"}, v[2] \in Int,
         NEW low \in Int, NEW high \in Int, low <= 0, high >= 0, NEW roundedHigh \in Int
  PROVE  /\ ConversionOf(v, IsIntegral(v) /\ Within(v, low, high),
                         AsIntegral(v, IsIntegral(v) /\ Within(v, low, high), low, high, roundedHigh),
                         low, high)
         /\ (IsIntegral(v) /\ Within(v, low, high))
              <=> (AsIntegral(v, IsIntegral(v) /\ Within(v, low, high), low, high, roundedHigh)[1] = "ok")
<1> DEFINE is == IsIntegral(v) /\ Within(v, low, high)
           as == AsIntegral(v, is, low, high, roundedHigh)
<1>1. is <=> (low <= v[2] /\ v[2] <= high)
  BY DEF IsIntegral, Within, Finite, InTenths
<1>2. Truncated(InTenths(v)) = v[2]
  BY Cut DEF InTenths
<1>3. as = IF is THEN Ok(v[2]) ELSE Throws
  BY DEF AsIntegral
<1>4. QED
  BY <1>1, <1>2, <1>3 DEF ConversionOf, Ok, Throws, Undefined

(* One integral conversion of a double.                                    *)
LEMMA DoubleConverts ==
  ASSUME NEW n \in Int, NEW low \in Int, NEW high \in Int, low <= 0, high >= 0,
         NEW rounded \in {high, high + 1}, rounded = high + 1 => high >= maxLargestInt
  PROVE  LET v == Tenths(n)
             is == IsIntegral(v) /\ Within(v, low, high)
             as == AsIntegral(v, is, low, high, rounded)
         IN /\ ConversionOf(v, is, as, low, high)
            /\ rounded = high => (is \/ InRange(v, low, high)) <=> (as[1] = "ok")
<1> DEFINE v == Tenths(n)
           is == IsIntegral(v) /\ Within(v, low, high)
           as == AsIntegral(v, is, low, high, rounded)
<1>1. type(v) = "real" /\ v[2][2] = n /\ InTenths(v) = n /\ Finite(v)
  BY DEF Tenths, type, InTenths, Finite
<1>2. is <=> (n % 10 = 0 /\ 10 * low <= n /\ n <= 10 * high)
  BY <1>1 DEF IsIntegral, Within
<1>3. InRange(v, low, rounded) <=> (10 * low <= n /\ n <= 10 * rounded)
  BY <1>1 DEF InRange, Within
<1>4. as = IF ~InRange(v, low, rounded) THEN Throws
           ELSE IF Truncated(n) > high THEN Undefined ELSE Ok(Truncated(n))
  BY <1>1 DEF AsIntegral
<1> HIDE DEF is, as
<1>5. /\ Truncated(n) \in Int
      /\ 10 * low <= n /\ n <= 10 * high => Truncated(n) \in low .. high
      /\ Truncated(n) > high /\ n <= 10 * (high + 1) => n = 10 * (high + 1)
  BY Cut
<1>6. is => as = Ok(Truncated(n))
  BY <1>2, <1>3, <1>4, <1>5
<1>7. as[1] = "ok" => as = Ok(Truncated(n)) /\ Truncated(n) \in low .. high
  <2>1. SUFFICES ASSUME as[1] = "ok"
                 PROVE  as = Ok(Truncated(n)) /\ Truncated(n) \in low .. high
    OBVIOUS
  <2>2. InRange(v, low, rounded) /\ Truncated(n) <= high /\ as = Ok(Truncated(n))
    BY <2>1, <1>4, <1>5 DEF Throws, Undefined
  <2>3. 10 * low <= n /\ n <= 10 * rounded
    BY <2>2, <1>3
  <2>4. QED
    BY <2>2, <2>3, Cut DEF Truncated
<1>8. as = Undefined => ~is /\ n = 10 * (high + 1) /\ high >= maxLargestInt
  <2>1. SUFFICES ASSUME as = Undefined
                 PROVE  ~is /\ n = 10 * (high + 1) /\ high >= maxLargestInt
    OBVIOUS
  <2>2. InRange(v, low, rounded) /\ Truncated(n) > high
    <3>1. Throws # Undefined /\ Ok(Truncated(n)) # Undefined
      BY DEF Throws, Undefined, Ok
    <3>2. QED
      BY <2>1, <3>1, <1>4, <1>5
  <2>3. n <= 10 * rounded
    BY <2>2, <1>3
  <2>4. n = 10 * (high + 1)
    BY <2>2, <2>3, <1>5
  <2>5. QED
    BY <2>3, <2>4, <1>2
<1>9. ASSUME rounded = high
      PROVE  (is \/ InRange(v, low, high)) <=> (as[1] = "ok")
  <2>1. Truncated(n) <= high \/ ~InRange(v, low, high)
    BY <1>9, <1>3, <1>5
  <2>2. is => InRange(v, low, high)
    BY <1>2, <1>3, <1>9
  <2>3. QED
    BY <2>1, <2>2, <1>4, <1>5, <1>9 DEF Throws, Ok
<1>10. QED
  BY <1>1, <1>6, <1>7, <1>8, <1>9 DEF ConversionOf, Ok, is, as

(* One integral conversion of what is no number.                           *)
LEMMA OthersConvert ==
  ASSUME NEW v, ~isNumeric(v), type(v) = "bool" => v[2] \in BOOLEAN,
         NEW fits, NEW low, NEW high, NEW rounded, fits => isNumeric(v)
  PROVE  /\ ConversionOf(v, fits, AsIntegral(v, fits, low, high, rounded), low, high)
         /\ (AsIntegral(v, fits, low, high, rounded)[1] = "ok") <=> (type(v) \in {"null", "bool"})
<1> DEFINE as == AsIntegral(v, fits, low, high, rounded)
<1>1. CASE type(v) \in {"null", "bool"}
  <2>1. as = Ok(0) \/ as = Ok(1)
    BY <1>1 DEF AsIntegral
  <2>2. QED
    BY <2>1, <1>1 DEF ConversionOf, Ok, Undefined, isNumeric
<1>2. CASE type(v) \notin {"null", "bool"}
  <2>1. as = Throws
    BY <1>2 DEF AsIntegral, isNumeric
  <2>2. QED
    BY <2>1, <1>2 DEF ConversionOf, Throws, Undefined
<1>3. QED
  BY <1>1, <1>2

(* An infinite double, or NaN.                                             *)
LEMMA InfiniteConverts ==
  ASSUME NEW v, type(v) = "real", ~Finite(v), NEW low, NEW high, NEW rounded
  PROVE  LET is == IsIntegral(v) /\ Within(v, low, high)
             as == AsIntegral(v, is, low, high, rounded)
         IN ConversionOf(v, is, as, low, high) /\ ~is /\ ~InRange(v, low, high) /\ as = Throws
  BY DEF IsIntegral, Within, InRange, AsIntegral, ConversionOf, Throws, Undefined

(* What fits Int or UInt is an integer of 64 bits.                         *)
LEMMA Tests ==
  ASSUME NEW v
  PROVE  /\ isInt(v) <=> (IsIntegral(v) /\ Within(v, minInt, maxInt))
         /\ isUInt(v) <=> (IsIntegral(v) /\ Within(v, 0, maxUInt))
         /\ isInt64(v) <=> (IsIntegral(v) /\ Within(v, minLargestInt, maxLargestInt))
         /\ isUInt64(v) <=> (IsIntegral(v) /\ Within(v, 0, maxLargestUInt))
  BY DEF isInt, isUInt, isInt64, isUInt64

Integrals(v) ==
  /\ ConversionOf(v, isInt(v), asInt(v), minInt, maxInt)
  /\ ConversionOf(v, isUInt(v), asUInt(v), 0, maxUInt)
  /\ ConversionOf(v, isInt64(v), asInt64(v), minLargestInt, maxLargestInt)
  /\ ConversionOf(v, isUInt64(v), asUInt64(v), 0, maxLargestUInt)
  /\ isConvertibleTo(v, "int") <=> (asInt(v)[1] = "ok")
  /\ isConvertibleTo(v, "uint") <=> (asUInt(v)[1] = "ok")

(* Integers.                                                               *)
LEMMA IntegerIntegrals ==
  ASSUME NEW v, type(v) \in {"int", "uint"}, v[2] \in Int
  PROVE  Integrals(v)
<1>1. /\ ConversionOf(v, isInt(v), asInt(v), minInt, maxInt) /\ (isInt(v) <=> (asInt(v)[1] = "ok"))
      /\ ConversionOf(v, isUInt(v), asUInt(v), 0, maxUInt) /\ (isUInt(v) <=> (asUInt(v)[1] = "ok"))
  BY IntegerConverts, Limits DEF isInt, asInt, isUInt, asUInt
<1>2. /\ ConversionOf(v, isInt64(v), asInt64(v), minLargestInt, maxLargestInt)
      /\ ConversionOf(v, isUInt64(v), asUInt64(v), 0, maxLargestUInt)
  BY IntegerConverts, Limits DEF isInt64, asInt64, isUInt64, asUInt64
<1>3. (isConvertibleTo(v, "int") <=> isInt(v)) /\ (isConvertibleTo(v, "uint") <=> isUInt(v))
  BY DEF isConvertibleTo
<1>4. QED
  BY <1>1, <1>2, <1>3 DEF Integrals

(* Finite doubles.                                                         *)
LEMMA DoubleIntegrals ==
  ASSUME NEW n \in Int
  PROVE  Integrals(Tenths(n))
<1> DEFINE v == Tenths(n)
<1>1. /\ ConversionOf(v, isInt(v), asInt(v), minInt, maxInt)
      /\ (isInt(v) \/ InRange(v, minInt, maxInt)) <=> (asInt(v)[1] = "ok")
  BY DoubleConverts, Limits DEF isInt, asInt
<1>2. /\ ConversionOf(v, isUInt(v), asUInt(v), 0, maxUInt)
      /\ (isUInt(v) \/ InRange(v, 0, maxUInt)) <=> (asUInt(v)[1] = "ok")
  BY DoubleConverts, Limits DEF isUInt, asUInt
<1>3. ConversionOf(v, isInt64(v), asInt64(v), minLargestInt, maxLargestInt)
  BY DoubleConverts, Limits DEF isInt64, asInt64
<1>4. ConversionOf(v, isUInt64(v), asUInt64(v), 0, maxLargestUInt)
  BY DoubleConverts, Limits DEF isUInt64, asUInt64
<1>5. type(v) = "real"
  BY DEF Tenths, type
<1>6. /\ isConvertibleTo(v, "int") <=> (isInt(v) \/ InRange(v, minInt, maxInt))
      /\ isConvertibleTo(v, "uint") <=> (isUInt(v) \/ InRange(v, 0, maxUInt))
  BY <1>5 DEF isConvertibleTo
<1>7. QED
  BY <1>1, <1>2, <1>3, <1>4, <1>6 DEF Integrals

(* Infinities and NaN.                                                     *)
LEMMA InfiniteIntegrals ==
  ASSUME NEW v, type(v) = "real", ~Finite(v)
  PROVE  Integrals(v)
<1>1. /\ ConversionOf(v, isInt(v), asInt(v), minInt, maxInt) /\ asInt(v) = Throws
      /\ ConversionOf(v, isUInt(v), asUInt(v), 0, maxUInt) /\ asUInt(v) = Throws
  BY InfiniteConverts DEF isInt, asInt, isUInt, asUInt
<1>2. /\ ConversionOf(v, isInt64(v), asInt64(v), minLargestInt, maxLargestInt)
      /\ ConversionOf(v, isUInt64(v), asUInt64(v), 0, maxLargestUInt)
  BY InfiniteConverts DEF isInt64, asInt64, isUInt64, asUInt64
<1>3. ~isConvertibleTo(v, "int") /\ ~isConvertibleTo(v, "uint")
  BY DEF isConvertibleTo, isInt, isUInt, Within, InRange
<1>4. QED
  BY <1>1, <1>2, <1>3 DEF Integrals, Throws

(* What is no number.                                                      *)
LEMMA OtherIntegrals ==
  ASSUME NEW v, ~isNumeric(v), type(v) = "bool" => v[2] \in BOOLEAN
  PROVE  Integrals(v)
<1>1. ~IsIntegral(v)
  BY DEF IsIntegral, Finite, isNumeric
<1>2. ~isInt(v) /\ ~isUInt(v) /\ ~isInt64(v) /\ ~isUInt64(v)
  BY <1>1 DEF isInt, isUInt, isInt64, isUInt64
<1>3. /\ ConversionOf(v, isInt(v), asInt(v), minInt, maxInt)
      /\ (asInt(v)[1] = "ok") <=> (type(v) \in {"null", "bool"})
      /\ ConversionOf(v, isUInt(v), asUInt(v), 0, maxUInt)
      /\ (asUInt(v)[1] = "ok") <=> (type(v) \in {"null", "bool"})
  BY <1>2, OthersConvert DEF asInt, asUInt
<1>4. /\ ConversionOf(v, isInt64(v), asInt64(v), minLargestInt, maxLargestInt)
      /\ ConversionOf(v, isUInt64(v), asUInt64(v), 0, maxLargestUInt)
  BY <1>2, OthersConvert DEF asInt64, asUInt64
<1>5. /\ isConvertibleTo(v, "int") <=> (type(v) \in {"null", "bool"})
      /\ isConvertibleTo(v, "uint") <=> (type(v) \in {"null", "bool"})
  BY <1>2 DEF isConvertibleTo, isNumeric
<1>6. QED
  BY <1>3, <1>4, <1>5 DEF Integrals

(* Truth values are no other payloads.                                     *)
LEMMA Truths ==
  /\ \A b \in BOOLEAN : Ok(b) = Ok(FALSE) <=> ~b
  /\ type(Bool(FALSE)) = "bool" /\ Bool(FALSE)[2] = FALSE
  /\ type(Bool(TRUE)) = "bool" /\ Bool(TRUE)[2] = TRUE
<1>1. Ok(TRUE) # Ok(FALSE)
  BY DEF Ok
<1>2. QED
  BY <1>1 DEF Bool, type

(* Numbers are false and convert to null when they are zero; NaN is false. *)
LEMMA NumbersAsBool ==
  ASSUME NEW v, isNumeric(v)
  PROVE  asBool(v) = Ok(FALSE) <=> (IsNaN(v) \/ (Finite(v) /\ InTenths(v) = 0))
<1> DEFINE b == ~IsNaN(v) /\ (Finite(v) => InTenths(v) # 0)
<1>1. asBool(v) = Ok(b)
  BY DEF asBool, isNumeric
<1>2. b \in BOOLEAN /\ (b <=> ~(IsNaN(v) \/ (Finite(v) /\ InTenths(v) = 0)))
  OBVIOUS
<1> HIDE DEF b
<1>3. QED
  BY <1>1, <1>2, Truths

(* A number converts to null exactly if asDouble gives zero.               *)
LEMMA NumbersAsNull ==
  ASSUME NEW v, isNumeric(v)
  PROVE  isConvertibleTo(v, "null") <=> asDouble(v) = Ok(<<"finite", 0>>)
<1>1. v # Bool(FALSE)
  BY Truths DEF isNumeric
<1>2. isConvertibleTo(v, "null") <=> asDouble(v) = Ok(Tenths(0)[2])
  BY <1>1 DEF isConvertibleTo, isNumeric, IsContainer
<1>3. Tenths(0)[2] = <<"finite", 0>>
  BY DEF Tenths
<1>4. QED
  BY <1>2, <1>3

(* asBool of what is no number.                                            *)
LEMMA OthersAsBool ==
  ASSUME NEW v, ~isNumeric(v), asBool(v) # Throws,
         type(v) = "bool" => v = Bool(TRUE) \/ v = Bool(FALSE)
  PROVE  asBool(v) = Ok(FALSE) <=> isConvertibleTo(v, "null")
<1>1. type(v) \in {"bool", "null"}
  BY DEF asBool
<1>2. isConvertibleTo(v, "null") <=> (type(v) = "null" \/ v = Bool(FALSE))
  BY <1>1 DEF isConvertibleTo, IsContainer, isNumeric
<1>3. CASE type(v) = "null"
  BY <1>2, <1>3 DEF asBool
<1>4. CASE type(v) = "bool"
  <2>1. asBool(v) = Ok(v[2])
    BY <1>4 DEF asBool
  <2>2. v = Bool(TRUE) \/ v = Bool(FALSE)
    BY <1>4
  <2>3. QED
    BY <2>1, <2>2, <1>2, <1>4, Truths
<1>5. QED
  BY <1>1, <1>3, <1>4

(* The payloads of the types of scalars.                                   *)
LEMMA Kinds ==
  ASSUME NEW v, IsScalar(v) \/ IsContainer(v)
  PROVE  /\ type(v) \in {"int", "uint"} => v[2] \in Int
         /\ type(v) = "bool" => v[2] \in BOOLEAN /\ (v = Bool(TRUE) \/ v = Bool(FALSE))
         /\ type(v) = "real" =>
              \/ \E n \in Int : v = Tenths(n)
              \/ /\ ~Finite(v) /\ v[2][1] \in {"negInf", "posInf", "nan"}
                 /\ v = <<"real", <<v[2][1], 0>>>>
<1>1. CASE IsContainer(v)
  BY <1>1 DEF IsContainer
<1>2. CASE IsScalar(v)
  <2>1. type(v) \in {"int", "uint"} => v[2] \in Int
    BY <1>2, Limits DEF IsScalar, Null, type
  <2>2. type(v) = "bool" => v[2] \in BOOLEAN /\ (v = Bool(TRUE) \/ v = Bool(FALSE))
    <3>1. type(v) = "bool" => v[2] \in BOOLEAN /\ v = <<"bool", v[2]>>
      BY <1>2 DEF IsScalar, Null, type
    <3>2. v = <<"bool", v[2]>> /\ v[2] \in BOOLEAN => v = Bool(TRUE) \/ v = Bool(FALSE)
      BY DEF Bool
    <3>3. QED
      BY <3>1, <3>2
  <2>3. ASSUME type(v) = "real"
        PROVE  v = <<"real", v[2]>> /\ IsReal(v[2])
    BY <1>2, <2>3 DEF IsScalar, Null, type
  <2>4. ASSUME type(v) = "real"
        PROVE  \/ \E n \in Int : v = Tenths(n)
               \/ /\ ~Finite(v) /\ v[2][1] \in {"negInf", "posInf", "nan"}
                  /\ v = <<"real", <<v[2][1], 0>>>>
    <3> DEFINE r == v[2]
    <3>1. v = <<"real", r>> /\ r = <<r[1], r[2]>>
      BY <2>3, <2>4 DEF IsReal
    <3>2. CASE r[1] = "finite" /\ r[2] \in Int
      <4>1. v = Tenths(r[2])
        BY <3>1, <3>2 DEF Tenths
      <4>2. QED
        BY <4>1, <3>2
    <3>3. CASE r[1] \in {"negInf", "posInf", "nan"} /\ r[2] = 0
      BY <3>1, <3>3, <2>4 DEF Finite
    <3>4. QED
      BY <3>2, <3>3, <2>3, <2>4 DEF IsReal
  <2>5. QED
    BY <2>1, <2>2, <2>4
<1>3. QED
  BY <1>1, <1>2

(* The conversions of every value, in every range of the three integer     *)
(* types.                                                                  *)
THEOREM ConversionsOfAll ==
  ASSUME NEW v, IsScalar(v) \/ IsContainer(v)
  PROVE  ConversionsAgree(v)
<1>0. /\ type(v) \in {"int", "uint"} => v[2] \in Int
      /\ type(v) = "bool" => v[2] \in BOOLEAN /\ (v = Bool(TRUE) \/ v = Bool(FALSE))
      /\ type(v) = "real" => (\E n \in Int : v = Tenths(n)) \/ ~Finite(v)
      /\ type(v) = "real" /\ ~(\E n \in Int : v = Tenths(n)) =>
           v[2][1] \in {"negInf", "posInf", "nan"} /\ v = <<"real", <<v[2][1], 0>>>>
  BY Kinds
<1>1. Integrals(v)
  <2>1. CASE type(v) \in {"int", "uint"}
    BY <1>0, <2>1, IntegerIntegrals
  <2>2. CASE type(v) = "real"
    BY <1>0, <2>2, DoubleIntegrals, InfiniteIntegrals
  <2>3. CASE ~isNumeric(v)
    BY <1>0, <2>3, OtherIntegrals
  <2>4. QED
    BY <2>1, <2>2, <2>3 DEF isNumeric
<1>2. isConvertibleTo(v, "string") <=> (asString(v) # Throws)
  BY DEF isConvertibleTo, asString, isNumeric, Ok, Throws
<1>3. isConvertibleTo(v, "bool") <=> (asBool(v) # Throws)
  BY DEF isConvertibleTo, asBool, isNumeric, Ok, Throws
<1>4. isConvertibleTo(v, "real") <=> (asDouble(v) # Throws)
  BY DEF isConvertibleTo, asDouble, isNumeric, Finite, Ok, Throws
<1>5. asBool(v) # Throws => ((asBool(v) = Ok(FALSE)) <=> (isConvertibleTo(v, "null") \/ IsNaN(v)))
  <2>1. CASE ~isNumeric(v)
    <3>1. ~IsNaN(v)
      BY <2>1 DEF IsNaN, NaN, isNumeric, type
    <3>2. QED
      BY <2>1, <3>1, <1>0, OthersAsBool
  <2> DEFINE null == isConvertibleTo(v, "null")
             zero == IsNaN(v) \/ (Finite(v) /\ InTenths(v) = 0)
  <2>5. ASSUME isNumeric(v)
        PROVE  /\ asBool(v) = Ok(FALSE) <=> zero
               /\ null <=> asDouble(v) = Ok(<<"finite", 0>>)
    BY <2>5, NumbersAsBool, NumbersAsNull
  <2>2. CASE type(v) \in {"int", "uint"}
    <3>1. v[2] \in Int /\ InTenths(v) = 10 * v[2] /\ Finite(v) /\ ~IsNaN(v)
      BY <2>2, <1>0 DEF InTenths, Finite, IsNaN, NaN, type
    <3>2. asDouble(v) = Ok(<<"finite", 10 * v[2]>>)
      BY <3>1 DEF asDouble, Tenths, Finite
    <3>3. asDouble(v) = Ok(<<"finite", 0>>) <=> v[2] = 0
      BY <3>1, <3>2 DEF Ok
    <3>4. isNumeric(v)
      BY <2>2 DEF isNumeric
    <3>5. (null <=> v[2] = 0) /\ (zero <=> v[2] = 0)
      BY <2>5, <3>1, <3>3, <3>4
    <3>6. QED
      BY <2>5, <3>1, <3>4, <3>5
  <2>3. CASE type(v) = "real"
    <3>1. CASE \E n \in Int : v = Tenths(n)
      <4>1. PICK n \in Int : v = Tenths(n)
        BY <3>1
      <4>2. InTenths(v) = n /\ Finite(v) /\ ~IsNaN(v)
        BY <4>1 DEF Tenths, InTenths, Finite, IsNaN, NaN, type
      <4>3. asDouble(v) = Ok(<<"finite", n>>)
        BY <4>2 DEF asDouble, Tenths, Finite
      <4>4. asDouble(v) = Ok(<<"finite", 0>>) <=> n = 0
        BY <4>3 DEF Ok
      <4>5. isNumeric(v)
        BY <2>3 DEF isNumeric
      <4>6. (null <=> n = 0) /\ (zero <=> n = 0)
        BY <2>5, <4>2, <4>4, <4>5
      <4>7. QED
        BY <2>5, <4>2, <4>5, <4>6
    <3>2. CASE ~Finite(v) /\ v = <<"real", <<v[2][1], 0>>>> /\ v[2][1] # "finite"
      <4>1. asDouble(v) = Ok(v[2])
        BY <2>3, <3>2 DEF asDouble, Finite
      <4>2. asDouble(v) # Ok(<<"finite", 0>>)
        BY <4>1, <3>2 DEF Ok
      <4>3. QED
        BY <2>3, <2>5, <3>2, <4>2 DEF isNumeric
    <3>3. QED
      BY <2>3, <3>1, <3>2, <1>0
  <2>4. QED
    BY <2>1, <2>2, <2>3 DEF isNumeric
<1>6. QED
  BY <1>1, <1>2, <1>3, <1>4, <1>5 DEF ConversionsAgree, Integrals

(* Whatever values are examined, their conversions agree.                  *)
THEOREM ExaminedConvert == Conversions
  BY ConversionsOfAll, ExaminedAssumption DEF Conversions

-----------------------------------------------------------------------------
(* The order of values.                                                    *)

(* A set of naturals that is not empty has a least one.                    *)
LEMMA Least ==
  ASSUME NEW T, T \subseteq Nat, T # {}
  PROVE  \E n \in T : \A m \in T : n <= m
<1> DEFINE R == OpToRel(<, Nat)
<1>1. IsWellFoundedOn(R, Nat)
  BY NatLessThanWellFounded
<1>2. \A m, n \in Nat : m < n => <<m, n>> \in R
  BY DEF OpToRel
<1> HIDE DEF R
<1>3. PICK n \in T : \A m \in T : ~ (<<m, n>> \in R)
  BY <1>1, WFMin
<1>4. \A m \in T : ~(m < n)
  BY <1>2, <1>3, Zenon
<1>5. QED
  BY <1>4

(* less orders V strictly and weakly, equal are those it cannot tell apart.*)
StrictlyOrdered(V, less(_, _), equal(_, _)) ==
  \A v, w \in V :
    /\ ~(less(v, w) /\ less(w, v))
    /\ (~less(v, w) /\ ~less(w, v)) <=> equal(v, w)
    /\ \A x \in V : /\ less(v, w) /\ less(w, x) => less(v, x)
                    /\ equal(v, w) /\ equal(w, x) => equal(v, x)

Same(a, b) == a = b

-----------------------------------------------------------------------------
(* Names, and the keys of arrays.                                          *)
Key == Seq(Nat)

(* k is where it is decided that s comes before t.                         *)
Decides(k, s, t) ==
  /\ k \in 1 .. Len(t) /\ k <= Len(s) + 1
  /\ \A j \in 1 .. k - 1 : s[j] = t[j]
  /\ k <= Len(s) => s[k] < t[k]

(* One string comes before another exactly if a position decides it.       *)
LEMMA Decided ==
  ASSUME NEW s \in Key, NEW t \in Key
  PROVE  BytesLess(s, t) <=> \E k \in Nat : Decides(k, s, t)
<1>1. DOMAIN s = 1 .. Len(s) /\ DOMAIN t = 1 .. Len(t) /\ Len(s) \in Nat /\ Len(t) \in Nat
  BY DEF Key
<1>2. ASSUME NEW k \in DOMAIN s \cap DOMAIN t, s[k] < t[k], \A j \in 1 .. k - 1 : s[j] = t[j]
      PROVE  k \in Nat /\ Decides(k, s, t)
  BY <1>1, <1>2 DEF Decides
<1>3. ASSUME Len(s) < Len(t), \A k \in DOMAIN s : s[k] = t[k]
      PROVE  Decides(Len(s) + 1, s, t)
  BY <1>1, <1>3 DEF Decides
<1>4. ASSUME NEW k \in Nat, Decides(k, s, t)
      PROVE  BytesLess(s, t)
  <2>1. CASE k <= Len(s)
    <3>1. k \in DOMAIN s \cap DOMAIN t /\ s[k] < t[k] /\ \A j \in 1 .. k - 1 : s[j] = t[j]
      BY <1>1, <1>4, <2>1 DEF Decides
    <3>2. QED
      BY <3>1 DEF BytesLess
  <2>2. CASE k = Len(s) + 1
    <3>1. Len(s) < Len(t) /\ \A j \in DOMAIN s : s[j] = t[j]
      BY <1>1, <1>4, <2>2 DEF Decides
    <3>2. QED
      BY <3>1 DEF BytesLess
  <2>3. QED
    BY <1>1, <1>4, <2>1, <2>2 DEF Decides
<1>5. QED
  BY <1>1, <1>2, <1>3, <1>4 DEF BytesLess

(* No string comes before itself.                                          *)
LEMMA NotBeforeItself ==
  ASSUME NEW s \in Key
  PROVE  ~BytesLess(s, s)
<1>1. Len(s) \in Nat /\ \A k \in 1 .. Len(s) : s[k] \in Nat
  BY DEF Key
<1>2. ASSUME NEW k \in Nat, Decides(k, s, s) PROVE FALSE
  BY <1>1, <1>2 DEF Decides
<1>3. QED
  BY <1>2, Decided

(* The order of strings is transitive.                                     *)
LEMMA KeysTransitive ==
  ASSUME NEW s \in Key, NEW t \in Key, NEW u \in Key, BytesLess(s, t), BytesLess(t, u)
  PROVE  BytesLess(s, u)
<1>1. /\ Len(s) \in Nat /\ Len(t) \in Nat /\ Len(u) \in Nat
      /\ \A k \in 1 .. Len(s) : s[k] \in Nat
      /\ \A k \in 1 .. Len(t) : t[k] \in Nat
      /\ \A k \in 1 .. Len(u) : u[k] \in Nat
  BY DEF Key
<1>2. PICK k \in Nat : Decides(k, s, t)
  BY Decided
<1>3. PICK l \in Nat : Decides(l, t, u)
  BY Decided
<1> DEFINE m == IF k <= l THEN k ELSE l
<1>4. \A j \in 1 .. m - 1 : s[j] = u[j]
  BY <1>2, <1>3 DEF Decides
<1>5. m \in Nat /\ m \in 1 .. Len(u) /\ m <= Len(s) + 1
  BY <1>1, <1>2, <1>3 DEF Decides
<1>6. m <= Len(s) => s[m] < u[m]
  <2>1. CASE k < l
    <3>1. t[k] = u[k]
      BY <1>2, <1>3, <2>1 DEF Decides
    <3>2. QED
      BY <1>2, <2>1, <3>1 DEF Decides
  <2>2. CASE k = l
    BY <1>1, <1>2, <1>3, <2>2 DEF Decides
  <2>3. CASE k > l
    <3>1. s[l] = t[l] /\ l <= Len(t)
      BY <1>1, <1>2, <1>3, <2>3 DEF Decides
    <3>2. QED
      BY <1>3, <2>3, <3>1 DEF Decides
  <2>4. QED
    BY <2>1, <2>2, <2>3
<1>7. Decides(m, s, u)
  BY <1>4, <1>5, <1>6 DEF Decides
<1>8. QED
  BY <1>5, <1>7, Decided

(* Of two strings that differ, exactly one comes first.                    *)
LEMMA KeysTotal ==
  ASSUME NEW s \in Key, NEW t \in Key, ~BytesLess(s, t), ~BytesLess(t, s)
  PROVE  s = t
<1>1. /\ Len(s) \in Nat /\ Len(t) \in Nat
      /\ \A k \in 1 .. Len(s) : s[k] \in Nat
      /\ \A k \in 1 .. Len(t) : t[k] \in Nat
  BY DEF Key
<1> DEFINE Ends(k) == k > Len(s) \/ k > Len(t)
           D == {k \in Nat : k >= 1 /\ (Ends(k) \/ s[k] # t[k])}
<1>2. PICK k \in D : \A m \in D : k <= m
  <2>1. Len(s) + 1 \in D
    BY <1>1
  <2>2. D \subseteq Nat
    OBVIOUS
  <2>3. QED
    BY <2>1, <2>2, Least
<1>3. \A j \in 1 .. k - 1 : j \notin D
  BY <1>2
<1>4. \A j \in 1 .. k - 1 : s[j] = t[j] /\ j <= Len(s) /\ j <= Len(t)
  BY <1>1, <1>3
<1>5. k <= Len(s) + 1 /\ k <= Len(t) + 1
  BY <1>1, <1>4
<1>6. CASE k > Len(s) /\ k > Len(t)
  <2>1. Len(s) = Len(t) /\ \A j \in 1 .. Len(s) : s[j] = t[j]
    BY <1>1, <1>4, <1>5, <1>6
  <2>2. QED
    BY <2>1, SeqEqual DEF Key
<1>7. CASE k <= Len(t) /\ (k > Len(s) \/ s[k] < t[k])
  <2>1. Decides(k, s, t)
    BY <1>1, <1>4, <1>5, <1>7 DEF Decides
  <2>2. QED
    BY <2>1, Decided
<1>8. CASE k <= Len(s) /\ (k > Len(t) \/ t[k] < s[k])
  <2>1. Decides(k, t, s)
    BY <1>1, <1>4, <1>5, <1>8 DEF Decides
  <2>2. QED
    BY <2>1, Decided
<1>9. QED
  BY <1>1, <1>2, <1>6, <1>7, <1>8

(* The names of members are ordered strictly, and all of them.             *)
THEOREM KeysOrdered == StrictlyOrdered(Key, BytesLess, Same)
  BY NotBeforeItself, KeysTransitive, KeysTotal DEF StrictlyOrdered, Same

-----------------------------------------------------------------------------
(* Scalars of one type.                                                    *)
LEMMA RealsOrdered ==
  ASSUME NEW V, \A r \in V : IsReal(r) /\ r[1] # "nan"
  PROVE  StrictlyOrdered(V, RealLess, Same)
<1>1. ASSUME NEW r \in V, NEW s \in V
      PROVE  /\ ~(RealLess(r, s) /\ RealLess(s, r))
             /\ (~RealLess(r, s) /\ ~RealLess(s, r)) <=> r = s
  BY DEF IsReal, RealLess
<1>2. ASSUME NEW r \in V, NEW s \in V, NEW t \in V, RealLess(r, s), RealLess(s, t)
      PROVE  RealLess(r, t)
  BY <1>2 DEF IsReal, RealLess
<1>3. QED
  BY <1>1, <1>2 DEF StrictlyOrdered, Same

(* Names are keys.                                                         *)
LEMMA BytesAreKeys == \A b \in Bytes : b \in Key
<1>1. ASSUME NEW b \in Bytes
      PROVE  b \in Key
  <2> DEFINE Octets == 0 .. 255
  <2>1. Octets \subseteq Nat
    OBVIOUS
  <2> HIDE DEF Octets
  <2>2. PICK n \in Nat : b \in [1 .. n -> Octets]
    <3>1. b \in Seq(Octets)
      BY DEF Bytes, Octets
    <3>2. Seq(Octets) = UNION {[1 .. n -> Octets] : n \in Nat}
      BY SeqDef, Zenon
    <3>3. QED
      BY <3>1, <3>2
  <2>3. b \in [1 .. n -> Nat]
    BY <2>1, <2>2
  <2>4. QED
    BY <2>3, SeqDef DEF Key
<1>2. QED
  BY <1>1

(* The payloads of scalars, for comparison.                                *)
LEMMA ScalarShape ==
  ASSUME NEW v, IsScalar(v)
  PROVE  /\ v = <<type(v), v[2]>> /\ type(v) \in {"null", "int", "uint", "real", "string", "bool"}
         /\ type(v) = "null" => v = Null
         /\ type(v) \in {"int", "uint"} => v[2] \in Int
         /\ type(v) = "real" => IsReal(v[2])
         /\ type(v) = "string" => v[2] \in Key
         /\ type(v) = "bool" => v[2] \in BOOLEAN
<1>1. \A b \in Bytes : b \in Key
  BY BytesAreKeys
<1>2. minLargestInt \in Int /\ maxLargestInt \in Int /\ maxLargestUInt \in Int
  BY LimitsAssumption DEF minLargestInt
<1>3. QED
  BY <1>1, <1>2 DEF IsScalar, Null, type

(* Scalars of one type without NaN are ordered.                            *)
LEMMA ScalarsOrdered ==
  ASSUME NEW V, NEW t, \A v \in V : IsScalar(v) /\ type(v) = t /\ ~IsNaN(v)
  PROVE  StrictlyOrdered(V, ScalarLess, ScalarEqual)
<1>1. \A v, w \in V : ScalarEqual(v, w) <=> v = w
  BY DEF ScalarEqual
<1>2. \A v, w \in V : v = w <=> v[2] = w[2]
  BY ScalarShape
<1>3. CASE t = "null"
  <2>1. \A v, w \in V : ~ScalarLess(v, w) /\ v = w
    BY <1>3, ScalarShape DEF ScalarLess
  <2>2. QED
    BY <2>1, <1>1 DEF StrictlyOrdered
<1>4. CASE t \in {"int", "uint"}
  <2>1. \A v, w \in V : (ScalarLess(v, w) <=> v[2] < w[2]) /\ v[2] \in Int
    BY <1>4, ScalarShape DEF ScalarLess
  <2>2. QED
    BY <2>1, <1>1, <1>2 DEF StrictlyOrdered
<1>5. CASE t = "bool"
  <2>1. \A v, w \in V : (ScalarLess(v, w) <=> (~v[2] /\ w[2])) /\ v[2] \in BOOLEAN
    BY <1>5, ScalarShape DEF ScalarLess
  <2>2. QED
    BY <2>1, <1>1, <1>2 DEF StrictlyOrdered
<1>6. CASE t = "real"
  <2> DEFINE R == {v[2] : v \in V}
  <2>1. \A r \in R : IsReal(r) /\ r[1] # "nan"
    <3>1. ASSUME NEW v \in V
          PROVE  IsReal(v[2]) /\ v[2][1] # "nan"
      <4>1. v = <<"real", v[2]>> /\ IsReal(v[2]) /\ v # <<"real", <<"nan", 0>>>>
        BY <1>6, ScalarShape DEF IsNaN, NaN
      <4>2. QED
        BY <4>1 DEF IsReal
    <3>2. QED
      BY <3>1
  <2>2. StrictlyOrdered(R, RealLess, Same)
    BY <2>1, RealsOrdered
  <2>3. \A v, w \in V : ScalarLess(v, w) <=> RealLess(v[2], w[2])
    BY <1>6 DEF ScalarLess
  <2>4. QED
    BY <2>2, <2>3, <1>1, <1>2 DEF StrictlyOrdered, Same
<1>7. CASE t = "string"
  <2>1. \A v, w \in V : (ScalarLess(v, w) <=> BytesLess(v[2], w[2])) /\ v[2] \in Key
    BY <1>7, ScalarShape DEF ScalarLess
  <2>2. QED
    BY <2>1, <1>1, <1>2, KeysOrdered DEF StrictlyOrdered, Same
<1>8. CASE V = {}
  BY <1>8 DEF StrictlyOrdered
<1>9. QED
  BY <1>3, <1>4, <1>5, <1>6, <1>7, <1>8, ScalarShape

-----------------------------------------------------------------------------
(* Sequences, the first pair that differs decides.                         *)
Lex(s, t, L) ==
  IF Len(s) # Len(t) THEN Len(s) < Len(t)
  ELSE \E k \in DOMAIN s :
         /\ <<s[k], t[k]>> \in L
         /\ \A j \in 1 .. k - 1 : <<s[j], t[j]>> \notin L /\ <<t[j], s[j]>> \notin L
LexEqual(s, t, Q) == Len(s) = Len(t) /\ \A k \in DOMAIN s : <<s[k], t[k]>> \in Q

Ordering(P, L, Q) ==
  \A a, b \in P :
    /\ ~(<<a, b>> \in L /\ <<b, a>> \in L)
    /\ (<<a, b>> \notin L /\ <<b, a>> \notin L) <=> <<a, b>> \in Q
    /\ \A c \in P : /\ <<a, b>> \in L /\ <<b, c>> \in L => <<a, c>> \in L
                    /\ <<a, b>> \in Q /\ <<b, c>> \in Q => <<a, c>> \in Q

(* What is equal may take the place of one side.                           *)
LEMMA Mixed ==
  ASSUME NEW P, NEW L, NEW Q, Ordering(P, L, Q), NEW a \in P, NEW b \in P, NEW c \in P
  PROVE  /\ <<a, b>> \in L /\ <<b, c>> \in Q => <<a, c>> \in L
         /\ <<a, b>> \in Q /\ <<b, c>> \in L => <<a, c>> \in L
  BY DEF Ordering

(* Both are transitive.                                                    *)
LEMMA LexTransitive ==
  ASSUME NEW P, NEW L, NEW Q, Ordering(P, L, Q),
         NEW s \in Seq(P), NEW t \in Seq(P), NEW u \in Seq(P), Lex(s, t, L), Lex(t, u, L)
  PROVE  Lex(s, u, L)
<1>1. /\ Len(s) \in Nat /\ Len(t) \in Nat /\ Len(u) \in Nat
      /\ DOMAIN s = 1 .. Len(s) /\ DOMAIN t = 1 .. Len(t) /\ DOMAIN u = 1 .. Len(u)
      /\ \A k \in 1 .. Len(s) : s[k] \in P
      /\ \A k \in 1 .. Len(t) : t[k] \in P
      /\ \A k \in 1 .. Len(u) : u[k] \in P
  OBVIOUS
<1>2. CASE Len(s) # Len(t) \/ Len(t) # Len(u)
  <2>1. (Len(s) = Len(t) \/ Len(s) < Len(t)) /\ (Len(t) = Len(u) \/ Len(t) < Len(u))
    BY Zenon DEF Lex
  <2>2. Len(s) \in Nat /\ Len(t) \in Nat /\ Len(u) \in Nat
    BY <1>1
  <2>3. Len(s) < Len(u) /\ Len(s) # Len(u)
    BY <1>2, <2>1, <2>2
  <2>4. QED
    BY <2>3, Zenon DEF Lex
<1>3. CASE Len(s) = Len(t) /\ Len(t) = Len(u)
  <2>1. PICK k \in 1 .. Len(s) :
          /\ <<s[k], t[k]>> \in L
          /\ \A j \in 1 .. k - 1 : <<s[j], t[j]>> \notin L /\ <<t[j], s[j]>> \notin L
    BY <1>1, <1>3 DEF Lex
  <2>2. PICK l \in 1 .. Len(s) :
          /\ <<t[l], u[l]>> \in L
          /\ \A j \in 1 .. l - 1 : <<t[j], u[j]>> \notin L /\ <<u[j], t[j]>> \notin L
    BY <1>1, <1>3 DEF Lex
  <2>3. \A j \in 1 .. k - 1 : <<s[j], t[j]>> \in Q
    <3>1. ASSUME NEW j \in 1 .. k - 1
          PROVE  <<s[j], t[j]>> \in Q
      <4>1. s[j] \in P /\ t[j] \in P /\ <<s[j], t[j]>> \notin L /\ <<t[j], s[j]>> \notin L
        BY <1>1, <1>3, <2>1
      <4>2. QED
        BY <4>1 DEF Ordering
    <3>2. QED
      BY <3>1
  <2>4. \A j \in 1 .. l - 1 : <<t[j], u[j]>> \in Q
    <3>1. ASSUME NEW j \in 1 .. l - 1
          PROVE  <<t[j], u[j]>> \in Q
      <4>1. t[j] \in P /\ u[j] \in P /\ <<t[j], u[j]>> \notin L /\ <<u[j], t[j]>> \notin L
        BY <1>1, <1>3, <2>2
      <4>2. QED
        BY <4>1 DEF Ordering
    <3>2. QED
      BY <3>1
  <2> DEFINE m == IF k <= l THEN k ELSE l
  <2>5. m \in 1 .. Len(s) /\ m <= k /\ m <= l
    OBVIOUS
  <2>6. <<s[m], u[m]>> \in L
    <3>1. CASE k < l
      <4>1. <<t[k], u[k]>> \in Q
        BY <2>4, <3>1
      <4>2. QED
        BY <1>1, <1>3, <2>1, <3>1, <4>1, Mixed
    <3>2. CASE k = l
      BY <1>1, <1>3, <2>1, <2>2, <3>2 DEF Ordering
    <3>3. CASE k > l
      <4>1. <<s[l], t[l]>> \in Q
        BY <2>3, <3>3
      <4>2. QED
        BY <1>1, <1>3, <2>2, <3>3, <4>1, Mixed
    <3>4. QED
      BY <3>1, <3>2, <3>3
  <2>7. \A j \in 1 .. m - 1 : <<s[j], u[j]>> \notin L /\ <<u[j], s[j]>> \notin L
    <3>1. ASSUME NEW j \in 1 .. m - 1
          PROVE  <<s[j], u[j]>> \notin L /\ <<u[j], s[j]>> \notin L
      <4>1. j \in 1 .. k - 1 /\ j \in 1 .. l - 1 /\ j \in 1 .. Len(s)
        BY <2>5
      <4>2. <<s[j], t[j]>> \in Q /\ <<t[j], u[j]>> \in Q /\ s[j] \in P /\ t[j] \in P /\ u[j] \in P
        BY <1>1, <1>3, <2>3, <2>4, <4>1
      <4>3. QED
        BY <4>2 DEF Ordering
    <3>2. QED
      BY <3>1
  <2>8. QED
    BY <1>1, <1>3, <2>5, <2>6, <2>7 DEF Lex
<1>4. QED
  BY <1>2, <1>3

(* No two sequences come before each other, and neither does if all pairs  *)
(* are equal.                                                              *)
LEMMA LexEqualWhen ==
  ASSUME NEW P, NEW L, NEW Q, Ordering(P, L, Q), NEW s \in Seq(P), NEW t \in Seq(P)
  PROVE  /\ ~(Lex(s, t, L) /\ Lex(t, s, L))
         /\ (~Lex(s, t, L) /\ ~Lex(t, s, L)) <=> LexEqual(s, t, Q)
<1>1. /\ Len(s) \in Nat /\ Len(t) \in Nat
      /\ DOMAIN s = 1 .. Len(s) /\ DOMAIN t = 1 .. Len(t)
      /\ \A k \in 1 .. Len(s) : s[k] \in P
      /\ \A k \in 1 .. Len(t) : t[k] \in P
  OBVIOUS
<1>2. CASE Len(s) # Len(t)
  <2>1. (Lex(s, t, L) <=> Len(s) < Len(t)) /\ (Lex(t, s, L) <=> Len(t) < Len(s)) /\ ~LexEqual(s, t, Q)
    BY <1>2 DEF Lex, LexEqual
  <2>2. Len(s) \in Nat /\ Len(t) \in Nat
    BY <1>1
  <2>3. QED
    BY <1>2, <2>1, <2>2
<1>3. CASE Len(s) = Len(t)
  <2>1. ~(Lex(s, t, L) /\ Lex(t, s, L))
    <3>1. SUFFICES ASSUME Lex(s, t, L), Lex(t, s, L) PROVE FALSE
      OBVIOUS
    <3>2. PICK k \in 1 .. Len(s) :
            /\ <<s[k], t[k]>> \in L
            /\ \A j \in 1 .. k - 1 : <<s[j], t[j]>> \notin L /\ <<t[j], s[j]>> \notin L
      BY <1>1, <1>3, <3>1 DEF Lex
    <3>3. PICK l \in 1 .. Len(s) :
            /\ <<t[l], s[l]>> \in L
            /\ \A j \in 1 .. l - 1 : <<t[j], s[j]>> \notin L /\ <<s[j], t[j]>> \notin L
      BY <1>1, <1>3, <3>1 DEF Lex
    <3>4. ~(k < l)
      <4>1. k < l => k \in 1 .. l - 1
        OBVIOUS
      <4>2. QED
        BY <4>1, <3>2, <3>3
    <3>5. ~(l < k)
      <4>1. l < k => l \in 1 .. k - 1
        OBVIOUS
      <4>2. QED
        BY <4>1, <3>2, <3>3
    <3>6. k = l
      BY <3>4, <3>5
    <3>7. QED
      BY <1>1, <1>3, <3>2, <3>3, <3>6 DEF Ordering
  <2>2. ASSUME LexEqual(s, t, Q)
        PROVE  ~Lex(s, t, L) /\ ~Lex(t, s, L)
    <3>1. \A k \in 1 .. Len(s) : <<s[k], t[k]>> \notin L /\ <<t[k], s[k]>> \notin L
      BY <1>1, <1>3, <2>2 DEF LexEqual, Ordering
    <3>2. QED
      BY <1>1, <1>3, <3>1 DEF Lex
  <2>3. ASSUME ~LexEqual(s, t, Q)
        PROVE  Lex(s, t, L) \/ Lex(t, s, L)
    <3> DEFINE D == {k \in 1 .. Len(s) : <<s[k], t[k]>> \notin Q}
    <3>1. PICK k \in D : \A m \in D : k <= m
      <4>1. D # {} /\ D \subseteq Nat
        <5>1. \E k \in 1 .. Len(s) : <<s[k], t[k]>> \notin Q
          BY <1>1, <1>3, <2>3, Zenon DEF LexEqual
        <5>2. 1 .. Len(s) \subseteq Nat
          OBVIOUS
        <5>3. QED
          BY <5>1, <5>2
      <4>2. QED
        BY <4>1, Least
    <3>2. \A j \in 1 .. k - 1 : j \in 1 .. Len(s) /\ j \notin D
      BY <3>1, <1>1
    <3>3. \A j \in 1 .. k - 1 : <<s[j], t[j]>> \notin L /\ <<t[j], s[j]>> \notin L
      BY <1>1, <1>3, <3>2 DEF Ordering
    <3>4. <<s[k], t[k]>> \in L \/ <<t[k], s[k]>> \in L
      BY <1>1, <1>3, <3>1 DEF Ordering
    <3>5. QED
      BY <1>1, <1>3, <3>1, <3>3, <3>4 DEF Lex
  <2>4. QED
    BY <2>1, <2>2, <2>3
<1>4. QED
  BY <1>2, <1>3

(* Equality of sequences is transitive.                                    *)
LEMMA LexEqualTransitive ==
  ASSUME NEW P, NEW L, NEW Q, Ordering(P, L, Q),
         NEW s \in Seq(P), NEW t \in Seq(P), NEW u \in Seq(P), LexEqual(s, t, Q), LexEqual(t, u, Q)
  PROVE  LexEqual(s, u, Q)
<1>1. /\ Len(s) \in Nat /\ Len(t) = Len(s) /\ Len(u) = Len(s)
      /\ DOMAIN s = 1 .. Len(s) /\ DOMAIN t = 1 .. Len(s)
      /\ \A k \in 1 .. Len(s) : s[k] \in P /\ t[k] \in P /\ u[k] \in P
  BY DEF LexEqual
<1>2. \A k \in 1 .. Len(s) : <<s[k], t[k]>> \in Q /\ <<t[k], u[k]>> \in Q
  BY <1>1 DEF LexEqual
<1>3. QED
  BY <1>1, <1>2 DEF LexEqual, Ordering

-----------------------------------------------------------------------------
(* The pairs of two containers.                                            *)
PairBefore(p, q, L) ==
  BytesLess(p[1], q[1]) \/ (~BytesLess(q[1], p[1]) /\ <<p[2], q[2]>> \in L)

(* If elements are ordered, pairs of a key and an element are.             *)
LEMMA PairsOrdered ==
  ASSUME NEW V, NEW L, NEW Q, Ordering(V, L, Q), NEW PL, NEW PQ,
         \A p, q \in Key \X V :
           /\ <<p, q>> \in PL <=> PairBefore(p, q, L)
           /\ <<p, q>> \in PQ <=> p[1] = q[1] /\ <<p[2], q[2]>> \in Q
  PROVE  Ordering(Key \X V, PL, PQ)
<1>1. \A k, l, m \in Key :
        /\ ~(BytesLess(k, l) /\ BytesLess(l, k))
        /\ ~BytesLess(k, l) /\ ~BytesLess(l, k) <=> k = l
        /\ BytesLess(k, l) /\ BytesLess(l, m) => BytesLess(k, m)
  BY KeysOrdered DEF StrictlyOrdered, Same
<1>2. \A p, q \in Key \X V :
        <<p, q>> \in PL <=> BytesLess(p[1], q[1]) \/ (p[1] = q[1] /\ <<p[2], q[2]>> \in L)
  <2>1. ASSUME NEW p \in Key \X V, NEW q \in Key \X V
        PROVE  <<p, q>> \in PL <=> BytesLess(p[1], q[1]) \/ (p[1] = q[1] /\ <<p[2], q[2]>> \in L)
    <3>1. <<p, q>> \in PL
            <=> BytesLess(p[1], q[1]) \/ (~BytesLess(q[1], p[1]) /\ <<p[2], q[2]>> \in L)
      BY DEF PairBefore
    <3>2. p[1] \in Key /\ q[1] \in Key
      OBVIOUS
    <3>3. QED
      BY <1>1, <3>1, <3>2
  <2>2. QED
    BY <2>1
<1>3. \A p \in Key \X V : p[1] \in Key /\ p[2] \in V
  OBVIOUS
<1>4. ASSUME NEW p \in Key \X V, NEW q \in Key \X V
      PROVE  /\ ~(<<p, q>> \in PL /\ <<q, p>> \in PL)
             /\ (<<p, q>> \notin PL /\ <<q, p>> \notin PL) <=> <<p, q>> \in PQ
  <2>1. p[1] \in Key /\ p[2] \in V /\ q[1] \in Key /\ q[2] \in V
    BY <1>3
  <2>2. /\ ~(BytesLess(p[1], q[1]) /\ BytesLess(q[1], p[1]))
        /\ ~BytesLess(p[1], q[1]) /\ ~BytesLess(q[1], p[1]) <=> p[1] = q[1]
    BY <1>1, <2>1
  <2>3. /\ ~(<<p[2], q[2]>> \in L /\ <<q[2], p[2]>> \in L)
        /\ (<<p[2], q[2]>> \notin L /\ <<q[2], p[2]>> \notin L) <=> <<p[2], q[2]>> \in Q
    BY <2>1 DEF Ordering
  <2>4. QED
    BY <1>2, <2>2, <2>3
<1>5. ASSUME NEW p \in Key \X V, NEW q \in Key \X V, NEW r \in Key \X V
      PROVE  /\ <<p, q>> \in PL /\ <<q, r>> \in PL => <<p, r>> \in PL
             /\ <<p, q>> \in PQ /\ <<q, r>> \in PQ => <<p, r>> \in PQ
  <2>1. p[1] \in Key /\ p[2] \in V /\ q[1] \in Key /\ q[2] \in V /\ r[1] \in Key /\ r[2] \in V
    BY <1>3
  <2>2. BytesLess(p[1], q[1]) /\ BytesLess(q[1], r[1]) => BytesLess(p[1], r[1])
    BY <1>1, <2>1
  <2>3. /\ <<p[2], q[2]>> \in L /\ <<q[2], r[2]>> \in L => <<p[2], r[2]>> \in L
        /\ <<p[2], q[2]>> \in Q /\ <<q[2], r[2]>> \in Q => <<p[2], r[2]>> \in Q
    <3> DEFINE a == p[2]
               b == q[2]
               c == r[2]
    <3>1. a \in V /\ b \in V /\ c \in V
      BY <2>1
    <3> HIDE DEF a, b, c
    <3>2. /\ <<a, b>> \in L /\ <<b, c>> \in L => <<a, c>> \in L
          /\ <<a, b>> \in Q /\ <<b, c>> \in Q => <<a, c>> \in Q
      BY <3>1 DEF Ordering
    <3>3. QED
      BY <3>2 DEF a, b, c
  <2>4. <<p, q>> \in PQ /\ <<q, r>> \in PQ => <<p, r>> \in PQ
    BY <2>3
  <2>5. <<p, q>> \in PL /\ <<q, r>> \in PL => <<p, r>> \in PL
    BY <1>2, <2>2, <2>3
  <2>6. QED
    BY <2>4, <2>5
<1> DEFINE P == Key \X V
<1>6. /\ \A p, q \in P :
           /\ ~(<<p, q>> \in PL /\ <<q, p>> \in PL)
           /\ (<<p, q>> \notin PL /\ <<q, p>> \notin PL) <=> <<p, q>> \in PQ
      /\ \A p, q, r \in P :
           /\ <<p, q>> \in PL /\ <<q, r>> \in PL => <<p, r>> \in PL
           /\ <<p, q>> \in PQ /\ <<q, r>> \in PQ => <<p, r>> \in PQ
  BY <1>4, <1>5
<1> HIDE DEF P
<1>7. Ordering(P, PL, PQ)
  <2>1. ASSUME NEW a \in P, NEW b \in P
        PROVE  /\ ~(<<a, b>> \in PL /\ <<b, a>> \in PL)
               /\ (<<a, b>> \notin PL /\ <<b, a>> \notin PL) <=> <<a, b>> \in PQ
               /\ \A c \in P :
                    /\ <<a, b>> \in PL /\ <<b, c>> \in PL => <<a, c>> \in PL
                    /\ <<a, b>> \in PQ /\ <<b, c>> \in PQ => <<a, c>> \in PQ
    BY <1>6
  <2>2. QED
    BY <2>1 DEF Ordering
<1>8. QED
  BY <1>7 DEF P

ContainerLessIn(s, t, L) == ContainerLess(s, t, LAMBDA a, b : <<a, b>> \in L)
ContainerEqualIn(s, t, Q) == ContainerEqual(s, t, LAMBDA a, b : <<a, b>> \in Q)

PairsBy(V, L, Q, PL, PQ) ==
  \A p, q \in Key \X V : /\ <<p, q>> \in PL <=> PairBefore(p, q, L)
                         /\ <<p, q>> \in PQ <=> p[1] = q[1] /\ <<p[2], q[2]>> \in Q

(* Comparing two containers is comparing the sequences of their pairs.     *)
LEMMA ContainersAsLex ==
  ASSUME NEW V, NEW L, NEW Q, NEW PL, NEW PQ, PairsBy(V, L, Q, PL, PQ),
         NEW s \in Seq(Key \X V), NEW t \in Seq(Key \X V)
  PROVE  /\ ContainerLessIn(s, t, L) <=> Lex(s, t, PL)
         /\ ContainerEqualIn(s, t, Q) <=> LexEqual(s, t, PQ)
<1>1. /\ DOMAIN s = 1 .. Len(s) /\ DOMAIN t = 1 .. Len(t) /\ Len(s) \in Nat
      /\ \A k \in 1 .. Len(s) : s[k] \in Key \X V
      /\ \A k \in 1 .. Len(t) : t[k] \in Key \X V
  OBVIOUS
<1>2. CASE Len(s) # Len(t)
  BY <1>2, Zenon DEF ContainerLessIn, ContainerEqualIn, ContainerLess, ContainerEqual, Lex, LexEqual
<1>3. CASE Len(s) = Len(t)
  <2>1. \A k \in 1 .. Len(s) :
          /\ PairBefore(s[k], t[k], L) <=> <<s[k], t[k]>> \in PL
          /\ PairBefore(t[k], s[k], L) <=> <<t[k], s[k]>> \in PL
          /\ s[k][1] = t[k][1] /\ <<s[k][2], t[k][2]>> \in Q <=> <<s[k], t[k]>> \in PQ
    BY <1>1, <1>3 DEF PairsBy
  <2>2. ContainerLessIn(s, t, L)
          <=> \E k \in 1 .. Len(s) : /\ PairBefore(s[k], t[k], L)
                                     /\ \A j \in 1 .. k - 1 : ~PairBefore(s[j], t[j], L) /\ ~PairBefore(t[j], s[j], L)
    BY <1>1, <1>3, Zenon DEF ContainerLessIn, ContainerLess, PairLess, PairBefore
  <2>3. Lex(s, t, PL)
          <=> \E k \in 1 .. Len(s) : /\ <<s[k], t[k]>> \in PL
                                     /\ \A j \in 1 .. k - 1 : <<s[j], t[j]>> \notin PL /\ <<t[j], s[j]>> \notin PL
    BY <1>1, <1>3, Zenon DEF Lex
  <2>4. \A k \in 1 .. Len(s) : \A j \in 1 .. k - 1 : j \in 1 .. Len(s)
    BY <1>1
  <2>5. ContainerLessIn(s, t, L) <=> Lex(s, t, PL)
    BY <2>1, <2>2, <2>3, <2>4, Zenon
  <2>6. ContainerEqualIn(s, t, Q) <=> LexEqual(s, t, PQ)
    BY <1>1, <1>3, <2>1, Zenon DEF ContainerEqualIn, ContainerEqual, LexEqual
  <2>7. QED
    BY <2>5, <2>6
<1>4. QED
  BY <1>2, <1>3

-----------------------------------------------------------------------------
(* A finite set of names has its order.                                    *)
InOrder(s, S) ==
  s \in [1 .. Cardinality(S) -> S] /\ \A j, k \in DOMAIN s : j < k => BytesLess(s[j], s[k])

(* Induction up to n, for a set.                                           *)
LEMMA Induction ==
  ASSUME NEW n \in Nat, NEW P, 0 \in P, \A k \in 1 .. n : k - 1 \in P => k \in P
  PROVE  0 .. n \subseteq P
<1> SUFFICES ASSUME (0 .. n) \ P # {} PROVE FALSE
  OBVIOUS
<1>1. PICK k \in (0 .. n) \ P : \A m \in (0 .. n) \ P : k <= m
  <2>1. (0 .. n) \ P \subseteq Nat
    OBVIOUS
  <2>2. QED
    BY <2>1, Least
<1>2. k \in 1 .. n /\ k - 1 \in 0 .. n /\ ~(k <= k - 1)
  BY <1>1
<1>3. QED
  BY <1>1, <1>2

(* One more name is put before the first one that comes after it.          *)
LEMMA NameInserted ==
  ASSUME NEW S \in SUBSET Key, NEW x \in S, NEW n \in Nat, Cardinality(S) = n + 1,
         NEW t \in [1 .. n -> S \ {x}], \A j, k \in 1 .. n : j < k => BytesLess(t[j], t[k])
  PROVE  \E s : InOrder(s, S)
<1> DEFINE D == {k \in 1 .. n + 1 : k = n + 1 \/ BytesLess(x, t[k])}
<1>1. PICK i \in D : \A m \in D : i <= m
  <2>1. n + 1 \in D /\ D \subseteq Nat
    OBVIOUS
  <2>2. QED
    BY <2>1, Least
<1>2. i \in 1 .. n + 1 /\ (i = n + 1 \/ BytesLess(x, t[i]))
  OBVIOUS
<1>3. \A k \in 1 .. n : t[k] \in Key /\ t[k] # x /\ t[k] \in S
  OBVIOUS
<1>4. \A k \in 1 .. i - 1 : k \in 1 .. n /\ BytesLess(t[k], x)
  <2>1. ASSUME NEW k \in 1 .. i - 1
        PROVE  k \in 1 .. n /\ BytesLess(t[k], x)
    <3>1. k \in 1 .. n /\ k \notin D
      BY <1>1, <1>2
    <3>2. ~BytesLess(x, t[k]) /\ t[k] # x /\ t[k] \in Key
      BY <3>1, <1>3
    <3>3. QED
      BY <3>1, <3>2, KeysTotal
  <2>2. QED
    BY <2>1
<1>5. \A k \in i .. n : k \in 1 .. n /\ BytesLess(x, t[k])
  <2>1. ASSUME NEW k \in i .. n
        PROVE  k \in 1 .. n /\ BytesLess(x, t[k])
    <3>1. k \in 1 .. n /\ i \in 1 .. n /\ BytesLess(x, t[i])
      BY <1>2
    <3>2. CASE k = i
      BY <3>1, <3>2
    <3>3. CASE i < k
      <4>1. BytesLess(t[i], t[k]) /\ t[i] \in Key /\ t[k] \in Key /\ x \in Key
        BY <3>1, <3>3, <1>3
      <4>2. QED
        BY <3>1, <4>1, KeysTransitive
    <3>4. QED
      BY <3>2, <3>3
  <2>2. QED
    BY <2>1
<1> HIDE DEF D
<1> DEFINE s == [k \in 1 .. n + 1 |-> IF k < i THEN t[k] ELSE IF k = i THEN x ELSE t[k - 1]]
<1>6. s \in [1 .. n + 1 -> S]
  <2>1. ASSUME NEW k \in 1 .. n + 1
        PROVE  s[k] \in S
    <3>1. (k < i => k \in 1 .. n) /\ (k > i => k - 1 \in 1 .. n)
      BY <1>2
    <3>2. QED
      BY <1>2, <1>3, <3>1
  <2>2. QED
    BY <2>1
<1>7. ASSUME NEW j \in 1 .. n + 1, NEW k \in 1 .. n + 1, j < k
      PROVE  BytesLess(s[j], s[k])
  <2>1. CASE k < i
    <3>1. j \in 1 .. n /\ k \in 1 .. n /\ s[j] = t[j] /\ s[k] = t[k]
      BY <1>2, <1>7, <2>1
    <3>2. QED
      BY <1>7, <3>1
  <2>2. CASE k = i
    <3>1. j \in 1 .. i - 1 /\ s[j] = t[j] /\ s[k] = x
      BY <1>2, <1>7, <2>2
    <3>2. QED
      BY <3>1, <1>4
  <2>3. CASE j < i /\ i < k
    <3>1. j \in 1 .. n /\ k - 1 \in 1 .. n /\ j < k - 1 /\ s[j] = t[j] /\ s[k] = t[k - 1]
      BY <1>2, <1>7, <2>3
    <3>2. QED
      BY <3>1
  <2>4. CASE j = i
    <3>1. k - 1 \in i .. n /\ s[j] = x /\ s[k] = t[k - 1]
      BY <1>2, <1>7, <2>4
    <3>2. QED
      BY <3>1, <1>5
  <2>5. CASE i < j
    <3>1. j - 1 \in 1 .. n /\ k - 1 \in 1 .. n /\ j - 1 < k - 1 /\ s[j] = t[j - 1] /\ s[k] = t[k - 1]
      BY <1>2, <1>7, <2>5
    <3>2. QED
      BY <3>1
  <2>6. QED
    BY <1>2, <1>7, <2>1, <2>2, <2>3, <2>4, <2>5
<1>8. InOrder(s, S)
  BY <1>6, <1>7 DEF InOrder
<1>9. QED
  BY <1>8

(* Every finite set of names has its order: getMemberNames returns one.    *)
LEMMA OrderExists ==
  ASSUME NEW S \in SUBSET Key, IsFiniteSet(S)
  PROVE  \E s : InOrder(s, S)
<1> DEFINE P == {n \in Nat : \A T \in SUBSET Key :
                    IsFiniteSet(T) /\ Cardinality(T) = n => \E s : InOrder(s, T)}
<1>1. 0 \in P
  <2>1. ASSUME NEW T \in SUBSET Key, IsFiniteSet(T), Cardinality(T) = 0
        PROVE  \E s : InOrder(s, T)
    <3>1. InOrder(<<>>, T)
      BY <2>1 DEF InOrder
    <3>2. QED
      BY <3>1
  <2>2. QED
    BY <2>1
<1>2. ASSUME NEW n \in Nat, n \in P
      PROVE  n + 1 \in P
  <2>1. ASSUME NEW T \in SUBSET Key, IsFiniteSet(T), Cardinality(T) = n + 1
        PROVE  \E s : InOrder(s, T)
    <3>1. PICK x \in T : TRUE
      BY <2>1, FS_EmptySet
    <3>2. T \ {x} \in SUBSET Key /\ IsFiniteSet(T \ {x}) /\ Cardinality(T \ {x}) = n
      <4>1. IsFiniteSet(T \ {x}) /\ Cardinality(T \ {x}) = Cardinality(T) - 1
        BY <2>1, FS_RemoveElement
      <4>2. QED
        BY <2>1, <4>1
    <3>3. PICK t : InOrder(t, T \ {x})
      BY <1>2, <3>2
    <3>4. t \in [1 .. n -> T \ {x}] /\ \A j, k \in 1 .. n : j < k => BytesLess(t[j], t[k])
      BY <3>2, <3>3 DEF InOrder
    <3>5. QED
      BY <2>1, <3>4, NameInserted
  <2>2. QED
    BY <2>1
<1>3. Cardinality(S) \in Nat
  BY FS_CardinalityType
<1>4. 0 .. Cardinality(S) \subseteq P
  <2>1. \A k \in 1 .. Cardinality(S) : k - 1 \in P => k \in P
    <3>1. ASSUME NEW k \in 1 .. Cardinality(S), k - 1 \in P
          PROVE  k \in P
      <4>1. k - 1 \in Nat /\ (k - 1) + 1 = k
        BY <1>3
      <4>2. QED
        BY <1>2, <3>1, <4>1
    <3>2. QED
      BY <3>1
  <2> HIDE DEF P
  <2>2. QED
    BY <1>1, <1>3, <2>1, Induction
<1>5. Cardinality(S) \in P
  BY <1>3, <1>4
<1>6. QED
  BY <1>5

-----------------------------------------------------------------------------
(* Values of one level, given the order of their elements.                 *)
Types == {"null", "int", "uint", "real", "string", "bool", "array", "object"}

ContainerOf(v, V) ==
  /\ v = <<type(v), v[2]>>
  /\ \/ type(v) = "array" /\ v[2] \in Seq(V)
     \/ /\ type(v) = "object" /\ IsFiniteSet(DOMAIN v[2]) /\ DOMAIN v[2] \in SUBSET Bytes
        /\ \A name \in DOMAIN v[2] : v[2][name] \in V

LessIn(v, w, L) == ValueLess(v, w, LAMBDA a, b : <<a, b>> \in L)
EqualIn(v, w, Q) == ValueEqual(v, w, LAMBDA a, b : <<a, b>> \in Q)

(* Ranks are distinct.                                                     *)
LEMMA RankIs ==
  \A t, u \in Types : Rank[t] \in 0 .. 7 /\ (Rank[t] = Rank[u] => t = u)
<1>1. ASSUME NEW t \in Types
      PROVE  /\ Rank[t] \in 0 .. 7
             /\ t = <<"null", "int", "uint", "real", "string", "bool", "array", "object">>[Rank[t] + 1]
  <2>1. \E k \in 0 .. 7 :
          t = <<"null", "int", "uint", "real", "string", "bool", "array", "object">>[k + 1]
    <3> DEFINE names == <<"null", "int", "uint", "real", "string", "bool", "array", "object">>
    <3>1. /\ names[0 + 1] = "null" /\ names[1 + 1] = "int" /\ names[2 + 1] = "uint"
          /\ names[3 + 1] = "real" /\ names[4 + 1] = "string" /\ names[5 + 1] = "bool"
          /\ names[6 + 1] = "array" /\ names[7 + 1] = "object"
      OBVIOUS
    <3> HIDE DEF names
    <3>2. \E k \in 0 .. 7 : t = names[k + 1]
      BY <3>1 DEF Types
    <3>3. QED
      BY <3>2 DEF names
  <2>2. QED
    BY <2>1 DEF Rank, Types
<1>2. QED
  BY <1>1

(* A container gives a sequence of pairs.                                  *)
LEMMA SortedType ==
  ASSUME NEW V, NEW v, ContainerOf(v, V)
  PROVE  Sorted(v) \in Seq(Key \X V)
<1>1. CASE type(v) = "array"
  <2>1. v[2] \in Seq(V)
    BY <1>1 DEF ContainerOf
  <2>2. \A k \in DOMAIN v[2] : <<<<k>>, v[2][k]>> \in Key \X V
    <3>1. ASSUME NEW k \in DOMAIN v[2]
          PROVE  <<<<k>>, v[2][k]>> \in Key \X V
      <4>1. k \in Nat /\ v[2][k] \in V
        BY <2>1
      <4>2. <<k>> \in Key
        BY <4>1 DEF Key
      <4>3. QED
        BY <4>1, <4>2
    <3>2. QED
      BY <3>1
  <2>3. DOMAIN v[2] = 1 .. Len(v[2]) /\ Len(v[2]) \in Nat
    BY <2>1
  <2> DEFINE e(k) == <<<<k>>, v[2][k]>>
             m == Len(v[2])
  <2>4. Sorted(v) = [k \in 1 .. m |-> e(k)]
    BY <1>1, <2>3 DEF Sorted
  <2>5. m \in Nat /\ \A k \in 1 .. m : e(k) \in Key \X V
    BY <2>2, <2>3
  <2> HIDE DEF e, m
  <2>6. [k \in 1 .. m |-> e(k)] \in [1 .. m -> Key \X V]
    BY <2>5
  <2>7. QED
    BY <2>4, <2>5, <2>6, SeqDef
<1>2. CASE type(v) = "object"
  <2> DEFINE S == DOMAIN v[2]
             s == getMemberNames(v)
             m == Cardinality(S)
  <2>1. IsFiniteSet(S) /\ S \in SUBSET Key /\ \A name \in S : v[2][name] \in V
    <3>1. \A b \in Bytes : b \in Key
      BY BytesAreKeys
    <3>2. QED
      BY <1>2, <3>1 DEF ContainerOf
  <2>2. InOrder(s, S)
    <3>1. \E t : InOrder(t, S)
      BY <2>1, OrderExists
    <3>2. \E t \in [1 .. m -> S] : \A j, k \in DOMAIN t : j < k => BytesLess(t[j], t[k])
      BY <3>1 DEF InOrder
    <3>3. QED
      BY <3>2, Zenon DEF InOrder, getMemberNames
  <2>3. m \in Nat
    BY <2>1, FS_CardinalityType
  <2>4. s \in [1 .. m -> S] /\ DOMAIN s = 1 .. m
    BY <2>2 DEF InOrder
  <2> DEFINE e(k) == <<s[k], v[2][s[k]]>>
  <2>5. Sorted(v) = [k \in 1 .. m |-> e(k)]
    BY <1>2, <2>4 DEF Sorted
  <2>6. \A k \in 1 .. m : e(k) \in Key \X V
    <3> HIDE DEF s, m
    <3>1. QED
      BY <2>1, <2>4
  <2> HIDE DEF e, m
  <2>7. [k \in 1 .. m |-> e(k)] \in [1 .. m -> Key \X V]
    BY <2>6
  <2>8. QED
    BY <2>3, <2>5, <2>7, SeqDef
<1>3. QED
  BY <1>1, <1>2 DEF ContainerOf

(* Containers of one type whose elements are ordered are ordered.          *)
LEMMA ContainersOrdered ==
  ASSUME NEW V, NEW L, NEW Q, Ordering(V, L, Q), NEW W, NEW M, NEW R, NEW t,
         \A v \in W : ContainerOf(v, V) /\ type(v) = t,
         \A v, w \in W : /\ <<v, w>> \in M <=> LessIn(v, w, L)
                         /\ <<v, w>> \in R <=> EqualIn(v, w, Q)
  PROVE  Ordering(W, M, R)
<1> DEFINE P == Key \X V
           PL == {pq \in P \X P : PairBefore(pq[1], pq[2], L)}
           PQ == {pq \in P \X P : pq[1][1] = pq[2][1] /\ <<pq[1][2], pq[2][2]>> \in Q}
<1>1. \A p, q \in P : /\ <<p, q>> \in PL <=> PairBefore(p, q, L)
                      /\ <<p, q>> \in PQ <=> p[1] = q[1] /\ <<p[2], q[2]>> \in Q
  OBVIOUS
<1> HIDE DEF PL, PQ
<1>2. Ordering(P, PL, PQ)
  BY <1>1, PairsOrdered
<1>3. \A v \in W : Sorted(v) \in Seq(P)
  BY SortedType
<1>4. \A v, w \in W :
        /\ <<v, w>> \in M <=> Lex(Sorted(v), Sorted(w), PL)
        /\ <<v, w>> \in R <=> LexEqual(Sorted(v), Sorted(w), PQ)
  <2>1. ASSUME NEW v \in W, NEW w \in W
        PROVE  /\ <<v, w>> \in M <=> Lex(Sorted(v), Sorted(w), PL)
               /\ <<v, w>> \in R <=> LexEqual(Sorted(v), Sorted(w), PQ)
    <3>1. type(v) = type(w) /\ IsContainer(v)
      BY DEF ContainerOf, IsContainer
    <3>2. /\ ContainerLessIn(Sorted(v), Sorted(w), L)
               <=> Lex(Sorted(v), Sorted(w), PL)
          /\ ContainerEqualIn(Sorted(v), Sorted(w), Q)
               <=> LexEqual(Sorted(v), Sorted(w), PQ)
      <4>1. Sorted(v) \in Seq(Key \X V) /\ Sorted(w) \in Seq(Key \X V)
        BY <1>3
      <4>2. \A a, b \in Seq(Key \X V) :
              /\ ContainerLessIn(a, b, L) <=> Lex(a, b, PL)
              /\ ContainerEqualIn(a, b, Q) <=> LexEqual(a, b, PQ)
        <5>1. PairsBy(V, L, Q, PL, PQ)
          BY <1>1 DEF PairsBy
        <5> HIDE DEF P
        <5>2. ASSUME NEW a \in Seq(Key \X V), NEW b \in Seq(Key \X V)
              PROVE  /\ ContainerLessIn(a, b, L) <=> Lex(a, b, PL)
                     /\ ContainerEqualIn(a, b, Q) <=> LexEqual(a, b, PQ)
          BY <5>1, ContainersAsLex
        <5>3. QED
          BY <5>2
      <4>3. QED
        BY <4>1, <4>2
    <3>3. LessIn(v, w, L) <=> ContainerLessIn(Sorted(v), Sorted(w), L)
      BY <3>1 DEF LessIn, ValueLess, ContainerLessIn, ContainerLess, PairLess
    <3>4. EqualIn(v, w, Q) <=> ContainerEqualIn(Sorted(v), Sorted(w), Q)
      BY <3>1 DEF EqualIn, ValueEqual, ContainerEqualIn, ContainerEqual
    <3>5. QED
      BY <3>2, <3>3, <3>4
  <2>2. QED
    BY <2>1
<1> HIDE DEF P
<1>5. ASSUME NEW v \in W, NEW w \in W
      PROVE  /\ ~(<<v, w>> \in M /\ <<w, v>> \in M)
             /\ (<<v, w>> \notin M /\ <<w, v>> \notin M) <=> <<v, w>> \in R
             /\ \A x \in W : /\ <<v, w>> \in M /\ <<w, x>> \in M => <<v, x>> \in M
                             /\ <<v, w>> \in R /\ <<w, x>> \in R => <<v, x>> \in R
  <2>1. /\ ~(<<v, w>> \in M /\ <<w, v>> \in M)
        /\ (<<v, w>> \notin M /\ <<w, v>> \notin M) <=> <<v, w>> \in R
    BY <1>2, <1>3, <1>4, LexEqualWhen
  <2>2. ASSUME NEW x \in W
        PROVE  /\ <<v, w>> \in M /\ <<w, x>> \in M => <<v, x>> \in M
               /\ <<v, w>> \in R /\ <<w, x>> \in R => <<v, x>> \in R
    BY <1>2, <1>3, <1>4, LexTransitive, LexEqualTransitive
  <2>3. QED
    BY <2>1, <2>2
<1>6. QED
  BY <1>5 DEF Ordering

(* Values are ordered if those of every type are.                          *)
LEMMA ByType ==
  ASSUME NEW W, NEW M, NEW R, \A v \in W : type(v) \in Types,
         \A v, w \in W : type(v) # type(w) =>
           /\ <<v, w>> \in M <=> Rank[type(v)] < Rank[type(w)]
           /\ <<v, w>> \notin R,
         \A t \in Types : Ordering({v \in W : type(v) = t}, M, R)
  PROVE  Ordering(W, M, R)
<1>1. ASSUME NEW v \in W, NEW w \in W
      PROVE  /\ ~(<<v, w>> \in M /\ <<w, v>> \in M)
             /\ (<<v, w>> \notin M /\ <<w, v>> \notin M) <=> <<v, w>> \in R
  <2>1. CASE type(v) = type(w)
    <3> DEFINE T == {u \in W : type(u) = type(v)}
    <3>1. Ordering(T, M, R) /\ v \in T /\ w \in T
      BY <2>1
    <3> HIDE DEF T
    <3>2. QED
      BY <3>1 DEF Ordering
  <2>2. CASE type(v) # type(w)
    <3>1. Rank[type(v)] \in 0 .. 7 /\ Rank[type(w)] \in 0 .. 7 /\ Rank[type(v)] # Rank[type(w)]
      BY <2>2, RankIs
    <3>2. QED
      BY <2>2, <3>1
  <2>3. QED
    BY <2>1, <2>2
<1>2. ASSUME NEW v \in W, NEW w \in W, NEW x \in W
      PROVE  /\ <<v, w>> \in M /\ <<w, x>> \in M => <<v, x>> \in M
             /\ <<v, w>> \in R /\ <<w, x>> \in R => <<v, x>> \in R
  <2>1. CASE type(v) = type(w) /\ type(w) = type(x)
    <3> DEFINE T == {u \in W : type(u) = type(v)}
    <3>1. Ordering(T, M, R) /\ v \in T /\ w \in T /\ x \in T
      BY <2>1
    <3> HIDE DEF T
    <3>2. QED
      BY <3>1 DEF Ordering
  <2>2. CASE ~(type(v) = type(w) /\ type(w) = type(x))
    <3> DEFINE a == Rank[type(v)]
               b == Rank[type(w)]
               c == Rank[type(x)]
    <3>1. a \in 0 .. 7 /\ b \in 0 .. 7 /\ c \in 0 .. 7
      BY RankIs
    <3>2. /\ type(v) = type(w) <=> a = b
          /\ type(w) = type(x) <=> b = c
          /\ type(v) = type(x) <=> a = c
      BY RankIs
    <3>3. /\ a # b => (<<v, w>> \in M <=> a < b) /\ <<v, w>> \notin R
          /\ b # c => (<<w, x>> \in M <=> b < c) /\ <<w, x>> \notin R
          /\ a # c => (<<v, x>> \in M <=> a < c) /\ <<v, x>> \notin R
      BY <3>2
    <3> HIDE DEF a, b, c
    <3>4. a # b \/ b # c
      BY <2>2, <3>2
    <3>5. ASSUME <<v, w>> \in M, <<w, x>> \in M
          PROVE  <<v, x>> \in M
      <4>1. a <= b /\ b <= c
        BY <3>1, <3>3, <3>5
      <4>2. a < c
        BY <3>1, <3>4, <4>1
      <4>3. QED
        BY <3>1, <3>3, <4>2
    <3>6. QED
      BY <3>3, <3>4, <3>5
  <2>3. QED
    BY <2>1, <2>2
<1>3. ASSUME NEW v \in W, NEW w \in W
      PROVE  /\ ~(<<v, w>> \in M /\ <<w, v>> \in M)
             /\ (<<v, w>> \notin M /\ <<w, v>> \notin M) <=> <<v, w>> \in R
             /\ \A x \in W : /\ <<v, w>> \in M /\ <<w, x>> \in M => <<v, x>> \in M
                             /\ <<v, w>> \in R /\ <<w, x>> \in R => <<v, x>> \in R
  BY <1>1, <1>2
<1>4. QED
  BY <1>3 DEF Ordering

(* Scalars without NaN, and containers of values of V.                     *)
Comparable(v, V) == (IsScalar(v) /\ ~IsNaN(v)) \/ ContainerOf(v, V)

(* What is built from ordered values is ordered.                           *)
LEMMA LevelOrdered ==
  ASSUME NEW V, NEW L, NEW Q, Ordering(V, L, Q), NEW W, NEW M, NEW R, \A v \in W : Comparable(v, V),
         \A v, w \in W : /\ <<v, w>> \in M <=> LessIn(v, w, L)
                         /\ <<v, w>> \in R <=> EqualIn(v, w, Q)
  PROVE  Ordering(W, M, R)
<1>1. \A v \in W : /\ type(v) \in Types
                   /\ IF IsContainer(v) THEN ContainerOf(v, V) ELSE IsScalar(v) /\ ~IsNaN(v)
  <2>1. ASSUME NEW v \in W
        PROVE  /\ type(v) \in Types
               /\ IF IsContainer(v) THEN ContainerOf(v, V) ELSE IsScalar(v) /\ ~IsNaN(v)
    <3>1. CASE IsScalar(v) /\ ~IsNaN(v)
      <4>1. type(v) \in {"null", "int", "uint", "real", "string", "bool"}
        BY <3>1, ScalarShape
      <4>2. QED
        BY <3>1, <4>1 DEF IsContainer, Types
    <3>2. CASE ContainerOf(v, V)
      BY <3>2 DEF ContainerOf, IsContainer, Types
    <3>3. QED
      BY <3>1, <3>2 DEF Comparable
  <2>2. QED
    BY <2>1
<1>2. ASSUME NEW v \in W, NEW w \in W, type(v) # type(w)
      PROVE  (<<v, w>> \in M <=> Rank[type(v)] < Rank[type(w)]) /\ <<v, w>> \notin R
  <2>1. LessIn(v, w, L) <=> Rank[type(v)] < Rank[type(w)]
    BY <1>2, Zenon DEF LessIn, ValueLess
  <2>2. ~EqualIn(v, w, Q)
    BY <1>2, Zenon DEF EqualIn, ValueEqual
  <2>3. QED
    BY <2>1, <2>2
<1>3. ASSUME NEW t \in Types
      PROVE  Ordering({v \in W : type(v) = t}, M, R)
  <2> DEFINE T == {v \in W : type(v) = t}
  <2>1. /\ \A v \in T : v \in W /\ type(v) = t
        /\ \A v, w \in T : /\ <<v, w>> \in M <=> LessIn(v, w, L)
                           /\ <<v, w>> \in R <=> EqualIn(v, w, Q)
    OBVIOUS
  <2> HIDE DEF T
  <2>2. CASE t \in {"array", "object"}
    <3>1. \A v \in T : ContainerOf(v, V) /\ type(v) = t
      BY <1>1, <2>1, <2>2 DEF IsContainer
    <3>2. QED
      BY <2>1, <3>1, ContainersOrdered DEF T
  <2>3. CASE t \notin {"array", "object"}
    <3>1. \A v \in T : IsScalar(v) /\ type(v) = t /\ ~IsNaN(v) /\ ~IsContainer(v)
      BY <1>1, <2>1, <2>3 DEF IsContainer
    <3>2. StrictlyOrdered(T, ScalarLess, ScalarEqual)
      BY <3>1, ScalarsOrdered
    <3>3. \A v, w \in T : /\ <<v, w>> \in M <=> ScalarLess(v, w)
                          /\ <<v, w>> \in R <=> ScalarEqual(v, w)
      <4>1. ASSUME NEW v \in T, NEW w \in T
            PROVE  /\ LessIn(v, w, L) <=> ScalarLess(v, w)
                   /\ EqualIn(v, w, Q) <=> ScalarEqual(v, w)
        <5>1. type(v) = type(w) /\ ~IsContainer(v)
          BY <3>1
        <5>2. QED
          BY <5>1, Zenon DEF LessIn, ValueLess, EqualIn, ValueEqual
      <4>2. QED
        BY <2>1, <4>1
    <3>4. Ordering(T, M, R)
      BY <3>2, <3>3 DEF StrictlyOrdered, Ordering
    <3>5. QED
      BY <3>4 DEF T
  <2>4. QED
    BY <2>2, <2>3
<1>4. QED
  BY <1>1, <1>2, <1>3, ByType

(* L and M say the same of the values of V.                                *)
Agree(V, L, M) == \A a, b \in V : <<a, b>> \in L <=> <<a, b>> \in M

(* The order of two containers depends on that of their elements only.     *)
LEMMA ContainersByElements ==
  ASSUME NEW V, NEW L, NEW M, Agree(V, L, M), NEW s \in Seq(Key \X V), NEW t \in Seq(Key \X V)
  PROVE  /\ ContainerLessIn(s, t, L) <=> ContainerLessIn(s, t, M)
         /\ ContainerEqualIn(s, t, L) <=> ContainerEqualIn(s, t, M)
<1>1. /\ DOMAIN s = 1 .. Len(s) /\ DOMAIN t = 1 .. Len(t) /\ Len(s) \in Nat
      /\ \A k \in 1 .. Len(s) : s[k] \in Key \X V
      /\ \A k \in 1 .. Len(t) : t[k] \in Key \X V
  OBVIOUS
<1>2. CASE Len(s) # Len(t)
  BY <1>2, Zenon DEF ContainerLessIn, ContainerEqualIn, ContainerLess, ContainerEqual
<1>3. CASE Len(s) = Len(t)
  <2>1. \A k \in 1 .. Len(s) : s[k][2] \in V /\ t[k][2] \in V
    BY <1>1, <1>3
  <2>2. \A k \in 1 .. Len(s) :
          /\ <<s[k][2], t[k][2]>> \in L <=> <<s[k][2], t[k][2]>> \in M
          /\ <<t[k][2], s[k][2]>> \in L <=> <<t[k][2], s[k][2]>> \in M
    BY <2>1, Zenon DEF Agree
  <2>3. \A k \in 1 .. Len(s) :
          /\ PairBefore(s[k], t[k], L) <=> PairBefore(s[k], t[k], M)
          /\ PairBefore(t[k], s[k], L) <=> PairBefore(t[k], s[k], M)
    BY <2>2, Zenon DEF PairBefore
  <2>4. \A k \in 1 .. Len(s) : \A j \in 1 .. k - 1 : j \in 1 .. Len(s)
    BY <1>1
  <2>5. ASSUME NEW N
        PROVE  ContainerLessIn(s, t, N)
                 <=> \E k \in 1 .. Len(s) :
                       /\ PairBefore(s[k], t[k], N)
                       /\ \A j \in 1 .. k - 1 : ~PairBefore(s[j], t[j], N) /\ ~PairBefore(t[j], s[j], N)
    BY <1>1, <1>3, Zenon DEF ContainerLessIn, ContainerLess, PairLess, PairBefore
  <2>6. ContainerLessIn(s, t, L) <=> ContainerLessIn(s, t, M)
    BY <2>3, <2>4, <2>5, Zenon
  <2>7. ContainerEqualIn(s, t, L) <=> ContainerEqualIn(s, t, M)
    BY <1>1, <1>3, <2>2, Zenon DEF ContainerEqualIn, ContainerEqual
  <2>8. QED
    BY <2>6, <2>7
<1>4. QED
  BY <1>2, <1>3

(* So does that of two values.                                             *)
LEMMA ValuesByElements ==
  ASSUME NEW V, NEW L, NEW M, Agree(V, L, M), NEW v, Comparable(v, V), NEW w, Comparable(w, V)
  PROVE  /\ LessIn(v, w, L) <=> LessIn(v, w, M)
         /\ EqualIn(v, w, L) <=> EqualIn(v, w, M)
<1>1. CASE type(v) # type(w)
  <2>1. \A N : (LessIn(v, w, N) <=> Rank[type(v)] < Rank[type(w)]) /\ ~EqualIn(v, w, N)
    BY <1>1 DEF LessIn, EqualIn, ValueLess, ValueEqual
  <2>2. QED
    BY <2>1, Zenon
<1>2. CASE type(v) = type(w) /\ ~IsContainer(v)
  <2>1. \A N : (LessIn(v, w, N) <=> ScalarLess(v, w)) /\ (EqualIn(v, w, N) <=> ScalarEqual(v, w))
    BY <1>2 DEF LessIn, EqualIn, ValueLess, ValueEqual
  <2>2. QED
    BY <2>1, Zenon
<1>3. CASE type(v) = type(w) /\ IsContainer(v)
  <2>1. IsContainer(w) /\ ContainerOf(v, V) /\ ContainerOf(w, V)
    BY <1>3, ScalarShape DEF IsContainer, Comparable
  <2>2. Sorted(v) \in Seq(Key \X V) /\ Sorted(w) \in Seq(Key \X V)
    BY <2>1, SortedType
  <2>3. ASSUME NEW N
        PROVE  LessIn(v, w, N) <=> ContainerLessIn(Sorted(v), Sorted(w), N)
    BY <1>3 DEF LessIn, ValueLess, ContainerLessIn, ContainerLess, PairLess
  <2>4. ASSUME NEW N
        PROVE  EqualIn(v, w, N) <=> ContainerEqualIn(Sorted(v), Sorted(w), N)
    BY <1>3 DEF EqualIn, ValueEqual, ContainerEqualIn, ContainerEqual
  <2>5. /\ ContainerLessIn(Sorted(v), Sorted(w), L) <=> ContainerLessIn(Sorted(v), Sorted(w), M)
        /\ ContainerEqualIn(Sorted(v), Sorted(w), L) <=> ContainerEqualIn(Sorted(v), Sorted(w), M)
    BY <2>2, ContainersByElements
  <2>6. QED
    BY <2>3, <2>4, <2>5
<1>4. QED
  BY <1>1, <1>2, <1>3

(* L and Q compare the values of V by the equations of operator< and ==.   *)
Compared(V, L, Q) ==
  \A v, w \in V : /\ <<v, w>> \in L <=> LessIn(v, w, L)
                  /\ <<v, w>> \in Q <=> EqualIn(v, w, Q)

(* Level by level: on level 0 are scalars, on the next ones also           *)
(* containers of values of the level before, none of them NaN.             *)
Levels(Level) ==
  /\ \A v \in Level[0] : Comparable(v, {})
  /\ \A n \in Nat : /\ Level[n] \subseteq Level[n + 1]
                    /\ \A v \in Level[n + 1] : Comparable(v, Level[n])

(* On a level there are such relations if there are on the one below.      *)
LEMMA NextCompared ==
  ASSUME NEW V, NEW L, NEW Q, Compared(V, L, Q), NEW W, V \subseteq W, \A v \in W : Comparable(v, V)
  PROVE  \E M, R : Compared(W, M, R)
<1> DEFINE M == {p \in W \X W : LessIn(p[1], p[2], L)}
           R == {p \in W \X W : EqualIn(p[1], p[2], Q)}
<1>1. \A v, w \in W : /\ <<v, w>> \in M <=> LessIn(v, w, L)
                      /\ <<v, w>> \in R <=> EqualIn(v, w, Q)
  OBVIOUS
<1> HIDE DEF M, R
<1>2. Agree(V, M, L) /\ Agree(V, R, Q)
  BY <1>1 DEF Agree, Compared
<1>3. ASSUME NEW v \in W, NEW w \in W
      PROVE  /\ <<v, w>> \in M <=> LessIn(v, w, M)
             /\ <<v, w>> \in R <=> EqualIn(v, w, R)
  <2>1. Comparable(v, V) /\ Comparable(w, V)
    OBVIOUS
  <2>2. (LessIn(v, w, M) <=> LessIn(v, w, L)) /\ (EqualIn(v, w, R) <=> EqualIn(v, w, Q))
    BY <1>2, <2>1, ValuesByElements
  <2>3. QED
    BY <1>1, <2>2
<1>4. Compared(W, M, R)
  BY <1>3 DEF Compared
<1>5. QED
  BY <1>4

(* And they are the same if they are on the one below.                     *)
LEMMA NextAgrees ==
  ASSUME NEW V, NEW W, \A v \in W : Comparable(v, V),
         NEW L, NEW Q, Compared(W, L, Q), NEW M, NEW R, Compared(W, M, R),
         Agree(V, L, M), Agree(V, Q, R)
  PROVE  Agree(W, L, M) /\ Agree(W, Q, R)
<1>1. ASSUME NEW v \in W, NEW w \in W
      PROVE  /\ <<v, w>> \in L <=> <<v, w>> \in M
             /\ <<v, w>> \in Q <=> <<v, w>> \in R
  <2>1. (LessIn(v, w, L) <=> LessIn(v, w, M)) /\ (EqualIn(v, w, Q) <=> EqualIn(v, w, R))
    BY ValuesByElements
  <2>2. QED
    BY <2>1 DEF Compared
<1>2. QED
  BY <1>1 DEF Agree

(* Induction over all naturals, for a set.                                 *)
LEMMA InductionOnNat ==
  ASSUME NEW P, 0 \in P, \A n \in Nat : n \in P => n + 1 \in P
  PROVE  \A n \in Nat : n \in P
<1>1. ASSUME NEW n \in Nat
      PROVE  n \in P
  <2>1. ASSUME NEW k \in 1 .. n, k - 1 \in P
        PROVE  k \in P
    <3>1. k - 1 \in Nat /\ (k - 1) + 1 = k
      OBVIOUS
    <3>2. QED
      BY <2>1, <3>1
  <2>2. QED
    BY <2>1, Induction
<1>2. QED
  BY <1>1

(* Levels grow.                                                            *)
LEMMA LevelsGrow ==
  ASSUME NEW Level, Levels(Level), NEW n \in Nat
  PROVE  \A m \in 0 .. n : Level[m] \subseteq Level[n]
<1> DEFINE P == {k \in Nat : \A m \in 0 .. k : Level[m] \subseteq Level[k]}
<1>1. 0 \in P
  OBVIOUS
<1>2. ASSUME NEW k \in Nat, k \in P
      PROVE  k + 1 \in P
  <2>1. ASSUME NEW m \in 0 .. k + 1
        PROVE  Level[m] \subseteq Level[k + 1]
    <3>1. CASE m = k + 1
      BY <3>1
    <3>2. CASE m \in 0 .. k
      <4>1. Level[m] \subseteq Level[k] /\ Level[k] \subseteq Level[k + 1]
        BY <1>2, <3>2 DEF Levels
      <4>2. QED
        BY <4>1
    <3>3. QED
      BY <3>1, <3>2
  <2>2. QED
    BY <2>1
<1> HIDE DEF P
<1>3. n \in P
  BY <1>1, <1>2, InductionOnNat
<1>4. QED
  BY <1>3 DEF P

(* Every level can be compared, in one way only.                           *)
LEMMA LevelCompared ==
  ASSUME NEW Level, Levels(Level), NEW n \in Nat
  PROVE  \E L, Q : Compared(Level[n], L, Q)
<1> DEFINE P == {k \in Nat : \E L, Q : Compared(Level[k], L, Q)}
<1>1. 0 \in P
  <2>1. Compared({}, {}, {})
    BY DEF Compared
  <2>2. \A v \in Level[0] : Comparable(v, {})
    BY DEF Levels
  <2>3. \E L, Q : Compared(Level[0], L, Q)
    BY <2>1, <2>2, NextCompared
  <2>4. QED
    BY <2>3
<1>2. ASSUME NEW k \in Nat, k \in P
      PROVE  k + 1 \in P
  <2>1. PICK L, Q : Compared(Level[k], L, Q)
    BY <1>2
  <2>2. Level[k] \subseteq Level[k + 1] /\ \A v \in Level[k + 1] : Comparable(v, Level[k])
    BY DEF Levels
  <2>3. \E M, R : Compared(Level[k + 1], M, R)
    BY <2>1, <2>2, NextCompared
  <2>4. QED
    BY <2>3
<1> HIDE DEF P
<1>3. n \in P
  BY <1>1, <1>2, InductionOnNat
<1>4. QED
  BY <1>3 DEF P

LEMMA LevelAgrees ==
  ASSUME NEW Level, Levels(Level), NEW n \in Nat,
         NEW L, NEW Q, Compared(Level[n], L, Q), NEW M, NEW R, Compared(Level[n], M, R)
  PROVE  Agree(Level[n], L, M) /\ Agree(Level[n], Q, R)
<1> DEFINE P == {k \in Nat : k <= n => Agree(Level[k], L, M) /\ Agree(Level[k], Q, R)}
<1>1. \A k \in 0 .. n : Compared(Level[k], L, Q) /\ Compared(Level[k], M, R)
  <2>1. \A k \in 0 .. n : Level[k] \subseteq Level[n]
    BY LevelsGrow
  <2>2. QED
    BY <2>1 DEF Compared
<1>2. 0 \in P
  <2>1. Agree({}, L, M) /\ Agree({}, Q, R)
    BY DEF Agree
  <2>2. \A v \in Level[0] : Comparable(v, {})
    BY DEF Levels
  <2>3. Compared(Level[0], L, Q) /\ Compared(Level[0], M, R)
    BY <1>1
  <2>4. QED
    BY <2>1, <2>2, <2>3, NextAgrees
<1>3. ASSUME NEW k \in Nat, k \in P
      PROVE  k + 1 \in P
  <2>1. CASE k + 1 <= n
    <3>1. Agree(Level[k], L, M) /\ Agree(Level[k], Q, R)
      BY <1>3, <2>1
    <3>2. \A v \in Level[k + 1] : Comparable(v, Level[k])
      BY DEF Levels
    <3>3. Compared(Level[k + 1], L, Q) /\ Compared(Level[k + 1], M, R)
      BY <1>1, <2>1
    <3>4. Agree(Level[k + 1], L, M) /\ Agree(Level[k + 1], Q, R)
      BY <3>1, <3>2, <3>3, NextAgrees
    <3>5. QED
      BY <3>4
  <2>2. QED
    BY <2>1
<1> HIDE DEF P
<1>4. n \in P
  BY <1>2, <1>3, InductionOnNat
<1>5. QED
  BY <1>4 DEF P

(***************************************************************************)
(* The equations by which operator< and operator== recur define what they  *)
(* compare: on all values, whatever the depth, one relation each satisfies *)
(* them.                                                                   *)
(***************************************************************************)
THEOREM ValuesCompared ==
  ASSUME NEW Level, Levels(Level)
  PROVE  /\ \E L, Q : \A n \in Nat : Compared(Level[n], L, Q)
         /\ \A L, Q, M, R :
              (\A n \in Nat : Compared(Level[n], L, Q) /\ Compared(Level[n], M, R)) =>
                \A n \in Nat : Agree(Level[n], L, M) /\ Agree(Level[n], Q, R)
<1> DEFINE U == UNION {Level[n] : n \in Nat}
           A == {p \in U \X U : \E n \in Nat : \E L, Q :
                   /\ p[1] \in Level[n] /\ p[2] \in Level[n] /\ Compared(Level[n], L, Q)
                   /\ p \in L}
           B == {p \in U \X U : \E n \in Nat : \E L, Q :
                   /\ p[1] \in Level[n] /\ p[2] \in Level[n] /\ Compared(Level[n], L, Q)
                   /\ p \in Q}
<1>1. \A v, w : /\ <<v, w>> \in A <=> \E n \in Nat : \E L, Q :
                     v \in Level[n] /\ w \in Level[n] /\ Compared(Level[n], L, Q) /\ <<v, w>> \in L
                /\ <<v, w>> \in B <=> \E n \in Nat : \E L, Q :
                     v \in Level[n] /\ w \in Level[n] /\ Compared(Level[n], L, Q) /\ <<v, w>> \in Q
  OBVIOUS
<1> HIDE DEF A, B, U
<1>2. ASSUME NEW n \in Nat, NEW L, NEW Q, Compared(Level[n], L, Q)
      PROVE  Agree(Level[n], A, L) /\ Agree(Level[n], B, Q)
  <2>1. ASSUME NEW v \in Level[n], NEW w \in Level[n],
               NEW m \in Nat, NEW M, NEW R, v \in Level[m], w \in Level[m], Compared(Level[m], M, R)
        PROVE  /\ <<v, w>> \in M <=> <<v, w>> \in L
               /\ <<v, w>> \in R <=> <<v, w>> \in Q
    <3>1. CASE m \in 0 .. n
      <4>1. Level[m] \subseteq Level[n]
        BY <3>1, LevelsGrow
      <4>2. Compared(Level[m], L, Q)
        BY <1>2, <4>1 DEF Compared
      <4>3. Agree(Level[m], M, L) /\ Agree(Level[m], R, Q)
        BY <2>1, <4>2, LevelAgrees
      <4>4. QED
        BY <2>1, <4>3 DEF Agree
    <3>2. CASE n \in 0 .. m
      <4>1. Level[n] \subseteq Level[m]
        BY <3>2, LevelsGrow
      <4>2. Compared(Level[n], M, R)
        BY <2>1, <4>1 DEF Compared
      <4>3. Agree(Level[n], M, L) /\ Agree(Level[n], R, Q)
        BY <1>2, <4>2, LevelAgrees
      <4>4. QED
        BY <2>1, <4>3 DEF Agree
    <3>3. QED
      BY <3>1, <3>2
  <2>2. ASSUME NEW v \in Level[n], NEW w \in Level[n]
        PROVE  /\ <<v, w>> \in A <=> <<v, w>> \in L
               /\ <<v, w>> \in B <=> <<v, w>> \in Q
    BY <1>1, <1>2, <2>1, Zenon
  <2>3. QED
    BY <2>2 DEF Agree
<1>3. ASSUME NEW n \in Nat
      PROVE  Compared(Level[n], A, B)
  <2>1. n + 1 \in Nat /\ Level[n] \subseteq Level[n + 1]
    BY DEF Levels
  <2>2. PICK L, Q : Compared(Level[n + 1], L, Q)
    BY <2>1, LevelCompared
  <2>3. Agree(Level[n + 1], A, L) /\ Agree(Level[n + 1], B, Q)
    BY <1>2, <2>1, <2>2
  <2>4. Agree(Level[n], A, L) /\ Agree(Level[n], B, Q)
    BY <2>1, <2>3 DEF Agree
  <2>5. \A v \in Level[n + 1] : Comparable(v, Level[n])
    BY DEF Levels
  <2>6. ASSUME NEW v \in Level[n], NEW w \in Level[n]
        PROVE  /\ <<v, w>> \in A <=> LessIn(v, w, A)
               /\ <<v, w>> \in B <=> EqualIn(v, w, B)
    <3>1. v \in Level[n + 1] /\ w \in Level[n + 1] /\ Comparable(v, Level[n]) /\ Comparable(w, Level[n])
      BY <2>1, <2>5
    <3>2. (LessIn(v, w, A) <=> LessIn(v, w, L)) /\ (EqualIn(v, w, B) <=> EqualIn(v, w, Q))
      BY <2>4, <3>1, ValuesByElements
    <3>3. (<<v, w>> \in L <=> LessIn(v, w, L)) /\ (<<v, w>> \in Q <=> EqualIn(v, w, Q))
      BY <2>2, <3>1 DEF Compared
    <3>4. (<<v, w>> \in A <=> <<v, w>> \in L) /\ (<<v, w>> \in B <=> <<v, w>> \in Q)
      BY <2>4 DEF Agree
    <3>5. QED
      BY <3>2, <3>3, <3>4
  <2>7. QED
    BY <2>6 DEF Compared
<1>4. \E L, Q : \A n \in Nat : Compared(Level[n], L, Q)
  BY <1>3
<1>5. ASSUME NEW L, NEW Q, NEW M, NEW R, NEW n \in Nat, Compared(Level[n], L, Q), Compared(Level[n], M, R)
      PROVE  Agree(Level[n], L, M) /\ Agree(Level[n], Q, R)
  BY <1>5, LevelAgrees
<1>6. QED
  BY <1>4, <1>5

(***************************************************************************)
(* That operator< orders all values without NaN strictly and weakly, and   *)
(* those it cannot tell apart are those operator== calls equal.            *)
(***************************************************************************)
THEOREM ValuesOrdered ==
  ASSUME NEW Level, Levels(Level), NEW L, NEW Q, \A n \in Nat : Compared(Level[n], L, Q)
  PROVE  Ordering(UNION {Level[n] : n \in Nat}, L, Q)
<1> DEFINE P == {n \in Nat : Ordering(Level[n], L, Q)}
<1>1. 0 \in P
  <2>1. Ordering({}, L, Q)
    BY DEF Ordering
  <2>2. \A v \in Level[0] : Comparable(v, {})
    BY DEF Levels
  <2>3. Ordering(Level[0], L, Q)
    BY <2>1, <2>2, LevelOrdered DEF Compared
  <2>4. QED
    BY <2>3
<1>2. ASSUME NEW n \in Nat, n \in P
      PROVE  n + 1 \in P
  <2>1. \A v \in Level[n + 1] : Comparable(v, Level[n])
    BY DEF Levels
  <2>2. Compared(Level[n + 1], L, Q)
    OBVIOUS
  <2>3. Ordering(Level[n + 1], L, Q)
    BY <1>2, <2>1, <2>2, LevelOrdered DEF Compared
  <2>4. QED
    BY <2>3
<1>3. \A n \in Nat : n \in P
  <2> HIDE DEF P
  <2>1. QED
    BY <1>1, <1>2, InductionOnNat
<1> DEFINE U == UNION {Level[n] : n \in Nat}
<1>4. ASSUME NEW a \in U, NEW b \in U, NEW c \in U
      PROVE  \E n \in Nat : Ordering(Level[n], L, Q) /\ a \in Level[n] /\ b \in Level[n] /\ c \in Level[n]
  <2>1. PICK i \in Nat, j \in Nat, k \in Nat : a \in Level[i] /\ b \in Level[j] /\ c \in Level[k]
    OBVIOUS
  <2>2. PICK n \in Nat : i <= n /\ j <= n /\ k <= n
    <3>1. i + j + k \in Nat /\ i <= i + j + k /\ j <= i + j + k /\ k <= i + j + k
      OBVIOUS
    <3>2. QED
      BY <3>1
  <2>3. Ordering(Level[n], L, Q) /\ i \in 0 .. n /\ j \in 0 .. n /\ k \in 0 .. n
    BY <1>3, <2>2
  <2>4. Level[i] \subseteq Level[n] /\ Level[j] \subseteq Level[n] /\ Level[k] \subseteq Level[n]
    BY <2>3, LevelsGrow
  <2>5. QED
    BY <2>1, <2>3, <2>4
<1> HIDE DEF U, P
<1>5. ASSUME NEW a \in U, NEW b \in U
      PROVE  /\ ~(<<a, b>> \in L /\ <<b, a>> \in L)
             /\ (<<a, b>> \notin L /\ <<b, a>> \notin L) <=> <<a, b>> \in Q
             /\ \A c \in U : /\ <<a, b>> \in L /\ <<b, c>> \in L => <<a, c>> \in L
                             /\ <<a, b>> \in Q /\ <<b, c>> \in Q => <<a, c>> \in Q
  <2>1. ASSUME NEW c \in U
        PROVE  /\ ~(<<a, b>> \in L /\ <<b, a>> \in L)
               /\ (<<a, b>> \notin L /\ <<b, a>> \notin L) <=> <<a, b>> \in Q
               /\ <<a, b>> \in L /\ <<b, c>> \in L => <<a, c>> \in L
               /\ <<a, b>> \in Q /\ <<b, c>> \in Q => <<a, c>> \in Q
    <3>1. PICK n \in Nat : Ordering(Level[n], L, Q) /\ a \in Level[n] /\ b \in Level[n] /\ c \in Level[n]
      BY <1>4
    <3>2. QED
      BY <3>1 DEF Ordering
  <2>2. QED
    BY <2>1
<1>6. Ordering(U, L, Q)
  BY <1>5 DEF Ordering
<1>7. QED
  BY <1>6 DEF U

-----------------------------------------------------------------------------
(* size().                                                                 *)

(* A bounded set of indices has a least number above all of them.          *)
LEMMA SizeIs ==
  ASSUME NEW map, DOMAIN map \subseteq Index
  PROVE  /\ SizeOf(map) \in 0 .. MaxSize
         /\ \A j \in DOMAIN map : j < SizeOf(map)
         /\ SizeOf(map) > 0 => SizeOf(map) - 1 \in DOMAIN map
<1> USE ContainerAssumption DEF Index
<1> DEFINE Above == {n \in Nat : \A j \in DOMAIN map : j < n}
<1>1. MaxSize \in Above
  OBVIOUS
<1>2. PICK u \in Above : \A n \in Above : ~ (n < u)
  <2>1. Above \subseteq Nat /\ Above # {}
    BY <1>1
  <2> HIDE DEF Above
  <2>2. PICK u \in Above : \A n \in Above : ~ (<<n, u>> \in OpToRel(<, Nat))
    BY <2>1, WFMin, NatLessThanWellFounded, Zenon
  <2>3. ASSUME NEW n \in Above, n < u
        PROVE  FALSE
    <3>1. n \in Nat /\ u \in Nat
      BY <2>1
    <3>2. <<n, u>> \in Nat \X Nat
      BY <3>1
    <3>3. <<n, u>>[1] < <<n, u>>[2]
      BY <2>3
    <3>4. <<n, u>> \in OpToRel(<, Nat)
      BY <3>2, <3>3, Zenon DEF OpToRel
    <3>5. QED
      BY <2>2, <3>4, Zenon
  <2>4. QED
    BY <2>3, Zenon
<1>3. \A n \in Above : u <= n
  BY <1>2
<1>4. u <= MaxSize
  BY <1>1, <1>3
<1>5. CASE u = 0
  <2>1. DOMAIN map = {}
    BY <1>5, SMTT(30)
  <2>2. QED
    BY <2>1 DEF SizeOf
<1>6. CASE u > 0
  <2>1. u - 1 \notin Above
    BY <1>3, <1>6
  <2>2. PICK j \in DOMAIN map : ~ (j < u - 1)
    BY <2>1, <1>6
  <2>3. u - 1 \in DOMAIN map
    BY <2>2
  <2>4. \A i \in DOMAIN map : i <= u - 1
    OBVIOUS
  <2>5. (CHOOSE i \in DOMAIN map : \A k \in DOMAIN map : k <= i) = u - 1
    BY <2>3, <2>4
  <2>6. SizeOf(map) = u
    BY <2>3, <2>5 DEF SizeOf
  <2>7. QED
    BY <1>4, <1>6, <2>3, <2>4, <2>6
<1>7. QED
  BY <1>5, <1>6

(* The size is the only such number.                                       *)
LEMMA SizeUnique ==
  ASSUME NEW map, DOMAIN map \subseteq Index, NEW n \in Nat,
         \A j \in DOMAIN map : j < n, n > 0 => n - 1 \in DOMAIN map
  PROVE  SizeOf(map) = n
BY SizeIs, ContainerAssumption DEF Index

(* A map without holes.                                                    *)
LEMMA DenseWhen ==
  ASSUME NEW map, NEW n \in 0 .. MaxSize, DOMAIN map = 0 .. n - 1
  PROVE  SizeOf(map) = n
BY SizeUnique, ContainerAssumption DEF Index

-----------------------------------------------------------------------------
(* Types.                                                                  *)

(* What the const operator[] reads is a value.                             *)
LEMMA AtType ==
  ASSUME ContainerTypeOK, NEW i
  PROVE  At(i) \in Values
BY ContainerAssumption DEF ContainerTypeOK, At

LEMMA FindType ==
  ASSUME ContainerTypeOK, NEW k
  PROVE  find(k) \in Values
BY ContainerAssumption DEF ContainerTypeOK, find

(* A change of an array that keeps indices and values keeps the types.     *)
LEMMA ArrayType ==
  ASSUME ContainerTypeOK, ~WrongType("array"), NEW map, ArrayBecomes(map),
         DOMAIN map \subseteq Index, \A j \in DOMAIN map : map[j] \in Values
  PROVE  ContainerTypeOK'
BY DEF ContainerTypeOK, WrongType, ArrayBecomes

LEMMA ObjectType ==
  ASSUME ContainerTypeOK, ~WrongType("object"), NEW map, ObjectBecomes(map),
         DOMAIN map \subseteq Keys, \A k \in DOMAIN map : map[k] \in Values
  PROVE  ContainerTypeOK'
BY DEF ContainerTypeOK, WrongType, ObjectBecomes

(* A call that changes no content keeps the types.                         *)
LEMMA SameType ==
  ASSUME ContainerTypeOK, UNCHANGED <<kind, items, members>>, threw' \in BOOLEAN
  PROVE  ContainerTypeOK'
BY DEF ContainerTypeOK

(* The operations on arrays keep the types.                                *)
LEMMA ArrayStepType ==
  ASSUME ContainerTypeOK, NEW i \in Index, NEW n \in 0 .. MaxSize, NEW v \in Values,
         Subscript(i) \/ append(v) \/ insert(i, v) \/ removeIndex(i) \/ resize(n)
  PROVE  ContainerTypeOK'
<1> USE ContainerAssumption DEF Index
<1>1. /\ Size \in 0 .. MaxSize /\ \A j \in DOMAIN items : j < Size
      /\ \A j : At(j) \in Values
      /\ DOMAIN items \subseteq Index /\ \A j \in DOMAIN items : items[j] \in Values
  BY SizeIs, AtType DEF Size, ContainerTypeOK
<1>2. ASSUME Throw PROVE ContainerTypeOK'
  BY <1>2, SameType DEF Throw
<1>3. CASE Subscript(i)
  <2>1. SUFFICES ASSUME ~WrongType("array"), NEW w \in Values,
                 ArrayBecomes([j \in DOMAIN items \cup {i} |-> IF j = i THEN w ELSE items[j]])
                 PROVE  ContainerTypeOK'
    BY <1>1, <1>2, <1>3 DEF Subscript
  <2>2. QED
    BY <2>1, <1>1, ArrayType
<1>4. CASE append(v)
  <2>1. SUFFICES ASSUME ~WrongType("array"), Size < MaxSize,
                 ArrayBecomes([j \in DOMAIN items \cup {Size} |->
                                 IF j = Size THEN v ELSE items[j]])
                 PROVE  ContainerTypeOK'
    BY <1>2, <1>4 DEF append
  <2>2. QED
    BY <2>1, <1>1, ArrayType
<1>5. CASE insert(i, v)
  <2>1. CASE ~WrongType("array") /\ i <= Size /\ Size < MaxSize /\ ArrayBecomes(Inserted(i, v))
    <3>1. /\ DOMAIN Inserted(i, v) \subseteq Index
          /\ \A j \in DOMAIN Inserted(i, v) : Inserted(i, v)[j] \in Values
      BY <2>1, <1>1 DEF Inserted
    <3>2. QED
      BY <3>1, <2>1, ArrayType
  <2>2. QED
    BY <1>2, <1>5, <2>1, SameType DEF insert
<1>6. CASE removeIndex(i)
  <2>1. CASE kind = "array" /\ i \in DOMAIN items /\ ArrayBecomes(Removed(i))
    <3>1. /\ DOMAIN Removed(i) \subseteq Index
          /\ \A j \in DOMAIN Removed(i) : Removed(i)[j] \in Values
      BY <2>1, <1>1 DEF Removed
    <3>2. QED
      BY <3>1, <2>1, ArrayType DEF WrongType
  <2>2. QED
    BY <1>6, <2>1, SameType DEF removeIndex
<1>7. CASE resize(n)
  <2>1. CASE ~WrongType("array") /\ kind' = "array" /\ items' = Resized(n)
             /\ threw' = (SizeOf(Resized(n)) # n) /\ UNCHANGED members
    <3>1. /\ DOMAIN Resized(n) \subseteq Index
          /\ \A j \in DOMAIN Resized(n) : Resized(n)[j] \in Values
      BY <1>1 DEF Resized
    <3>2. QED
      BY <3>1, <2>1 DEF ContainerTypeOK, WrongType
  <2>2. QED
    BY <1>2, <1>7, <2>1 DEF resize
<1>8. QED
  BY <1>3, <1>4, <1>5, <1>6, <1>7

(* The operations on objects keep the types.                               *)
LEMMA ObjectStepType ==
  ASSUME ContainerTypeOK, NEW k \in Keys,
         resolveReference(k) \/ removeMemberFound(k) \/ removeMember(k)
  PROVE  ContainerTypeOK'
<1>1. /\ find(k) \in Values
      /\ DOMAIN members \subseteq Keys /\ \A l \in DOMAIN members : members[l] \in Values
  BY FindType DEF ContainerTypeOK
<1>2. ASSUME kind = "object", ObjectBecomes(Without(k)) PROVE ContainerTypeOK'
  <2>1. /\ DOMAIN Without(k) \subseteq Keys
        /\ \A l \in DOMAIN Without(k) : Without(k)[l] \in Values
    BY <1>1 DEF Without
  <2>2. QED
    BY <1>2, <2>1, ObjectType DEF WrongType
<1>3. CASE resolveReference(k)
  <2>1. CASE WrongType("object") /\ Throw
    BY <2>1, SameType DEF Throw
  <2>2. ASSUME ~WrongType("object"), NEW w \in Values,
               ObjectBecomes([l \in DOMAIN members \cup {k} |->
                                IF l = k THEN w ELSE members[l]])
        PROVE  ContainerTypeOK'
    BY <2>2, <1>1, ObjectType
  <2>3. QED
    BY <1>1, <1>3, <2>1, <2>2 DEF resolveReference
<1>4. CASE removeMemberFound(k)
  BY <1>2, <1>4, SameType DEF removeMemberFound
<1>5. CASE removeMember(k)
  BY <1>2, <1>5, SameType DEF removeMember, Throw
<1>6. QED
  BY <1>3, <1>4, <1>5

LEMMA ContainerStepType == ContainerTypeOK /\ [ContainerNext]_containerVars => ContainerTypeOK'
<1> SUFFICES ASSUME ContainerTypeOK, [ContainerNext]_containerVars PROVE ContainerTypeOK'
  OBVIOUS
<1>1. Values # {} /\ Index # {} /\ \A i \in Index : i + 1 \in 0 .. MaxSize
  BY ContainerAssumption DEF Index
<1>2. ASSUME NEW i \in Index, Subscript(i) \/ removeIndex(i) \/ resize(i + 1)
      PROVE  ContainerTypeOK'
  BY <1>1, <1>2, ArrayStepType
<1>3. ASSUME NEW v \in Values, append(v) \/ \E i \in Index : insert(i, v)
      PROVE  ContainerTypeOK'
  <2>1. 0 \in 0 .. MaxSize
    BY ContainerAssumption
  <2>2. QED
    BY <1>1, <1>3, <2>1, ArrayStepType
<1>4. CASE resize(0)
  <2>1. 0 \in 0 .. MaxSize
    BY ContainerAssumption
  <2>2. QED
    BY <1>1, <1>4, <2>1, ArrayStepType
<1>5. CASE clear
  BY <1>5 DEF clear, ContainerTypeOK
<1>6. ASSUME NEW k \in Keys,
             \/ resolveReference(k) \/ resolveReference(CString[k])
             \/ removeMemberFound(k) \/ removeMember(CString[k])
      PROVE  ContainerTypeOK'
  BY <1>6, ContainerAssumption, ObjectStepType
<1>7. CASE UNCHANGED containerVars
  BY <1>7 DEF containerVars, ContainerTypeOK
<1>8. QED
  BY <1>2, <1>3, <1>4, <1>5, <1>6, <1>7 DEF ContainerNext

LEMMA ContainerInitType == ContainerInit => ContainerTypeOK
BY DEF ContainerInit, ContainerTypeOK

(***************************************************************************)
(* A value holds either elements or members, elements at indices below the *)
(* bound and members under known keys, whatever the calls.                 *)
(***************************************************************************)
THEOREM ContainerTyped == ContainerSpec => []ContainerTypeOK
BY ContainerInitType, ContainerStepType, PTL DEF ContainerSpec

-----------------------------------------------------------------------------
(* Holes.                                                                  *)

(* resize on an array without holes.                                       *)
LEMMA ResizeDense ==
  ASSUME ContainerTypeOK, Dense, NEW n \in 0 .. MaxSize
  PROVE  DOMAIN Resized(n) = 0 .. n - 1 /\ SizeOf(Resized(n)) = n
<1>1. Size \in 0 .. MaxSize /\ DOMAIN items = 0 .. Size - 1
  BY SizeIs DEF Size, ContainerTypeOK, Dense
<1>2. DOMAIN Resized(n) = 0 .. n - 1
  BY <1>1, ContainerAssumption DEF Resized
<1>3. QED
  BY <1>2, DenseWhen

(* A step that leaves no holes.                                            *)
LEMMA DenseAfter ==
  ASSUME NEW n \in 0 .. MaxSize, DOMAIN items' = 0 .. n - 1
  PROVE  Dense'
<1>1. SizeOf(items') = n
  BY DenseWhen
<1>2. QED
  BY <1>1 DEF Dense, Size

LEMMA StepDense ==
  ASSUME ContainerTypeOK, Dense, ContainerNext
  PROVE  Dense' \/ \E i \in Index : i > Size /\ Subscript(i)
<1>1. Size \in 0 .. MaxSize /\ DOMAIN items = 0 .. Size - 1
  BY SizeIs DEF Size, ContainerTypeOK, Dense
<1>2. ASSUME UNCHANGED items PROVE Dense'
  BY <1>2 DEF Dense, Size
<1>3. ASSUME NEW i \in Index, Subscript(i), ~ (i > Size) PROVE Dense'
  <2>1. CASE Throw
    BY <1>2, <2>1 DEF Throw
  <2>2. CASE DOMAIN items' = DOMAIN items \cup {i}
    <3>1. CASE i = Size
      <4>1. DOMAIN items' = 0 .. (Size + 1) - 1 /\ Size + 1 \in 0 .. MaxSize
        BY <1>1, <2>2, <3>1, ContainerAssumption DEF Index
      <4>2. QED
        BY <4>1, DenseAfter
    <3>2. CASE i < Size
      <4>1. DOMAIN items' = 0 .. Size - 1
        BY <1>1, <2>2, <3>2 DEF Index
      <4>2. QED
        BY <1>1, <4>1, DenseAfter
    <3>3. QED
      BY <1>1, <1>3, <3>1, <3>2 DEF Index
  <2>3. QED
    BY <1>3, <2>1, <2>2 DEF Subscript, ArrayBecomes
<1>4. ASSUME NEW v \in Values, append(v) PROVE Dense'
  <2>1. CASE Throw
    BY <1>2, <2>1 DEF Throw
  <2>2. CASE Size < MaxSize /\ DOMAIN items' = DOMAIN items \cup {Size}
    <3>1. DOMAIN items' = 0 .. (Size + 1) - 1 /\ Size + 1 \in 0 .. MaxSize
      BY <1>1, <2>2, ContainerAssumption
    <3>2. QED
      BY <3>1, DenseAfter
  <2>3. QED
    BY <1>4, <2>1, <2>2 DEF append, ArrayBecomes
<1>5. ASSUME NEW i \in Index, NEW v \in Values, insert(i, v) PROVE Dense'
  <2>1. CASE UNCHANGED items
    BY <1>2, <2>1
  <2>2. CASE i <= Size /\ Size < MaxSize /\ items' = Inserted(i, v)
    <3>1. DOMAIN items' = 0 .. (Size + 1) - 1 /\ Size + 1 \in 0 .. MaxSize
      BY <1>1, <2>2, ContainerAssumption DEF Inserted, Index
    <3>2. QED
      BY <3>1, DenseAfter
  <2>3. QED
    BY <1>5, <2>1, <2>2 DEF insert, ArrayBecomes, Throw
<1>6. ASSUME NEW i \in Index, removeIndex(i) PROVE Dense'
  <2>1. CASE UNCHANGED items
    BY <1>2, <2>1
  <2>2. CASE i \in DOMAIN items /\ items' = Removed(i)
    <3>1. DOMAIN items' = 0 .. (Size - 1) - 1 /\ Size - 1 \in 0 .. MaxSize
      BY <1>1, <2>2, ContainerAssumption DEF Removed, Index
    <3>2. QED
      BY <3>1, DenseAfter
  <2>3. QED
    BY <1>6, <2>1, <2>2 DEF removeIndex, ArrayBecomes
<1>7. ASSUME NEW n \in 0 .. MaxSize, resize(n) PROVE Dense'
  <2>1. CASE UNCHANGED items
    BY <1>2, <2>1
  <2>2. CASE items' = Resized(n)
    BY <2>2, ResizeDense, DenseAfter
  <2>3. QED
    BY <1>7, <2>1, <2>2 DEF resize, Throw
<1>8. ASSUME clear PROVE Dense'
  <2>1. DOMAIN items' = 0 .. 0 - 1 /\ 0 \in 0 .. MaxSize
    BY <1>8, ContainerAssumption DEF clear
  <2>2. QED
    BY <2>1, DenseAfter
<1>9. ASSUME NEW k, resolveReference(k) \/ removeMemberFound(k) \/ removeMember(k) PROVE Dense'
  <2>1. UNCHANGED items
    BY <1>9 DEF resolveReference, removeMemberFound, removeMember, ObjectBecomes, Throw
  <2>2. QED
    BY <1>2, <2>1
<1>10. 0 \in 0 .. MaxSize /\ \A i \in Index : i + 1 \in 0 .. MaxSize
  BY ContainerAssumption DEF Index
<1>11. QED
  BY <1>3, <1>4, <1>5, <1>6, <1>7, <1>8, <1>9, <1>10 DEF ContainerNext

(***************************************************************************)
(* Only operator[] behind the end leaves holes, and resize's assertion on  *)
(* an array without holes cannot fail.                                     *)
(***************************************************************************)
THEOREM HolesOnlyBySubscript == ContainerSpec => KeepsDense
<1>1. ASSUME ContainerTypeOK, Dense, NEW n \in 0 .. MaxSize, resize(n), ~WrongType("array")
      PROVE  Size' = n /\ ~threw'
  <2>1. items' = Resized(n) /\ threw' = (SizeOf(Resized(n)) # n)
    BY <1>1 DEF resize
  <2>2. QED
    BY <1>1, <2>1, ResizeDense DEF Size
<1>2. ContainerTypeOK /\ [ContainerNext]_containerVars => [DenseStep]_containerVars
  BY <1>1, StepDense DEF DenseStep
<1>3. QED
  BY <1>2, ContainerTyped, PTL DEF ContainerSpec, KeepsDense

-----------------------------------------------------------------------------
(* Reading an array as a list.                                             *)

IsMap(map) == DOMAIN map \subseteq Index /\ \A i \in DOMAIN map : map[i] \in Values

(* The element at index i, and the list, that a map reads as.              *)
ReadAt(map, i) == IF i \in DOMAIN map THEN map[i] ELSE NullValue
ElementsOf(map) == [k \in 1 .. SizeOf(map) |-> ReadAt(map, k - 1)]

LEMMA ElementsFacts ==
  ASSUME NEW map, IsMap(map), NEW n, n = SizeOf(map)
  PROVE  /\ n \in 0 .. MaxSize /\ n \in Nat /\ MaxSize \in Nat
         /\ ElementsOf(map) \in Seq(Values) /\ Len(ElementsOf(map)) = n
         /\ ElementsOf(map) = [k \in 1 .. n |-> ReadAt(map, k - 1)]
         /\ \A k \in 1 .. n : ElementsOf(map)[k] = ReadAt(map, k - 1)
<1>1. n \in 0 .. MaxSize /\ n \in Nat /\ MaxSize \in Nat
  BY SizeIs, ContainerAssumption DEF IsMap
<1>2. \A i : ReadAt(map, i) \in Values
  BY ContainerAssumption DEF IsMap, ReadAt
<1>3. ElementsOf(map) = [k \in 1 .. n |-> ReadAt(map, k - 1)]
  BY DEF ElementsOf
<1>4. QED
  BY <1>1, <1>2, <1>3

LEMMA ElementsAre ==
  /\ Elements = ElementsOf(items) /\ Elements' = ElementsOf(items')
  /\ Size = SizeOf(items) /\ \A i : At(i) = ReadAt(items, i)
BY DEF Elements, ElementsOf, Size, At, ReadAt

LEMMA MapsAre ==
  ASSUME ContainerTypeOK, ContainerNext
  PROVE  IsMap(items) /\ IsMap(items')
<1>1. ContainerTypeOK'
  BY ContainerStepType
<1>2. QED
  BY <1>1 DEF ContainerTypeOK, IsMap

(* Erasing what is at index n and behind it.                               *)
LEMMA CutRefines ==
  ASSUME NEW map, IsMap(map), NEW map1, IsMap(map1),
         NEW n \in Nat, n < SizeOf(map),
         DOMAIN map1 = {k \in DOMAIN map : k < n}, \A k \in DOMAIN map1 : map1[k] = map[k]
  PROVE  \E m \in 0 .. n : /\ ElementsOf(map1) = SubSeq(ElementsOf(map), 1, m)
                           /\ \A k \in m + 1 .. n : ElementsOf(map)[k] = NullValue
<1> DEFINE s == SizeOf(map)
           m == SizeOf(map1)
           list == ElementsOf(map)
           list1 == ElementsOf(map1)
<1>1. /\ s \in Nat /\ list \in Seq(Values) /\ Len(list) = s
      /\ \A k \in 1 .. s : list[k] = ReadAt(map, k - 1)
  BY ElementsFacts
<1>2. /\ m \in Nat /\ list1 \in Seq(Values) /\ Len(list1) = m
      /\ \A k \in 1 .. m : list1[k] = ReadAt(map1, k - 1)
  BY ElementsFacts
<1>3. (\A j \in DOMAIN map1 : j < m) /\ (m > 0 => m - 1 \in DOMAIN map1)
  BY SizeIs DEF IsMap
<1> HIDE DEF s, m, list, list1
<1>4. m <= n
  BY <1>2, <1>3
<1>5. m <= s
  BY <1>1, <1>2, <1>4 DEF s
<1>6. \A i \in 0 .. n - 1 : ReadAt(map1, i) = ReadAt(map, i)
  BY DEF ReadAt
<1>7. list1 = SubSeq(list, 1, m)
  <2> DEFINE t == SubSeq(list, 1, m)
  <2>1. t \in Seq(Values) /\ Len(t) = m /\ \A k \in 1 .. m : t[k] = list[k]
    BY <1>1, <1>2, <1>5
  <2>2. ASSUME NEW k \in 1 .. m
        PROVE  list1[k] = t[k]
    <3>1. k \in 1 .. s /\ k - 1 \in 0 .. n - 1
      BY <1>1, <1>2, <1>4, <1>5
    <3> HIDE DEF t
    <3>2. QED
      BY <1>1, <1>2, <1>6, <2>1, <3>1
  <2> HIDE DEF t
  <2>3. list1 = t
    BY <1>2, <2>1, <2>2, SeqEqual
  <2>4. QED
    BY <2>3 DEF t
<1>8. ASSUME NEW k \in m + 1 .. n
      PROVE  list[k] = NullValue
  <2>1. k \in 1 .. s /\ k - 1 \in 0 .. n - 1 /\ ~(k - 1 < m)
    BY <1>1, <1>2, <1>8 DEF s
  <2>2. k - 1 \notin DOMAIN map1
    BY <1>3, <2>1
  <2>3. ReadAt(map1, k - 1) = NullValue
    BY <2>2 DEF ReadAt
  <2>4. QED
    BY <1>1, <1>6, <2>1, <2>3
<1>9. m \in 0 .. n
  BY <1>2, <1>4
<1>10. QED
  BY <1>7, <1>8, <1>9 DEF list, list1

(* A value written at index i, and at place i + 1 of a list of n places.   *)
Written(map, i, v) == [j \in DOMAIN map \cup {i} |-> IF j = i THEN v ELSE map[j]]
ListWritten(list, n, i, v) ==
  [[j \in 1 .. n |-> IF j <= Len(list) THEN list[j] ELSE NullValue] EXCEPT ![i + 1] = v]

LEMMA SetRefines ==
  ASSUME NEW map, IsMap(map), NEW map1, IsMap(map1), NEW i \in Index, NEW v \in Values,
         map1 = Written(map, i, v),
         NEW list, list = ElementsOf(map),
         NEW n, n = IF i + 1 > Len(list) THEN i + 1 ELSE Len(list)
  PROVE  ElementsOf(map1) = ListWritten(list, n, i, v)
<1> USE DEF Written, ListWritten
<1> DEFINE s == SizeOf(map)
<1>1. /\ s \in Nat /\ Len(list) = s /\ MaxSize \in Nat
      /\ \A k \in 1 .. s : list[k] = ReadAt(map, k - 1)
  BY ElementsFacts
<1>2. (\A j \in DOMAIN map : j < s) /\ (s > 0 => s - 1 \in DOMAIN map)
  BY SizeIs DEF IsMap
<1> HIDE DEF s
<1>3. i \in Nat /\ n \in Nat /\ n >= i + 1 /\ n >= s /\ (n = i + 1 \/ n = s)
  BY <1>1, ContainerAssumption DEF Index
<1>4. SizeOf(map1) = n
  <2>1. DOMAIN map1 = DOMAIN map \cup {i} /\ DOMAIN map1 \subseteq Index
    BY DEF IsMap
  <2>2. \A j \in DOMAIN map1 : j < n
    <3>1. \A j \in DOMAIN map : j \in Nat
      BY ContainerAssumption DEF IsMap, Index
    <3>2. QED
      BY <1>1, <1>2, <1>3, <2>1, <3>1
  <2>3. n - 1 \in DOMAIN map1
    BY <1>1, <1>2, <1>3, <2>1
  <2>4. QED
    BY <1>3, <2>1, <2>2, <2>3, SizeUnique
<1>5. ElementsOf(map1) = [k \in 1 .. n |-> ReadAt(map1, k - 1)]
  BY <1>4, ElementsFacts
<1>6. ASSUME NEW k \in 1 .. n
      PROVE  ReadAt(map1, k - 1) =
               IF k = i + 1 THEN v ELSE IF k <= s THEN list[k] ELSE NullValue
  <2>1. CASE k = i + 1
    BY <1>3, <2>1 DEF ReadAt
  <2>2. CASE k # i + 1
    <3>1. ReadAt(map1, k - 1) = ReadAt(map, k - 1)
      BY <1>3, <2>2 DEF ReadAt
    <3>2. CASE k <= s
      <4>1. k \in 1 .. s
        BY <1>1, <1>3, <3>2
      <4>2. QED
        BY <1>1, <2>2, <3>1, <3>2, <4>1
    <3>3. CASE ~(k <= s)
      <4>1. k - 1 \notin DOMAIN map
        BY <1>1, <1>2, <1>3, <3>3
      <4>2. QED
        BY <2>2, <3>1, <3>3, <4>1 DEF ReadAt
    <3>4. QED
      BY <3>2, <3>3
  <2>3. QED
    BY <2>1, <2>2
<1>7. QED
  BY <1>1, <1>3, <1>5, <1>6, ZenonT(60)

(* The elements of a concatenation of m elements and n more.               *)
Joined(r, a, b, m, n) ==
  /\ r \in Seq(Values) /\ Len(r) = m + n
  /\ \A k \in 1 .. m + n : r[k] = IF k <= m THEN a[k] ELSE b[k - m]

LEMMA ConcatAt ==
  ASSUME NEW a \in Seq(Values), NEW b \in Seq(Values)
  PROVE  Joined(a \o b, a, b, Len(a), Len(b))
BY ConcatProperties, Zenon DEF Joined

LEMMA AppendRefines ==
  ASSUME NEW map, IsMap(map), NEW map1, IsMap(map1), NEW v \in Values,
         NEW s, s = SizeOf(map),
         map1 = [j \in DOMAIN map \cup {s} |-> IF j = s THEN v ELSE map[j]]
  PROVE  ElementsOf(map1) = Append(ElementsOf(map), v)
<1> DEFINE list == ElementsOf(map)
           list1 == ElementsOf(map1)
<1>1. /\ s \in Nat /\ list \in Seq(Values) /\ Len(list) = s
      /\ \A k \in 1 .. s : list[k] = ReadAt(map, k - 1)
  BY ElementsFacts
<1>2. (\A j \in DOMAIN map : j < s) /\ DOMAIN map1 = DOMAIN map \cup {s}
  BY SizeIs DEF IsMap
<1>3. SizeOf(map1) = s + 1
  <2>1. \A j \in DOMAIN map1 : j < s + 1
    <3>1. \A j \in DOMAIN map : j \in Nat
      BY ContainerAssumption DEF IsMap, Index
    <3>2. QED
      BY <1>1, <1>2, <3>1
  <2>2. (s + 1) - 1 \in DOMAIN map1 /\ s + 1 \in Nat
    BY <1>1, <1>2
  <2>3. QED
    BY <2>1, <2>2, SizeUnique DEF IsMap
<1>4. /\ list1 \in Seq(Values) /\ Len(list1) = s + 1
      /\ \A k \in 1 .. s + 1 : list1[k] = ReadAt(map1, k - 1)
  BY <1>3, ElementsFacts
<1> HIDE DEF list, list1
<1> DEFINE t == Append(list, v)
<1>5. t \in Seq(Values) /\ Len(t) = s + 1 /\ t[s + 1] = v /\ \A k \in 1 .. s : t[k] = list[k]
  BY <1>1
<1> HIDE DEF t
<1>6. ASSUME NEW k \in 1 .. s + 1
      PROVE  list1[k] = t[k]
  <2>1. CASE k = s + 1
    <3>1. (s + 1) - 1 = s /\ s \in DOMAIN map1 /\ s + 1 \in 1 .. s + 1
      BY <1>1, <1>2
    <3>2. ReadAt(map1, s) = v
      BY <3>1 DEF ReadAt
    <3>3. QED
      BY <1>4, <1>5, <2>1, <3>1, <3>2
  <2>2. CASE k \in 1 .. s
    <3>1. k - 1 # s
      BY <1>1, <2>2
    <3>2. ReadAt(map1, k - 1) = ReadAt(map, k - 1)
      BY <1>2, <3>1 DEF ReadAt
    <3>3. QED
      BY <1>1, <1>4, <1>5, <2>2, <3>2
  <2>3. QED
    BY <1>1, <2>1, <2>2
<1>7. list1 = t
  BY <1>4, <1>5, <1>6, SeqEqual
<1>8. QED
  BY <1>7 DEF list, list1, t

(* A value inserted at index i of s, and behind i elements of a list.      *)
Shifted(map, s, i, v) ==
  [j \in {k \in DOMAIN map : k < i} \cup i .. s |->
     IF j < i THEN map[j] ELSE IF j = i THEN v ELSE ReadAt(map, j - 1)]
ListShifted(list, s, i, v) == SubSeq(list, 1, i) \o <<v>> \o SubSeq(list, i + 1, s)

LEMMA InsertRefines ==
  ASSUME NEW map, IsMap(map), NEW map1, IsMap(map1), NEW v \in Values,
         NEW s, s = SizeOf(map), NEW i \in Nat, i <= s,
         map1 = Shifted(map, s, i, v)
  PROVE  ElementsOf(map1) = ListShifted(ElementsOf(map), s, i, v)
<1> USE DEF Shifted, ListShifted
<1> DEFINE list == ElementsOf(map)
           list1 == ElementsOf(map1)
<1>1. /\ s \in Nat /\ list \in Seq(Values) /\ Len(list) = s
      /\ \A k \in 1 .. s : list[k] = ReadAt(map, k - 1)
  BY ElementsFacts
<1>2. DOMAIN map1 = {k \in DOMAIN map : k < i} \cup i .. s
  OBVIOUS
<1>3. SizeOf(map1) = s + 1
  <2>1. \A j \in DOMAIN map1 : j < s + 1
    <3>1. \A j \in DOMAIN map : j \in Nat
      BY ContainerAssumption DEF IsMap, Index
    <3>2. QED
      BY <1>1, <1>2, <3>1
  <2>2. (s + 1) - 1 \in DOMAIN map1 /\ s + 1 \in Nat
    BY <1>1, <1>2
  <2>3. QED
    BY <2>1, <2>2, SizeUnique DEF IsMap
<1>4. /\ list1 \in Seq(Values) /\ Len(list1) = s + 1
      /\ \A k \in 1 .. s + 1 : list1[k] = ReadAt(map1, k - 1)
  BY <1>3, ElementsFacts
<1> HIDE DEF list, list1
<1> DEFINE front == SubSeq(list, 1, i)
           back == SubSeq(list, i + 1, s)
           t == front \o <<v>> \o back
<1>5. front \in Seq(Values) /\ Len(front) = i /\ \A k \in 1 .. i : front[k] = list[k]
  BY <1>1
<1>6. back \in Seq(Values) /\ Len(back) = s - i /\ \A k \in 1 .. s - i : back[k] = list[k + i]
  BY <1>1
<1> HIDE DEF front, back
<1>7. /\ t \in Seq(Values) /\ Len(t) = s + 1
      /\ \A k \in 1 .. s + 1 :
           t[k] = IF k <= i THEN list[k] ELSE IF k = i + 1 THEN v ELSE list[k - 1]
  <2> DEFINE one == <<v>>
             u == front \o one
  <2>1. one \in Seq(Values) /\ Len(one) = 1 /\ one[1] = v
    OBVIOUS
  <2> HIDE DEF one
  <2>2. /\ u \in Seq(Values) /\ Len(u) = i + 1
        /\ \A k \in 1 .. i + 1 : u[k] = IF k <= i THEN front[k] ELSE one[k - i]
    <3>1. Joined(u, front, one, Len(front), Len(one))
      BY <1>5, <2>1, ConcatAt, Zenon
    <3> HIDE DEF u
    <3>2. Joined(u, front, one, i, 1)
      BY <1>5, <2>1, <3>1, Zenon
    <3>3. QED
      BY <3>2, Zenon DEF Joined
  <2>3. \A k \in 1 .. i + 1 : u[k] = IF k <= i THEN list[k] ELSE v
    <3> HIDE DEF u
    <3> SUFFICES ASSUME NEW k \in 1 .. i + 1
                 PROVE  u[k] = IF k <= i THEN list[k] ELSE v
      OBVIOUS
    <3>1. CASE k <= i
      BY <1>5, <2>2, <3>1
    <3>2. CASE ~(k <= i)
      <4>1. k - i = 1
        BY <3>2
      <4>2. QED
        BY <2>1, <2>2, <3>2, <4>1
    <3>3. QED
      BY <3>1, <3>2
  <2> HIDE DEF u
  <2>4. t = u \o back
    BY DEF u, one
  <2> HIDE DEF t
  <2>5. /\ t \in Seq(Values) /\ Len(t) = (i + 1) + (s - i)
        /\ \A k \in 1 .. (i + 1) + (s - i) :
             t[k] = IF k <= i + 1 THEN u[k] ELSE back[k - (i + 1)]
    <3>1. Joined(t, u, back, Len(u), Len(back))
      BY <1>6, <2>2, <2>4, ConcatAt, Zenon
    <3>2. Joined(t, u, back, i + 1, s - i)
      BY <1>6, <2>2, <3>1, Zenon
    <3>3. QED
      BY <3>2, Zenon DEF Joined
  <2>6. (i + 1) + (s - i) = s + 1
    BY <1>1
  <2>7. ASSUME NEW k \in 1 .. s + 1
        PROVE  t[k] = IF k <= i THEN list[k] ELSE IF k = i + 1 THEN v ELSE list[k - 1]
    <3>1. t[k] = IF k <= i + 1 THEN u[k] ELSE back[k - (i + 1)]
      BY <2>5, <2>6
    <3>2. CASE k <= i + 1
      <4>1. k \in 1 .. i + 1
        BY <1>1, <3>2
      <4>2. QED
        BY <2>3, <3>1, <3>2, <4>1
    <3>3. CASE ~(k <= i + 1)
      <4>1. k - (i + 1) \in 1 .. s - i /\ (k - (i + 1)) + i = k - 1
        BY <1>1, <3>3
      <4>2. t[k] = list[k - 1]
        BY <1>6, <3>1, <3>3, <4>1
      <4>3. QED
        BY <3>3, <4>2
    <3>4. QED
      BY <3>2, <3>3
  <2>8. QED
    BY <2>5, <2>6, <2>7
<1> HIDE DEF t
<1>8. ASSUME NEW k \in 1 .. s + 1
      PROVE  list1[k] = t[k]
  <2>1. CASE k <= i
    <3>1. k - 1 < i /\ k \in 1 .. s
      BY <1>1, <2>1
    <3>2. ReadAt(map1, k - 1) = ReadAt(map, k - 1)
      <4>1. k - 1 \notin i .. s
        BY <1>1, <3>1
      <4>2. k - 1 \in DOMAIN map1 <=> k - 1 \in DOMAIN map
        BY <1>2, <3>1, <4>1
      <4>3. k - 1 \in DOMAIN map1 => map1[k - 1] = map[k - 1]
        BY <1>2, <3>1
      <4>4. QED
        BY <4>2, <4>3 DEF ReadAt
    <3>3. QED
      BY <1>1, <1>4, <1>7, <2>1, <3>1, <3>2
  <2>2. CASE k = i + 1
    <3>1. k - 1 = i /\ i \in DOMAIN map1 /\ ~(i < i) /\ ~(k <= i)
      BY <1>1, <1>2, <2>2
    <3>2. ReadAt(map1, k - 1) = v
      BY <3>1 DEF ReadAt
    <3>3. QED
      BY <1>4, <1>7, <2>2, <3>1, <3>2
  <2>3. CASE k > i + 1
    <3>1. /\ k - 1 \in i .. s /\ ~(k - 1 < i) /\ k - 1 # i /\ ~(k <= i) /\ k # i + 1
          /\ k - 1 \in 1 .. s
      BY <1>1, <2>3
    <3>2. ReadAt(map1, k - 1) = ReadAt(map, (k - 1) - 1)
      BY <1>2, <3>1 DEF ReadAt
    <3>3. list[k - 1] = ReadAt(map, (k - 1) - 1)
      BY <1>1, <3>1
    <3>4. t[k] = list[k - 1] /\ list1[k] = ReadAt(map1, k - 1)
      BY <1>4, <1>7, <3>1
    <3>5. QED
      BY <3>2, <3>3, <3>4
  <2>4. QED
    BY <1>1, <2>1, <2>2, <2>3
<1>9. list1 = t
  BY <1>4, <1>7, <1>8, SeqEqual
<1>10. QED
  BY <1>9 DEF list, list1, t, front, back

LEMMA RemoveRefines ==
  ASSUME NEW map, IsMap(map), NEW map1, IsMap(map1),
         NEW s, s = SizeOf(map), NEW i \in Nat, i + 1 < s,
         map1 = [j \in {k \in DOMAIN map : k < i} \cup i .. s - 2 |->
                   IF j < i THEN map[j] ELSE ReadAt(map, j + 1)]
  PROVE  ElementsOf(map1) =
           SubSeq(ElementsOf(map), 1, i) \o SubSeq(ElementsOf(map), i + 2, s)
<1> DEFINE list == ElementsOf(map)
           list1 == ElementsOf(map1)
<1>1. /\ s \in Nat /\ list \in Seq(Values) /\ Len(list) = s
      /\ \A k \in 1 .. s : list[k] = ReadAt(map, k - 1)
  BY ElementsFacts
<1>2. DOMAIN map1 = {k \in DOMAIN map : k < i} \cup i .. s - 2
  OBVIOUS
<1>3. SizeOf(map1) = s - 1
  <2>1. \A j \in DOMAIN map1 : j < s - 1
    <3>1. \A j \in DOMAIN map : j \in Nat
      BY ContainerAssumption DEF IsMap, Index
    <3>2. QED
      BY <1>1, <1>2, <3>1
  <2>2. (s - 1) - 1 \in DOMAIN map1 /\ s - 1 \in Nat
    BY <1>1, <1>2
  <2>3. QED
    BY <2>1, <2>2, SizeUnique DEF IsMap
<1>4. /\ list1 \in Seq(Values) /\ Len(list1) = s - 1
      /\ \A k \in 1 .. s - 1 : list1[k] = ReadAt(map1, k - 1)
  BY <1>3, ElementsFacts
<1> HIDE DEF list, list1
<1> DEFINE front == SubSeq(list, 1, i)
           back == SubSeq(list, i + 2, s)
           t == front \o back
<1>5. front \in Seq(Values) /\ Len(front) = i /\ \A k \in 1 .. i : front[k] = list[k]
  BY <1>1
<1>6. /\ back \in Seq(Values) /\ Len(back) = (s - i) - 1
      /\ \A k \in 1 .. (s - i) - 1 : back[k] = list[(i + 1) + k]
  <2>1. i + 2 \in Int /\ s \in Int /\ i + 2 <= s + 1 /\ list \in Seq(Values) /\ Len(list) = s
    BY <1>1
  <2>2. \A k \in i + 2 .. s : list[k] \in Values
    BY <2>1
  <2>3. /\ SubSeq(list, i + 2, s) \in Seq(Values)
        /\ Len(SubSeq(list, i + 2, s)) = IF i + 2 <= s THEN s - (i + 2) + 1 ELSE 0
        /\ \A k \in 1 .. s - (i + 2) + 1 : SubSeq(list, i + 2, s)[k] = list[(i + 2) + k - 1]
    <3> DEFINE m == i + 2
    <3>1. m \in Int /\ s \in Int /\ \A k \in m .. s : list[k] \in Values
      BY <2>1, <2>2
    <3> HIDE DEF m
    <3>2. /\ SubSeq(list, m, s) \in Seq(Values)
          /\ Len(SubSeq(list, m, s)) = IF m <= s THEN s - m + 1 ELSE 0
          /\ \A k \in 1 .. s - m + 1 : SubSeq(list, m, s)[k] = list[m + k - 1]
      BY <3>1, SubSeqProperties
    <3>3. QED
      BY <3>2 DEF m
  <2>4. /\ (IF i + 2 <= s THEN s - (i + 2) + 1 ELSE 0) = (s - i) - 1
        /\ s - (i + 2) + 1 = (s - i) - 1
        /\ \A k \in 1 .. (s - i) - 1 : (i + 2) + k - 1 = (i + 1) + k
    BY <2>1
  <2>5. QED
    BY <2>3, <2>4
<1> HIDE DEF front, back
<1>7. /\ t \in Seq(Values) /\ Len(t) = s - 1
      /\ \A k \in 1 .. s - 1 : t[k] = IF k <= i THEN list[k] ELSE list[k + 1]
  <2>1. /\ t \in Seq(Values) /\ Len(t) = i + ((s - i) - 1)
        /\ \A k \in 1 .. i + ((s - i) - 1) : t[k] = IF k <= i THEN front[k] ELSE back[k - i]
    <3>1. Joined(t, front, back, Len(front), Len(back))
      BY <1>5, <1>6, ConcatAt, Zenon
    <3> HIDE DEF t
    <3>2. Joined(t, front, back, i, (s - i) - 1)
      BY <1>5, <1>6, <3>1, Zenon
    <3>3. QED
      BY <3>2, Zenon DEF Joined
  <2> HIDE DEF t
  <2>2. i + ((s - i) - 1) = s - 1
    BY <1>1
  <2>3. ASSUME NEW k \in 1 .. s - 1
        PROVE  t[k] = IF k <= i THEN list[k] ELSE list[k + 1]
    <3>1. t[k] = IF k <= i THEN front[k] ELSE back[k - i]
      BY <2>1, <2>2
    <3>2. CASE k <= i
      BY <1>5, <3>1, <3>2
    <3>3. CASE ~(k <= i)
      <4>1. k - i \in 1 .. (s - i) - 1 /\ (i + 1) + (k - i) = k + 1
        BY <1>1, <3>3
      <4>2. QED
        BY <1>6, <3>1, <3>3, <4>1
    <3>4. QED
      BY <3>2, <3>3
  <2>4. QED
    BY <2>1, <2>2, <2>3
<1> HIDE DEF t
<1>8. ASSUME NEW k \in 1 .. s - 1
      PROVE  list1[k] = t[k]
  <2>1. CASE k <= i
    <3>1. k - 1 < i /\ k \in 1 .. s
      BY <1>1, <2>1
    <3>2. ReadAt(map1, k - 1) = ReadAt(map, k - 1)
      <4>1. k - 1 \notin i .. s - 2
        BY <1>1, <3>1
      <4>2. k - 1 \in DOMAIN map1 <=> k - 1 \in DOMAIN map
        BY <1>2, <3>1, <4>1
      <4>3. k - 1 \in DOMAIN map1 => map1[k - 1] = map[k - 1]
        BY <1>2, <3>1
      <4>4. QED
        BY <4>2, <4>3 DEF ReadAt
    <3>3. QED
      BY <1>1, <1>4, <1>7, <2>1, <3>1, <3>2
  <2>2. CASE k > i
    <3>1. /\ k - 1 \in i .. s - 2 /\ ~(k - 1 < i) /\ ~(k <= i)
          /\ k + 1 \in 1 .. s /\ (k - 1) + 1 = (k + 1) - 1
      BY <1>1, <2>2
    <3>2. ReadAt(map1, k - 1) = ReadAt(map, (k - 1) + 1)
      BY <1>2, <3>1 DEF ReadAt
    <3>3. list[k + 1] = ReadAt(map, (k + 1) - 1)
      BY <1>1, <3>1
    <3>4. QED
      BY <1>4, <1>7, <3>1, <3>2, <3>3
  <2>3. QED
    BY <1>1, <2>1, <2>2
<1>9. list1 = t
  BY <1>4, <1>7, <1>8, SeqEqual
<1>10. QED
  BY <1>9 DEF list, list1, t, front, back

(* resize to at least the size there is.                                   *)
LEMMA GrowRefines ==
  ASSUME NEW map, IsMap(map), NEW map1, IsMap(map1),
         NEW s, s = SizeOf(map), NEW n \in Nat, n >= s,
         DOMAIN map1 = {k \in DOMAIN map : k < n} \cup (IF n > s THEN s .. n - 1 ELSE {}),
         \A j \in DOMAIN map1 : map1[j] = ReadAt(map, j),
         NEW list, list = ElementsOf(map)
  PROVE  /\ ElementsOf(map1) = [j \in 1 .. n |-> IF j <= Len(list) THEN list[j] ELSE NullValue]
         /\ n = s => ElementsOf(map1) = list
<1>1. /\ s \in Nat /\ Len(list) = s /\ list = [k \in 1 .. s |-> list[k]]
      /\ \A k \in 1 .. s : list[k] = ReadAt(map, k - 1)
  BY ElementsFacts
<1>2. (\A j \in DOMAIN map : j < s /\ j \in Nat) /\ (s > 0 => s - 1 \in DOMAIN map)
  BY SizeIs, ContainerAssumption DEF IsMap, Index
<1>3. SizeOf(map1) = n
  <2>1. \A j \in DOMAIN map1 : j < n
    BY <1>1
  <2>2. n > 0 => n - 1 \in DOMAIN map1
    BY <1>1, <1>2
  <2>3. QED
    BY <2>1, <2>2, SizeUnique DEF IsMap
<1>4. ElementsOf(map1) = [k \in 1 .. n |-> ReadAt(map1, k - 1)]
  BY <1>3, ElementsFacts
<1>5. ASSUME NEW k \in 1 .. n
      PROVE  ReadAt(map1, k - 1) = IF k <= s THEN list[k] ELSE NullValue
  <2>1. ReadAt(map1, k - 1) = ReadAt(map, k - 1)
    <3>1. k - 1 \in DOMAIN map => k - 1 \in DOMAIN map1
      BY <1>1
    <3>2. QED
      BY <3>1 DEF ReadAt
  <2>2. CASE k <= s
    BY <1>1, <2>1, <2>2
  <2>3. CASE ~(k <= s)
    <3>1. k - 1 \notin DOMAIN map
      BY <1>1, <1>2, <2>3
    <3>2. QED
      BY <2>1, <2>3, <3>1 DEF ReadAt
  <2>4. QED
    BY <2>2, <2>3
<1>6. ElementsOf(map1) = [k \in 1 .. n |-> IF k <= s THEN list[k] ELSE NullValue]
  BY <1>4, <1>5
<1>7. n = s => ElementsOf(map1) = list
  <2>1. [k \in 1 .. s |-> IF k <= s THEN list[k] ELSE NullValue] = [k \in 1 .. s |-> list[k]]
    BY <1>1
  <2>2. QED
    BY <1>1, <1>6, <2>1
<1>8. QED
  BY <1>1, <1>6, <1>7

(* A call that leaves the elements alone.                                  *)
LEMMA SameRefines ==
  ASSUME UNCHANGED items
  PROVE  Elements' = Elements
BY ElementsAre

(* An object refuses the calls on arrays.                                  *)
LEMMA RefusedRefines ==
  ASSUME kind = "object", kind' = "object", UNCHANGED items
  PROVE  List!ListNext
BY SameRefines DEF List!ListNext

LEMMA WrongTypeRefines ==
  ASSUME ContainerTypeOK, WrongType("array"), Throw
  PROVE  List!ListNext
BY RefusedRefines DEF ContainerTypeOK, WrongType, Throw

(* The calls on arrays that are not refused.                               *)
LEMMA ArrayRefines ==
  ASSUME kind # "object", kind' # "object", List!ArrayCall
  PROVE  List!ListNext
BY DEF List!ListNext

LEMMA SubscriptRefines ==
  ASSUME ContainerTypeOK, ContainerTypeOK', NEW i \in Index, Subscript(i)
  PROVE  List!ListNext
<1>1. CASE WrongType("array") /\ Throw
  BY <1>1, WrongTypeRefines
<1>2. ASSUME NEW v \in Values, ~WrongType("array"),
             ArrayBecomes([j \in DOMAIN items \cup {i} |-> IF j = i THEN v ELSE items[j]])
      PROVE  List!ListNext
  <2>1. IsMap(items) /\ IsMap(items')
    BY DEF ContainerTypeOK, IsMap
  <2>2. i \in List!Index
    BY DEF Index, List!Index
  <2>3. PICK list, n : /\ list = ElementsOf(items)
                       /\ n = IF i + 1 > Len(list) THEN i + 1 ELSE Len(list)
    OBVIOUS
  <2>4. ElementsOf(items') = ListWritten(list, n, i, v)
    <3>1. items' = Written(items, i, v)
      BY <1>2 DEF Written, ArrayBecomes
    <3>2. QED
      BY <2>1, <2>3, <3>1, SetRefines
  <2>5. List!Set(i + 1, v)
    BY <2>3, <2>4, ElementsAre DEF List!Set, List!Padded, ListWritten
  <2>6. List!Assigned(i)
    BY <2>5 DEF List!Assigned, Subscript
  <2>7. List!ArrayCall
    BY <2>2, <2>6 DEF List!ArrayCall
  <2>8. QED
    BY <1>2, <2>7, ArrayRefines DEF WrongType, ArrayBecomes
<1>3. QED
  BY <1>1, <1>2, AtType DEF Subscript

LEMMA AppendStepRefines ==
  ASSUME ContainerTypeOK, ContainerTypeOK', NEW v \in Values, append(v)
  PROVE  List!ListNext
<1>1. CASE WrongType("array") /\ Throw
  BY <1>1, WrongTypeRefines
<1>2. CASE /\ ~WrongType("array")
           /\ ArrayBecomes([j \in DOMAIN items \cup {Size} |->
                              IF j = Size THEN v ELSE items[j]])
  <2>1. IsMap(items) /\ IsMap(items')
    BY DEF ContainerTypeOK, IsMap
  <2>2. items' = [j \in DOMAIN items \cup {Size} |-> IF j = Size THEN v ELSE items[j]]
    BY <1>2 DEF ArrayBecomes
  <2>3. ElementsOf(items') = Append(ElementsOf(items), v)
    BY <2>1, <2>2, AppendRefines, ElementsAre
  <2>4. List!Appended(v)
    BY <2>3, ElementsAre DEF List!AppendOne, List!Appended, append
  <2>5. List!ArrayCall
    BY <2>4 DEF List!ArrayCall
  <2>6. QED
    BY <1>2, <2>5, ArrayRefines DEF WrongType, ArrayBecomes
<1>3. QED
  BY <1>1, <1>2 DEF append

LEMMA InsertStepRefines ==
  ASSUME ContainerTypeOK, ContainerTypeOK', NEW i \in Index, NEW v \in Values, insert(i, v)
  PROVE  List!ListNext
<1>1. CASE WrongType("array") /\ Throw
  BY <1>1, WrongTypeRefines
<1>2. /\ IsMap(items) /\ IsMap(items')
      /\ Len(Elements) = Size /\ Size \in Nat
      /\ i \in List!Index /\ i \in Nat /\ (i + 1) - 1 = i
  <2>1. IsMap(items) /\ IsMap(items')
    BY DEF ContainerTypeOK, IsMap
  <2>2. i \in List!Index /\ i \in Nat /\ (i + 1) - 1 = i
    BY ContainerAssumption DEF Index, List!Index
  <2>3. QED
    BY <2>1, <2>2, ElementsFacts, ElementsAre
<1>3. ASSUME ~WrongType("array"), kind' # "object", List!Inserted(i, v)
      PROVE  List!ListNext
  <2>1. List!ArrayCall
    BY <1>2, <1>3 DEF List!ArrayCall
  <2>2. QED
    BY <1>3, <2>1, ArrayRefines DEF WrongType
<1>4. CASE ~WrongType("array") /\ i <= Size /\ ArrayBecomes(Inserted(i, v))
  <2>1. items' = Shifted(items, Size, i, v)
    BY <1>4, ElementsAre DEF Inserted, Shifted, ArrayBecomes
  <2>2. ElementsOf(items') = ListShifted(ElementsOf(items), Size, i, v)
    BY <1>2, <1>4, <2>1, InsertRefines, ElementsAre
  <2>3. List!InsertAt(i + 1, v)
    BY <1>2, <1>4, <2>2, ElementsAre DEF List!InsertAt, ListShifted
  <2>4. List!Inserted(i, v)
    BY <1>2, <1>4, <2>3 DEF List!Inserted, insert
  <2>5. QED
    BY <1>3, <1>4, <2>4 DEF ArrayBecomes
<1>5. CASE ~WrongType("array") /\ i > Size /\ UNCHANGED <<kind, items, members>>
  <2>1. ~(i <= Len(Elements)) /\ Elements' = Elements
    BY <1>2, <1>5, SameRefines
  <2>2. List!Inserted(i, v)
    BY <2>1 DEF List!Inserted, insert
  <2>3. QED
    BY <1>3, <1>5, <2>2 DEF WrongType
<1>6. QED
  BY <1>1, <1>4, <1>5 DEF insert

(* What is erased from index n on, below the end.                          *)
LEMMA ErasedRefines ==
  ASSUME ContainerTypeOK, ContainerTypeOK', NEW n \in Nat, n < Size,
         DOMAIN items' = {k \in DOMAIN items : k < n},
         \A k \in DOMAIN items' : items'[k] = items[k]
  PROVE  List!Cut(n)
<1>1. IsMap(items) /\ IsMap(items')
  BY DEF ContainerTypeOK, IsMap
<1>2. \E m \in 0 .. n : /\ ElementsOf(items') = SubSeq(ElementsOf(items), 1, m)
                        /\ \A k \in m + 1 .. n : ElementsOf(items)[k] = NullValue
  BY <1>1, CutRefines, ElementsAre
<1>3. Len(Elements) = Size /\ Size \in 0 .. MaxSize
  BY <1>1, ElementsFacts, ElementsAre
<1>4. QED
  BY <1>2, <1>3, ElementsAre DEF List!Cut

LEMMA RemoveStepRefines ==
  ASSUME ContainerTypeOK, ContainerTypeOK', NEW i \in Index, removeIndex(i)
  PROVE  List!ListNext
<1>1. CASE kind = "object"
  BY <1>1, RefusedRefines DEF removeIndex
<1>2. CASE kind # "object"
  <2>1. IsMap(items) /\ IsMap(items')
    BY DEF ContainerTypeOK, IsMap
  <2>2. /\ Len(Elements) = Size /\ Size \in 0 .. MaxSize /\ MaxSize \in Nat
        /\ i \in Nat /\ i \in List!Index
        /\ \A k \in 1 .. Size : Elements[k] = ReadAt(items, k - 1)
    BY <2>1, ElementsFacts, ElementsAre, ContainerAssumption DEF Index, List!Index
  <2>3. call' = <<"removeIndex", i>> /\ kind' # "object"
    BY <1>2 DEF removeIndex, ArrayBecomes
  <2>4. ASSUME List!Removed(i) PROVE List!ListNext
    <3>1. List!ArrayCall
      BY <2>2, <2>4 DEF List!ArrayCall
    <3>2. QED
      BY <1>2, <2>3, <3>1, ArrayRefines
  <2>5. CASE ~(kind = "array" /\ i \in DOMAIN items)
    <3>1. i \notin DOMAIN items /\ UNCHANGED items
      BY <1>2, <2>5 DEF removeIndex, ContainerTypeOK
    <3>2. i < Size => Elements[i + 1] = NullValue
      BY <2>2, <3>1 DEF ReadAt
    <3>3. \/ i < Len(Elements) /\ Elements[i + 1] = NullValue /\ Elements' = Elements
          \/ i >= Len(Elements) /\ Elements' = Elements
      BY <2>2, <3>1, <3>2, SameRefines
    <3>4. QED
      BY <2>3, <2>4, <3>3 DEF List!Removed
  <2>6. CASE kind = "array" /\ i \in DOMAIN items
    <3>1. items' = [j \in {k \in DOMAIN items : k < i} \cup i .. Size - 2 |->
                      IF j < i THEN items[j] ELSE ReadAt(items, j + 1)]
      BY <2>6, ElementsAre DEF Removed, removeIndex, ArrayBecomes
    <3>2. i < Size
      BY <2>1, <2>6, SizeIs DEF IsMap, Size
    <3>3. CASE i + 1 < Size
      <4>1. ElementsOf(items') =
              SubSeq(ElementsOf(items), 1, i) \o SubSeq(ElementsOf(items), i + 2, Size)
        BY <2>1, <2>2, <3>1, <3>3, RemoveRefines, ElementsAre
      <4>2. (i + 1) - 1 = i /\ (i + 1) + 1 = i + 2
        BY <2>2
      <4>3. List!RemoveAt(i + 1)
        BY <2>2, <3>3, <4>1, <4>2, ElementsAre DEF List!RemoveAt
      <4>4. QED
        BY <2>3, <2>4, <4>3 DEF List!Removed
    <3>4. CASE ~(i + 1 < Size)
      <4>1. i .. Size - 2 = {} /\ i + 1 = Len(Elements)
        BY <2>2, <3>2, <3>4
      <4>2. /\ DOMAIN items' = {k \in DOMAIN items : k < i}
            /\ \A k \in DOMAIN items' : items'[k] = items[k]
        BY <3>1, <4>1
      <4>3. List!Cut(i)
        BY <2>2, <3>2, <4>2, ErasedRefines
      <4>4. QED
        BY <2>3, <2>4, <4>1, <4>3 DEF List!Removed
    <3>5. QED
      BY <3>3, <3>4
  <2>7. QED
    BY <2>5, <2>6
<1>3. QED
  BY <1>1, <1>2

LEMMA ResizeRefines ==
  ASSUME ContainerTypeOK, ContainerTypeOK', NEW n \in 0 .. MaxSize, resize(n)
  PROVE  List!ListNext
<1>1. CASE WrongType("array") /\ Throw
  BY <1>1, WrongTypeRefines
<1>2. CASE ~WrongType("array") /\ kind' = "array" /\ items' = Resized(n)
  <2>1. IsMap(items) /\ IsMap(items')
    BY DEF ContainerTypeOK, IsMap
  <2>2. /\ Len(Elements) = Size /\ Size \in 0 .. MaxSize
        /\ MaxSize \in Nat /\ n \in Nat
    BY <2>1, ElementsFacts, ElementsAre, ContainerAssumption
  <2>3. /\ DOMAIN items' = {k \in DOMAIN items : k < n}
                           \cup (IF n > Size THEN Size .. n - 1 ELSE {})
        /\ \A j \in DOMAIN items' : items'[j] = ReadAt(items, j)
    BY <1>2, ElementsAre DEF Resized
  <2>4. ASSUME List!Resized(n) PROVE List!ListNext
    <3>1. List!ArrayCall
      BY <2>4 DEF List!ArrayCall
    <3>2. QED
      BY <1>2, <3>1, ArrayRefines DEF WrongType
  <2>5. CASE n < Size
    <3>1. /\ DOMAIN items' = {k \in DOMAIN items : k < n}
          /\ \A k \in DOMAIN items' : items'[k] = items[k]
      BY <2>2, <2>3, <2>5 DEF ReadAt
    <3>2. List!Cut(n)
      BY <2>2, <2>5, <3>1, ErasedRefines
    <3>3. QED
      BY <2>4, <3>2 DEF List!Resized, resize
  <2>6. CASE n >= Size
    <3> DEFINE list == ElementsOf(items)
    <3>1. /\ ElementsOf(items') =
               [j \in 1 .. n |-> IF j <= Len(list) THEN list[j] ELSE NullValue]
          /\ n = Size => ElementsOf(items') = list
      BY <2>1, <2>2, <2>3, <2>6, GrowRefines, ElementsAre
    <3>2. CASE n = Size
      BY <2>2, <2>4, <3>1, <3>2, ElementsAre DEF List!Resized, resize
    <3>3. CASE n > Size
      <4>1. List!Grow(n)
        BY <2>2, <3>1, <3>3, ElementsAre DEF List!Grow, List!Padded
      <4>2. QED
        BY <2>4, <4>1 DEF List!Resized, resize
    <3>4. QED
      BY <2>2, <2>6, <3>2, <3>3
  <2>7. QED
    BY <2>2, <2>5, <2>6
<1>3. QED
  BY <1>1, <1>2 DEF resize

LEMMA ClearRefines ==
  ASSUME ContainerTypeOK, clear
  PROVE  List!ListNext
<1>1. DOMAIN items' = {} /\ UNCHANGED kind /\ call' = <<"clear">>
  BY DEF clear
<1>2. Elements' = <<>>
  <2>1. SizeOf(items') = 0
    BY <1>1 DEF SizeOf
  <2>2. QED
    BY <2>1, ElementsAre DEF ElementsOf
<1>3. List!ArrayCall
  BY <1>1, <1>2 DEF List!ArrayCall, List!Cleared
<1>4. CASE kind # "object"
  BY <1>1, <1>3, <1>4, ArrayRefines
<1>5. CASE kind = "object"
  <2>1. DOMAIN items = {}
    BY <1>5 DEF ContainerTypeOK
  <2>2. Elements = <<>>
    BY <2>1, ElementsAre DEF ElementsOf, SizeOf
  <2>3. QED
    BY <1>1, <1>2, <1>5, <2>2 DEF List!ListNext
<1>6. QED
  BY <1>4, <1>5

LEMMA MemberRefines ==
  ASSUME ContainerTypeOK, NEW k \in Keys,
         resolveReference(k) \/ removeMemberFound(k) \/ removeMember(k)
  PROVE  List!ListNext
<1>1. Elements' = Elements
  <2>1. UNCHANGED items
    BY DEF resolveReference, removeMemberFound, removeMember, ObjectBecomes, Throw
  <2>2. QED
    BY <2>1, SameRefines
<1>2. CASE resolveReference(k)
  <2>1. ASSUME DOMAIN items = {} PROVE Elements = <<>>
    <3>1. SizeOf(items) = 0
      BY <2>1 DEF SizeOf
    <3>2. QED
      BY <3>1, ElementsAre DEF ElementsOf
  <2>2. Elements # <<>> => kind = "array"
    BY <2>1 DEF ContainerTypeOK
  <2>3. Elements # <<>> => ((kind' = "object") <=> (kind = "object"))
    BY <1>2, <2>2 DEF resolveReference, WrongType, Throw
  <2>4. List!MemberCall
    BY <1>1, <1>2, <2>3 DEF List!MemberCall, resolveReference
  <2>5. QED
    BY <2>4 DEF List!ListNext
<1>3. CASE removeMemberFound(k) \/ removeMember(k)
  <2>1. (kind' = "object") <=> (kind = "object")
    BY <1>3 DEF removeMemberFound, removeMember, ObjectBecomes, Throw
  <2>2. call' = <<"removeMember", k>>
    BY <1>3 DEF removeMemberFound, removeMember
  <2>3. List!MemberCall
    BY <1>1, <2>1, <2>2 DEF List!MemberCall
  <2>4. QED
    BY <2>3 DEF List!ListNext
<1>4. QED
  BY <1>2, <1>3

LEMMA StepRefines ==
  ASSUME ContainerTypeOK, [ContainerNext]_containerVars
  PROVE  List!ListNext \/ UNCHANGED <<Elements, kind = "object", call>>
<1>1. ContainerTypeOK'
  BY ContainerStepType
<1>2. 0 \in 0 .. MaxSize /\ \A i \in Index : i + 1 \in 0 .. MaxSize
  BY ContainerAssumption DEF Index
<1>3. ASSUME NEW i \in Index, Subscript(i) \/ removeIndex(i) \/ resize(i + 1)
      PROVE  List!ListNext
  BY <1>1, <1>2, <1>3, SubscriptRefines, RemoveStepRefines, ResizeRefines, Zenon
<1>4. ASSUME NEW v \in Values, append(v)
      PROVE  List!ListNext
  BY <1>1, <1>4, AppendStepRefines, Zenon
<1>5. ASSUME NEW i \in Index, NEW v \in Values, insert(i, v)
      PROVE  List!ListNext
  BY <1>1, <1>5, InsertStepRefines, Zenon
<1>6. CASE resize(0) \/ clear
  BY <1>1, <1>2, <1>6, ResizeRefines, ClearRefines, Zenon
<1>7. ASSUME NEW k \in Keys,
             \/ resolveReference(k) \/ resolveReference(CString[k])
             \/ removeMemberFound(k) \/ removeMember(CString[k])
      PROVE  List!ListNext
  <2>1. CString[k] \in Keys
    BY ContainerAssumption
  <2>2. QED
    BY <1>7, <2>1, MemberRefines, Zenon
<1>8. CASE UNCHANGED containerVars
  <2>1. UNCHANGED items /\ UNCHANGED kind /\ UNCHANGED call
    BY <1>8 DEF containerVars
  <2>2. QED
    BY <2>1, SameRefines
<1>9. CASE ContainerNext
  BY <1>3, <1>4, <1>5, <1>6, <1>7, <1>9 DEF ContainerNext
<1>10. QED
  BY <1>8, <1>9


LEMMA InitRefines == ContainerInit => List!ListInit
<1> SUFFICES ASSUME ContainerInit PROVE Elements = <<>>
  BY DEF List!ListInit, ContainerInit
<1>1. SizeOf(items) = 0
  BY DEF ContainerInit, SizeOf
<1>2. QED
  BY <1>1, ElementsAre DEF ElementsOf

(***************************************************************************)
(* Every call on an array is on the list that the array reads as, with its *)
(* arguments, the list operation of its name.  The list stays as it is     *)
(* only where the call has nothing to do: an index behind the end, a hole  *)
(* to be removed, the size that is there already, a call on members, an    *)
(* object.                                                                 *)
(***************************************************************************)
THEOREM ArrayImplementsList == ContainerSpec => ImplementsList
<1>1. ContainerTypeOK /\ [ContainerNext]_containerVars
        => [List!ListNext]_<<Elements, kind = "object", call>>
  BY StepRefines
<1>2. QED
  BY <1>1, InitRefines, ContainerTyped, PTL DEF ContainerSpec, ImplementsList, List!ListSpec
=============================================================================
