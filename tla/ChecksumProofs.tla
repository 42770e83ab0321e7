--------------------------- MODULE ChecksumProofs ---------------------------
(***************************************************************************)
(* The two checksums are the remainders of their polynomials, for messages *)
(* of every length, and what the first one detects.                        *)
(***************************************************************************)
EXTENDS Checksums, SequenceTheorems, WellFoundedInduction, TLAPS

-----------------------------------------------------------------------------
(* Induction, over sets instead of operators, and what loops compute.      *)

(* A set of natural numbers has a least element.                           *)
LEMMA Least ==
  ASSUME NEW T, T \subseteq Nat, T # {}
  PROVE  \E n \in T : \A m \in T : n <= m
<1> DEFINE R == OpToRel(<, Nat)
<1>1. IsWellFoundedOn(R, Nat)
  BY NatLessThanWellFounded
<1>2. \A m, n \in Nat : m < n => <<m, n>> \in R
  BY DEF OpToRel
<1> HIDE DEF R
<1>3. PICK n \in T : \A m \in T : ~ (<<m, n>> \in R)
  BY <1>1, WFMin
<1>4. \A m \in T : ~(m < n)
  BY <1>2, <1>3, Zenon
<1>5. QED
  BY <1>4

(* Induction over an interval: P is the set of the numbers for which       *)
(* something holds.                                                        *)
LEMMA Induction ==
  ASSUME NEW n \in Nat, NEW P, 0 \in P, \A k \in 1 .. n : k - 1 \in P => k \in P
  PROVE  0 .. n \subseteq P
<1> SUFFICES ASSUME (0 .. n) \ P # {} PROVE FALSE
  OBVIOUS
<1>1. PICK k \in (0 .. n) \ P : \A m \in (0 .. n) \ P : k <= m
  <2>1. (0 .. n) \ P \subseteq Nat
    OBVIOUS
  <2>2. QED
    BY <2>1, Least
<1>2. k \in 1 .. n /\ k - 1 \in 0 .. n /\ ~(k <= k - 1)
  BY <1>1
<1>3. QED
  BY <1>1, <1>2

(* The loop of Fold, as an equation.                                       *)
IsLoop(f, step, v, s, n) ==
  f = [k \in 0 .. n |-> IF k = 0 THEN v ELSE step[<<f[k - 1], s[k]>>]]

LEMMA LoopExists ==
  ASSUME NEW step, NEW v, NEW s, NEW n \in Nat
  PROVE  \E f : IsLoop(f, step, v, s, n)
<1> DEFINE P == {m \in Nat : \E f : IsLoop(f, step, v, s, m)}
<1>1. 0 \in P
  <2> DEFINE g == [k \in 0 .. 0 |-> v]
  <2>1. IsLoop(g, step, v, s, 0)
    BY DEF IsLoop
  <2>2. QED
    BY <2>1
<1>2. ASSUME NEW k \in 1 .. n, k - 1 \in P
      PROVE  k \in P
  <2>1. PICK f : IsLoop(f, step, v, s, k - 1)
    BY <1>2
  <2> DEFINE g == [j \in 0 .. k |-> IF j = k THEN step[<<f[k - 1], s[k]>>] ELSE f[j]]
  <2>2. g[k] = step[<<g[k - 1], s[k]>>] /\ g[0] = v
    <3>1. k - 1 \in 0 .. k /\ k - 1 # k /\ k \in 0 .. k /\ 0 \in 0 .. k /\ 0 # k
      OBVIOUS
    <3>2. f[0] = v
      BY <2>1 DEF IsLoop
    <3>3. g[k - 1] = f[k - 1] /\ g[k] = step[<<f[k - 1], s[k]>>] /\ g[0] = v
      BY <3>1, <3>2, Zenon
    <3>4. QED
      BY <3>3
  <2>3. ASSUME NEW j \in 1 .. k - 1
        PROVE  g[j] = step[<<g[j - 1], s[j]>>]
    <3>1. f[j] = step[<<f[j - 1], s[j]>>]
      BY <2>1 DEF IsLoop
    <3>2. g[j] = f[j] /\ g[j - 1] = f[j - 1]
      OBVIOUS
    <3>3. QED
      BY <3>1, <3>2
  <2> HIDE DEF g
  <2>4. \A j \in 0 .. k : g[j] = IF j = 0 THEN v ELSE step[<<g[j - 1], s[j]>>]
    BY <2>2, <2>3
  <2>5. g = [j \in 0 .. k |-> g[j]]
    BY DEF g
  <2>6. IsLoop(g, step, v, s, k)
    BY <2>4, <2>5, Zenon DEF IsLoop
  <2>7. QED
    BY <2>6
<1> HIDE DEF P
<1>3. n \in P
  <2>1. 0 .. n \subseteq P
    BY <1>1, <1>2, Induction
  <2>2. QED
    BY <2>1
<1>4. QED
  BY <1>3 DEF P

(* A step stays in V; a run holds the successive values of the loop.       *)
IsStep(step, V, E) == step \in [V \X E -> V]
IsRun(f, step, v, s, V) ==
  /\ f \in [0 .. Len(s) -> V]
  /\ f[0] = v /\ f[Len(s)] = Fold(step, v, s)
  /\ \A k \in 1 .. Len(s) : f[k] = step[<<f[k - 1], s[k]>>]

LEMMA FoldRun ==
  ASSUME NEW V, NEW E, NEW step, NEW v \in V, NEW s \in Seq(E), IsStep(step, V, E)
  PROVE  \E f : IsRun(f, step, v, s, V)
<1> DEFINE n == Len(s)
<1>1. n \in Nat /\ \A k \in 1 .. n : s[k] \in E
  BY LenProperties, ElementOfSeq
<1> HIDE DEF n
<1> DEFINE after == CHOOSE f : IsLoop(f, step, v, s, n)
<1>2. IsLoop(after, step, v, s, n)
  BY <1>1, LoopExists
<1>3. Fold(step, v, s) = after[n]
  BY Zenon DEF Fold, IsLoop, n
<1> HIDE DEF after
<1>4. after[0] = v /\ \A k \in 1 .. n : after[k] = step[<<after[k - 1], s[k]>>]
  BY <1>1, <1>2 DEF IsLoop
<1> DEFINE P == {k \in 0 .. n : after[k] \in V}
<1>5. 0 \in P
  BY <1>1, <1>4
<1>6. ASSUME NEW k \in 1 .. n, k - 1 \in P
      PROVE  k \in P
  <2>1. after[k] = step[<<after[k - 1], s[k]>>] /\ s[k] \in E
    BY <1>1, <1>4
  <2>2. after[k - 1] \in V
    BY <1>6
  <2>3. after[k] \in V
    BY <2>1, <2>2 DEF IsStep
  <2>4. QED
    BY <1>1, <2>3
<1> HIDE DEF P
<1>7. 0 .. n \subseteq P
  BY <1>1, <1>5, <1>6, Induction
<1>8. after \in [0 .. n -> V]
  BY <1>2, <1>7 DEF IsLoop, P
<1>9. QED
  BY <1>3, <1>4, <1>8 DEF n, IsRun

-----------------------------------------------------------------------------
(* The register fed one bit at a time, its bit 0 the next to leave: the    *)
(* form both checksums have in common.                                     *)

Differ(a, b) == (a /\ ~b) \/ (b /\ ~a)

(* One shift with the bit in; n - 1 - i is the exponent of register bit i. *)
SerialBit(n, lower, v, in) ==
  {i \in 0 .. n - 1 : Differ(i + 1 \in v, Differ(0 \in v, in) /\ n - 1 - i \in lower)}

IsSerial(F, n, lower, bits, N) ==
  /\ F \in [0 .. N -> Register(n)]
  /\ \A t \in 1 .. N : F[t] = SerialBit(n, lower, F[t - 1], t - 1 \in bits)

(* There are such registers, from every start.                             *)
HasSerial(n, lower, bits, N, v) == \E F : IsSerial(F, n, lower, bits, N) /\ F[0] = v

LEMMA SerialExists ==
  ASSUME NEW n \in Nat, NEW N \in Nat, NEW lower, NEW bits, NEW v \in Register(n)
  PROVE  HasSerial(n, lower, bits, N, v)
<1> DEFINE s == [t \in 1 .. N |-> t - 1]
           step == [p \in Register(n) \X (0 .. N) |-> SerialBit(n, lower, p[1], p[2] \in bits)]
<1>1. s \in Seq(0 .. N) /\ Len(s) = N
  BY IsASeq, LenProperties
<1>2. step \in [Register(n) \X (0 .. N) -> Register(n)]
  BY DEF SerialBit, Register
<1>3. \A u \in Register(n), x \in 0 .. N :
        step[<<u, x>>] = SerialBit(n, lower, u, x \in bits)
  OBVIOUS
<1>4. \A t \in 1 .. N : s[t] = t - 1 /\ t - 1 \in 0 .. N
  OBVIOUS
<1> HIDE DEF s, step
<1>5. PICK F : IsRun(F, step, v, s, Register(n))
  BY <1>1, <1>2, FoldRun DEF IsStep
<1>6. ASSUME NEW t \in 1 .. N
      PROVE  F[t] = SerialBit(n, lower, F[t - 1], t - 1 \in bits)
  <2>1. F[t] = step[<<F[t - 1], t - 1>>]
    BY <1>1, <1>4, <1>5 DEF IsRun
  <2>2. F[t - 1] \in Register(n) /\ t - 1 \in 0 .. N
    BY <1>1, <1>4, <1>5 DEF IsRun
  <2>3. QED
    BY <1>3, <2>1, <2>2
<1>7. QED
  BY <1>1, <1>5, <1>6 DEF IsSerial, IsRun, HasSerial

(* The bits of a message in the order they are sent.                       *)
Sent(bytes) == {x \in Nat : \E k \in DOMAIN bytes : \E b \in bytes[k] : x = 8 * (k - 1) + b}

LEMMA SentBits ==
  ASSUME NEW bytes \in Seq(Octet), NEW k \in 1 .. Len(bytes), NEW b \in 0 .. 7
  PROVE  8 * (k - 1) + b \in Sent(bytes) <=> b \in bytes[k]
<1>1. DOMAIN bytes = 1 .. Len(bytes) /\ Len(bytes) \in Nat
  BY LenProperties
<1>2. \A j \in 1 .. Len(bytes) : bytes[j] \subseteq 0 .. 7
  BY ElementOfSeq DEF Octet, Register
<1>3. ASSUME NEW j \in 1 .. Len(bytes), NEW c \in 0 .. 7, 8 * (k - 1) + b = 8 * (j - 1) + c
      PROVE  j = k /\ c = b
  BY <1>1, <1>3
<1>4. ASSUME 8 * (k - 1) + b \in Sent(bytes)
      PROVE  b \in bytes[k]
  <2>1. PICK j \in 1 .. Len(bytes) : \E c \in bytes[j] : 8 * (k - 1) + b = 8 * (j - 1) + c
    BY <1>1, <1>4 DEF Sent
  <2>2. PICK c \in bytes[j] : 8 * (k - 1) + b = 8 * (j - 1) + c
    BY <2>1
  <2>3. c \in 0 .. 7
    BY <1>2
  <2>4. j = k /\ c = b
    BY <1>3, <2>2, <2>3
  <2>5. QED
    BY <2>4
<1>5. ASSUME b \in bytes[k]
      PROVE  8 * (k - 1) + b \in Sent(bytes)
  <2>1. 8 * (k - 1) + b \in Nat
    BY <1>1
  <2>2. QED
    BY <1>1, <1>5, <2>1 DEF Sent
<1>6. QED
  BY <1>4, <1>5

LEMMA SentRange ==
  ASSUME NEW bytes \in Seq(Octet)
  PROVE  Sent(bytes) \subseteq 0 .. 8 * Len(bytes) - 1
<1> SUFFICES ASSUME NEW x \in Sent(bytes) PROVE x \in 0 .. 8 * Len(bytes) - 1
  OBVIOUS
<1>1. DOMAIN bytes = 1 .. Len(bytes) /\ Len(bytes) \in Nat
  BY LenProperties
<1>2. PICK k \in 1 .. Len(bytes) : \E b \in bytes[k] : x = 8 * (k - 1) + b
  BY <1>1 DEF Sent
<1>3. PICK b \in bytes[k] : x = 8 * (k - 1) + b
  BY <1>2
<1>4. b \in 0 .. 7
  BY ElementOfSeq DEF Octet, Register
<1>5. QED
  BY <1>1, <1>3, <1>4

(* The loop over the bits of one byte, from register v to register w.      *)
ByteStep(n, lower, v, byte, w) ==
  \E f \in [0 .. 8 -> Register(n)] :
    /\ f[0] = Plus(v, byte) /\ f[8] = w
    /\ \A j \in 1 .. 8 : f[j] = SerialBit(n, lower, f[j - 1], FALSE)

(* A byte put in at once or bit by bit leaves the same register.           *)
SameByByte(F, n, lower, bytes) ==
  \A k \in 1 .. Len(bytes) : \A w :
    ByteStep(n, lower, F[8 * (k - 1)], bytes[k], w) => F[8 * k] = w

LEMMA OneByte ==
  ASSUME NEW n \in Nat, n >= 8, NEW lower, NEW bytes \in Seq(Octet), NEW F,
         NEW N, N = 8 * Len(bytes), IsSerial(F, n, lower, Sent(bytes), N)
  PROVE  SameByByte(F, n, lower, bytes)
<1> SUFFICES ASSUME NEW k \in 1 .. Len(bytes), NEW w,
                    ByteStep(n, lower, F[8 * (k - 1)], bytes[k], w)
             PROVE  F[8 * k] = w
  BY DEF SameByByte
<1>1. PICK f \in [0 .. 8 -> Register(n)] :
        /\ f[0] = Plus(F[8 * (k - 1)], bytes[k]) /\ f[8] = w
        /\ \A j \in 1 .. 8 : f[j] = SerialBit(n, lower, f[j - 1], FALSE)
  BY DEF ByteStep
<1> DEFINE o == 8 * (k - 1)
           byte == bytes[k]
<1>2. o \in Nat /\ N \in Nat /\ o + 8 <= N /\ 8 * k = o + 8
  <2>1. Len(bytes) \in Nat
    BY LenProperties
  <2>2. QED
    BY <2>1
<1>3. byte \subseteq 0 .. 7
  BY ElementOfSeq DEF Octet, Register
<1>4. \A b \in 0 .. 7 : o + b \in Sent(bytes) <=> b \in byte
  BY SentBits
<1>5. \A t \in 0 .. N : F[t] \subseteq 0 .. n - 1
  BY DEF IsSerial, Register
<1>6. \A t \in 1 .. N : F[t] = SerialBit(n, lower, F[t - 1], t - 1 \in Sent(bytes))
  BY DEF IsSerial
<1>7. \A j \in 0 .. 8 : f[j] \subseteq 0 .. n - 1
  BY DEF Register
<1>0. f[0] = Plus(F[o], byte) /\ F[8 * k] = F[o + 8]
  BY <1>1, <1>2
<1> HIDE DEF o, byte
<1> DEFINE Same(j) == \A i \in 0 .. n - 1 : i \in f[j] <=> Differ(i \in F[o + j], j + i \in byte)
           P == {j \in 0 .. 8 : Same(j)}
<1>8. 0 \in P
  <2>1. o + 0 = o /\ \A i \in 0 .. n - 1 : 0 + i = i
    BY <1>2
  <2>2. \A i \in 0 .. n - 1 : i \in f[0] <=> Differ(i \in F[o], i \in byte)
    BY <1>0 DEF Plus, Differ
  <2>3. Same(0)
    BY <2>1, <2>2 DEF Differ
  <2>4. QED
    BY <2>3
<1>9. ASSUME NEW j \in 1 .. 8, j - 1 \in P
      PROVE  j \in P
  <2> SUFFICES Same(j)
    OBVIOUS
  <2> TAKE i \in 0 .. n - 1
  <2>1. \A h \in 0 .. n - 1 : h \in f[j - 1] <=> Differ(h \in F[o + j - 1], j - 1 + h \in byte)
    BY <1>2, <1>9
  <2>2. 0 \in f[j - 1] <=> Differ(0 \in F[o + j - 1], o + j - 1 \in Sent(bytes))
    <3>1. j - 1 \in 0 .. 7 /\ o + (j - 1) = o + j - 1 /\ j - 1 + 0 = j - 1 /\ 0 \in 0 .. n - 1
      BY <1>2
    <3>2. o + j - 1 \in Sent(bytes) <=> j - 1 \in byte
      BY <1>4, <3>1
    <3>3. QED
      BY <2>1, <3>1, <3>2
  <2>3. i + 1 \in f[j - 1] <=> Differ(i + 1 \in F[o + j - 1], j + i \in byte)
    <3>1. CASE i + 1 \in 0 .. n - 1
      <4>1. i + 1 \in f[j - 1] <=> Differ(i + 1 \in F[o + j - 1], j - 1 + (i + 1) \in byte)
        BY <2>1, <3>1
      <4>2. j - 1 + (i + 1) = j + i
        OBVIOUS
      <4>3. QED
        BY <4>1, <4>2
    <3>2. CASE i + 1 \notin 0 .. n - 1
      <4>1. j - 1 \in 0 .. 8 /\ o + j - 1 \in 0 .. N /\ j + i \notin 0 .. 7
        <5>1. 0 \notin 0 .. n - 1 \/ i + 1 = n
          BY <3>2
        <5>2. n - 1 >= 7
          OBVIOUS
        <5>3. QED
          BY <1>2, <5>1, <5>2, SMTT(30)
      <4>2. i + 1 \notin f[j - 1] /\ i + 1 \notin F[o + j - 1] /\ j + i \notin byte
        BY <1>3, <1>5, <1>7, <3>2, <4>1
      <4>3. QED
        BY <4>2 DEF Differ
    <3>3. QED
      BY <3>1, <3>2
  <2>4. i \in f[j] <=> Differ(i + 1 \in f[j - 1], 0 \in f[j - 1] /\ n - 1 - i \in lower)
    BY <1>1 DEF SerialBit, Differ
  <2>5. i \in F[o + j]
          <=> Differ(i + 1 \in F[o + j - 1],
                     Differ(0 \in F[o + j - 1], o + j - 1 \in Sent(bytes)) /\ n - 1 - i \in lower)
    <3>1. PICK t \in 1 .. N : t = o + j
      BY <1>2
    <3>2. F[t] = SerialBit(n, lower, F[t - 1], t - 1 \in Sent(bytes))
      BY <1>6
    <3>3. i \in F[t] <=> Differ(i + 1 \in F[t - 1],
                                Differ(0 \in F[t - 1], t - 1 \in Sent(bytes)) /\ n - 1 - i \in lower)
      BY <3>2 DEF SerialBit
    <3>4. t - 1 = o + j - 1
      BY <1>2, <3>1
    <3>5. QED
      BY <3>1, <3>3, <3>4
  <2>6. QED
    BY <2>2, <2>3, <2>4, <2>5 DEF Differ
<1> HIDE DEF P
<1>10. 0 .. 8 \subseteq P
  BY <1>8, <1>9, Induction
<1>11. Same(8)
  <2>1. 8 \in P
    BY <1>10
  <2>2. QED
    BY <2>1, Zenon DEF P
<1>12. \A i \in 0 .. n - 1 : i \in f[8] <=> i \in F[o + 8]
  <2>1. \A i \in 0 .. n - 1 : 8 + i \notin byte
    BY <1>3
  <2>2. QED
    BY <1>11, <2>1 DEF Differ
<1>13. QED
  <2>1. f[8] \subseteq 0 .. n - 1 /\ F[o + 8] \subseteq 0 .. n - 1
    BY <1>2, <1>5, <1>7
  <2>2. f[8] = F[o + 8]
    BY <1>12, <2>1
  <2>3. QED
    BY <1>1, <1>0, <2>2

(* The registers computed byte by byte.                                    *)
IsByteWise(reg, n, lower, bytes) ==
  /\ reg \in [0 .. Len(bytes) -> Register(n)]
  /\ \A k \in 1 .. Len(bytes) : ByteStep(n, lower, reg[k - 1], bytes[k], reg[k])

(* The same computed bit by bit.                                           *)
IsBitWise(F, reg, n, lower, bytes) ==
  /\ IsSerial(F, n, lower, Sent(bytes), 8 * Len(bytes))
  /\ \A k \in 0 .. Len(bytes) : F[8 * k] = reg[k]
HasBitWise(reg, n, lower, bytes) == \E F : IsBitWise(F, reg, n, lower, bytes)

(* A checksum computed byte by byte is one computed bit by bit.            *)
LEMMA ByteWise ==
  ASSUME NEW n \in Nat, n >= 8, NEW lower, NEW bytes \in Seq(Octet),
         NEW reg, IsByteWise(reg, n, lower, bytes)
  PROVE  HasBitWise(reg, n, lower, bytes)
<1> USE DEF IsByteWise
<1> DEFINE N == 8 * Len(bytes)
<1>1. Len(bytes) \in Nat /\ N \in Nat
  <2>1. Len(bytes) \in Nat
    BY LenProperties
  <2>2. QED
    BY <2>1
<1>2. N = 8 * Len(bytes)
  OBVIOUS
<1> HIDE DEF N
<1>3. PICK F : IsSerial(F, n, lower, Sent(bytes), N) /\ F[0] = reg[0]
  <2>1. reg[0] \in Register(n)
    BY <1>1
  <2>2. HasSerial(n, lower, Sent(bytes), N, reg[0])
    BY <1>1, <2>1, SerialExists
  <2>3. QED
    BY <2>2 DEF HasSerial
<1> DEFINE P == {k \in 0 .. Len(bytes) : F[8 * k] = reg[k]}
<1>4. 0 \in P
  BY <1>1, <1>3
<1>5. ASSUME NEW k \in 1 .. Len(bytes), k - 1 \in P
      PROVE  k \in P
  <2>1. ByteStep(n, lower, F[8 * (k - 1)], bytes[k], reg[k])
    BY <1>5
  <2>2. IsSerial(F, n, lower, Sent(bytes), N)
    BY <1>3
  <2>3. SameByByte(F, n, lower, bytes)
    BY <1>2, <2>2, OneByte
  <2>4. F[8 * k] = reg[k]
    BY <2>1, <2>3, Zenon DEF SameByByte
  <2>5. QED
    BY <1>1, <2>4
<1> HIDE DEF P
<1>6. 0 .. Len(bytes) \subseteq P
  BY <1>1, <1>4, <1>5, Induction
<1>7. \A k \in 0 .. Len(bytes) : F[8 * k] = reg[k]
  BY <1>6 DEF P
<1>8. QED
  BY <1>2, <1>3, <1>7 DEF IsBitWise, HasBitWise

(* Bits that lead from register v to register w.                           *)
Serially(n, lower, bits, N, v, w) ==
  \E F : IsSerial(F, n, lower, bits, N) /\ F[0] = v /\ F[N] = w

LEMMA BitWise ==
  ASSUME NEW n, NEW lower, NEW bytes \in Seq(Octet), NEW reg, HasBitWise(reg, n, lower, bytes)
  PROVE  Serially(n, lower, Sent(bytes), 8 * Len(bytes), reg[0], reg[Len(bytes)])
<1>1. PICK F : IsBitWise(F, reg, n, lower, bytes)
  BY DEF HasBitWise
<1>2. Len(bytes) \in Nat
  BY LenProperties
<1>3. F[8 * 0] = reg[0] /\ F[8 * Len(bytes)] = reg[Len(bytes)] /\ 8 * 0 = 0
  BY <1>1, <1>2 DEF IsBitWise
<1>4. QED
  BY <1>1, <1>3 DEF IsBitWise, Serially

-----------------------------------------------------------------------------
(* The 16-bit checksum.                                                    *)

LEMMA Crc16BitSerial ==
  \A v \in Register(16) : Crc16Bit(v) = SerialBit(16, {0, 2, 15}, v, FALSE)
<1> SUFFICES ASSUME NEW v \in Register(16)
             PROVE  Crc16Bit(v) = SerialBit(16, {0, 2, 15}, v, FALSE)
  OBVIOUS
<1>1. v \subseteq 0 .. 15
  BY DEF Register
<1>2. Crc16Bit(v) \subseteq 0 .. 15
  BY <1>1 DEF Crc16Bit, Plus
<1>3. \A i \in 0 .. 15 : i \in {k - 1 : k \in v \ {0}} <=> i + 1 \in v
  BY <1>1
<1>4. \A i \in 0 .. 15 : 16 - 1 - i \in {0, 2, 15} <=> i \in {0, 13, 15}
  OBVIOUS
<1>5. \A i \in 0 .. 15 :
        i \in Crc16Bit(v) <=> Differ(i + 1 \in v, 0 \in v /\ i \in {0, 13, 15})
  BY <1>3 DEF Crc16Bit, Plus, Differ
<1>6. \A i : i \in SerialBit(16, {0, 2, 15}, v, FALSE)
               <=> i \in 0 .. 15 /\ Differ(i + 1 \in v, 0 \in v /\ i \in {0, 13, 15})
  BY <1>4 DEF SerialBit, Differ
<1>7. QED
  BY <1>2, <1>5, <1>6

LEMMA EightIsSeq == Eight \in Seq(1 .. 8) /\ Len(Eight) = 8
BY IsASeq, LenProperties DEF Eight

LEMMA PlusType == \A n, p, q : p \in Register(n) /\ q \in Register(n) => Plus(p, q) \in Register(n)
BY DEF Plus, Register

LEMMA OctetWord == Octet \subseteq Register(16)
BY DEF Octet, Register

(* One byte into the register.                                             *)
LEMMA Crc16ByteStep ==
  ASSUME NEW v \in Register(16), NEW byte \in Octet
  PROVE  /\ Crc16Byte[<<v, byte>>] \in Register(16)
         /\ ByteStep(16, {0, 2, 15}, v, byte, Crc16Byte[<<v, byte>>])
<1>1. Crc16Byte[<<v, byte>>] = Fold(Crc16Shift, Plus(v, byte), Eight)
  BY DEF Crc16Byte
<1>2. IsStep(Crc16Shift, Register(16), 1 .. 8)
  <2>1. \A u \in Register(16) : Crc16Bit(u) \in Register(16)
    BY Crc16BitSerial DEF SerialBit, Register
  <2>2. QED
    BY <2>1 DEF IsStep, Crc16Shift
<1>3. Plus(v, byte) \in Register(16)
  BY PlusType, OctetWord
<1>4. PICK f : IsRun(f, Crc16Shift, Plus(v, byte), Eight, Register(16))
  BY <1>2, <1>3, EightIsSeq, FoldRun
<1>5. f \in [0 .. 8 -> Register(16)] /\ f[0] = Plus(v, byte) /\ f[8] = Crc16Byte[<<v, byte>>]
  BY <1>1, <1>4, EightIsSeq DEF IsRun
<1>6. ASSUME NEW j \in 1 .. 8
      PROVE  f[j] = SerialBit(16, {0, 2, 15}, f[j - 1], FALSE)
  <2>1. f[j] = Crc16Shift[<<f[j - 1], Eight[j]>>]
    BY <1>4, EightIsSeq DEF IsRun
  <2>2. f[j - 1] \in Register(16) /\ Eight[j] \in 1 .. 8
    BY <1>5 DEF Eight
  <2>3. f[j] = Crc16Bit(f[j - 1])
    BY <2>1, <2>2 DEF Crc16Shift
  <2>4. QED
    BY <2>2, <2>3, Crc16BitSerial
<1>7. Crc16Byte[<<v, byte>>] \in Register(16)
  BY <1>5
<1>8. QED
  BY <1>5, <1>6, <1>7 DEF ByteStep

(* A message into the register, byte by byte and bit by bit.               *)
IsCrc16Run(reg, F, bytes) ==
  /\ IsRun(reg, Crc16Byte, 0 .. 15, bytes, Register(16))
  /\ reg[Len(bytes)] = getModbusCRC16(bytes)
  /\ IsBitWise(F, reg, 16, {0, 2, 15}, bytes)

LEMMA Crc16Run ==
  ASSUME NEW bytes \in Seq(Octet)
  PROVE  \E reg, F : IsCrc16Run(reg, F, bytes)
<1>1. 0 .. 15 \in Register(16)
  BY DEF Register
<1>2. IsStep(Crc16Byte, Register(16), Octet)
  BY Crc16ByteStep DEF IsStep, Crc16Byte
<1>3. PICK reg : IsRun(reg, Crc16Byte, 0 .. 15, bytes, Register(16))
  BY <1>1, <1>2, FoldRun
<1>4. /\ Len(bytes) \in Nat
      /\ reg \in [0 .. Len(bytes) -> Register(16)]
      /\ reg[0] = 0 .. 15 /\ reg[Len(bytes)] = getModbusCRC16(bytes)
  BY <1>3, LenProperties DEF IsRun, getModbusCRC16
<1>5. ASSUME NEW k \in 1 .. Len(bytes)
      PROVE  ByteStep(16, {0, 2, 15}, reg[k - 1], bytes[k], reg[k])
  <2>1. reg[k - 1] \in Register(16) /\ bytes[k] \in Octet
    BY <1>4, ElementOfSeq
  <2>2. reg[k] = Crc16Byte[<<reg[k - 1], bytes[k]>>]
    BY <1>3 DEF IsRun
  <2>3. QED
    BY <2>1, <2>2, Crc16ByteStep
<1> DEFINE lower == {0, 2, 15}
<1>6. IsByteWise(reg, 16, lower, bytes)
  BY <1>4, <1>5 DEF IsByteWise
<1> HIDE DEF lower
<1>7. HasBitWise(reg, 16, lower, bytes)
  BY <1>6, ByteWise
<1>8. QED
  BY <1>3, <1>4, <1>7 DEF lower, HasBitWise, IsCrc16Run

LEMMA Crc16Serial ==
  ASSUME NEW bytes \in Seq(Octet)
  PROVE  /\ getModbusCRC16(bytes) \in Register(16)
         /\ Serially(16, {0, 2, 15}, Sent(bytes), 8 * Len(bytes), 0 .. 15, getModbusCRC16(bytes))
<1>1. PICK reg, F : IsCrc16Run(reg, F, bytes)
  BY Crc16Run
<1>2. reg[0] = 0 .. 15 /\ reg[Len(bytes)] \in Register(16)
  BY <1>1, LenProperties DEF IsCrc16Run, IsRun
<1> DEFINE lower == {0, 2, 15}
<1>3. HasBitWise(reg, 16, lower, bytes)
  BY <1>1 DEF HasBitWise, IsCrc16Run
<1> HIDE DEF lower
<1>4. Serially(16, lower, Sent(bytes), 8 * Len(bytes), reg[0], reg[Len(bytes)])
  BY <1>3, BitWise
<1>5. QED
  BY <1>1, <1>2, <1>4 DEF lower, IsCrc16Run

-----------------------------------------------------------------------------
(* The 8-bit checksum: the same with every byte read from its other end.   *)

Mirror(v) == {7 - i : i \in v}
Mirrored(bytes) == [k \in 1 .. Len(bytes) |-> Mirror(bytes[k])]

LEMMA MirrorBits ==
  \A v \in Octet : Mirror(v) \in Octet /\ \A i \in 0 .. 7 : i \in Mirror(v) <=> 7 - i \in v
BY DEF Mirror, Octet, Register

LEMMA MirroredType ==
  ASSUME NEW bytes \in Seq(Octet)
  PROVE  Mirrored(bytes) \in Seq(Octet) /\ Len(Mirrored(bytes)) = Len(bytes)
<1>1. Len(bytes) \in Nat /\ \A k \in 1 .. Len(bytes) : Mirror(bytes[k]) \in Octet
  BY LenProperties, ElementOfSeq, MirrorBits
<1>2. QED
  BY <1>1, IsASeq, LenProperties DEF Mirrored

LEMMA MirrorPlus ==
  \A v, byte \in Octet : Mirror(Plus(v, byte)) = Plus(Mirror(v), Mirror(byte))
<1> SUFFICES ASSUME NEW v \in Octet, NEW byte \in Octet
             PROVE  Mirror(Plus(v, byte)) = Plus(Mirror(v), Mirror(byte))
  OBVIOUS
<1>1. Plus(v, byte) \in Octet /\ Plus(Mirror(v), Mirror(byte)) \in Octet
  BY PlusType, MirrorBits DEF Octet
<1>2. Mirror(Plus(v, byte)) \in Octet
  BY <1>1, MirrorBits
<1>3. \A i \in 0 .. 7 : i \in Mirror(Plus(v, byte)) <=> i \in Plus(Mirror(v), Mirror(byte))
  BY <1>1, MirrorBits DEF Plus
<1>4. QED
  BY <1>1, <1>2, <1>3 DEF Octet, Register

LEMMA Crc8BitSerial ==
  \A v \in Octet : /\ Crc8Bit(v) \in Octet
                   /\ Mirror(Crc8Bit(v)) = SerialBit(8, {0, 4, 5}, Mirror(v), FALSE)
<1> SUFFICES ASSUME NEW v \in Octet
             PROVE  /\ Crc8Bit(v) \in Octet
                    /\ Mirror(Crc8Bit(v)) = SerialBit(8, {0, 4, 5}, Mirror(v), FALSE)
  OBVIOUS
<1>1. v \subseteq 0 .. 7 /\ Crc8Bit(v) \in Octet
  BY DEF Octet, Register, Crc8Bit
<1>2. \A i \in 0 .. 7 : i \in {k + 1 : k \in v} <=> i - 1 \in v
  BY <1>1
<1>3. \A i \in 0 .. 7 :
        i \in Crc8Bit(v) <=> Differ(i - 1 \in v, 7 \in v /\ i \in {0, 4, 5})
  BY <1>2 DEF Crc8Bit, Plus, Differ
<1>4. \A i \in 0 .. 7 :
        i \in Mirror(Crc8Bit(v)) <=> Differ(7 - i - 1 \in v, 7 \in v /\ 7 - i \in {0, 4, 5})
  <2> TAKE i \in 0 .. 7
  <2>1. 7 - i \in 0 .. 7
    OBVIOUS
  <2>2. i \in Mirror(Crc8Bit(v)) <=> 7 - i \in Crc8Bit(v)
    BY <1>1, MirrorBits
  <2>3. QED
    BY <1>3, <2>1, <2>2
<1>5. \A i \in 0 .. 7 : i + 1 \in Mirror(v) <=> 7 - i - 1 \in v
  <2> TAKE i \in 0 .. 7
  <2>1. CASE i = 7
    <3>1. i + 1 \notin Mirror(v) /\ 7 - i - 1 \notin v
      BY <1>1, <2>1, MirrorBits DEF Octet, Register
    <3>2. QED
      BY <3>1
  <2>2. CASE i # 7
    <3>1. i + 1 \in 0 .. 7 /\ 7 - (i + 1) = 7 - i - 1
      BY <2>2
    <3>2. QED
      BY <3>1, MirrorBits
  <2>3. QED
    BY <2>1, <2>2
<1>6. 0 \in Mirror(v) <=> 7 \in v
  BY MirrorBits
<1>7. \A i \in 0 .. 7 : i \in SerialBit(8, {0, 4, 5}, Mirror(v), FALSE)
               <=> Differ(7 - i - 1 \in v, 7 \in v /\ 7 - i \in {0, 4, 5})
  BY <1>5, <1>6 DEF SerialBit, Differ
<1>8. SerialBit(8, {0, 4, 5}, Mirror(v), FALSE) \subseteq 0 .. 7 /\ Mirror(Crc8Bit(v)) \subseteq 0 .. 7
  <2>1. Mirror(Crc8Bit(v)) \in Octet
    BY <1>1, MirrorBits
  <2>2. \A i \in SerialBit(8, {0, 4, 5}, Mirror(v), FALSE) : i \in 0 .. 8 - 1
    BY DEF SerialBit
  <2>3. \A i \in Mirror(Crc8Bit(v)) : i \in 0 .. 8 - 1
    BY <2>1 DEF Octet, Register
  <2>4. 0 .. 8 - 1 = 0 .. 7
    OBVIOUS
  <2>5. QED
    BY <2>2, <2>3, <2>4
<1>9. QED
  BY <1>1, <1>4, <1>7, <1>8

LEMMA Crc8ByteStep ==
  ASSUME NEW v \in Octet, NEW byte \in Octet
  PROVE  /\ Crc8Byte[<<v, byte>>] \in Octet
         /\ ByteStep(8, {0, 4, 5}, Mirror(v), Mirror(byte), Mirror(Crc8Byte[<<v, byte>>]))
<1>1. Crc8Byte[<<v, byte>>] = Fold(Crc8Shift, Plus(v, byte), Eight)
  BY DEF Crc8Byte
<1>2. IsStep(Crc8Shift, Octet, 1 .. 8)
  BY Crc8BitSerial DEF IsStep, Crc8Shift
<1>3. Plus(v, byte) \in Octet
  BY PlusType DEF Octet
<1>4. PICK f : IsRun(f, Crc8Shift, Plus(v, byte), Eight, Octet)
  BY <1>2, <1>3, EightIsSeq, FoldRun
<1>5. f \in [0 .. 8 -> Octet] /\ f[0] = Plus(v, byte) /\ f[8] = Crc8Byte[<<v, byte>>]
  BY <1>1, <1>4, EightIsSeq DEF IsRun
<1> DEFINE g == [j \in 0 .. 8 |-> Mirror(f[j])]
<1>6. g \in [0 .. 8 -> Register(8)]
  BY <1>5, MirrorBits DEF Octet
<1>7. ASSUME NEW j \in 1 .. 8
      PROVE  g[j] = SerialBit(8, {0, 4, 5}, g[j - 1], FALSE)
  <2>1. f[j] = Crc8Shift[<<f[j - 1], Eight[j]>>]
    BY <1>4, EightIsSeq DEF IsRun
  <2>2. f[j - 1] \in Octet /\ Eight[j] \in 1 .. 8
    BY <1>5 DEF Eight
  <2>3. f[j] = Crc8Bit(f[j - 1])
    BY <2>1, <2>2 DEF Crc8Shift
  <2>4. Mirror(f[j]) = SerialBit(8, {0, 4, 5}, Mirror(f[j - 1]), FALSE)
    BY <2>2, <2>3, Crc8BitSerial
  <2>5. g[j] = Mirror(f[j]) /\ g[j - 1] = Mirror(f[j - 1])
    OBVIOUS
  <2>6. QED
    BY <2>4, <2>5
<1>8. g[0] = Plus(Mirror(v), Mirror(byte)) /\ g[8] = Mirror(Crc8Byte[<<v, byte>>])
  BY <1>5, MirrorPlus
<1> HIDE DEF g
<1>9. Crc8Byte[<<v, byte>>] \in Octet
  BY <1>5
<1>10. QED
  BY <1>6, <1>7, <1>8, <1>9 DEF ByteStep

LEMMA Crc8Serial ==
  ASSUME NEW bytes \in Seq(Octet)
  PROVE  /\ crc_high_first(bytes) \in Octet
         /\ Serially(8, {0, 4, 5}, Sent(Mirrored(bytes)), 8 * Len(bytes),
                     {}, Mirror(crc_high_first(bytes)))
<1>1. {} \in Octet
  BY DEF Octet, Register
<1>2. IsStep(Crc8Byte, Octet, Octet)
  BY Crc8ByteStep DEF IsStep, Crc8Byte
<1>3. PICK reg : IsRun(reg, Crc8Byte, {}, bytes, Octet)
  BY <1>1, <1>2, FoldRun
<1>4. /\ Len(bytes) \in Nat
      /\ reg \in [0 .. Len(bytes) -> Octet]
      /\ reg[0] = {} /\ reg[Len(bytes)] = crc_high_first(bytes)
  BY <1>3, LenProperties DEF IsRun, crc_high_first
<1> DEFINE lower == {0, 4, 5}
           sent == Mirrored(bytes)
           mir == [k \in 0 .. Len(bytes) |-> Mirror(reg[k])]
<1>5. ASSUME NEW k \in 1 .. Len(bytes)
      PROVE  ByteStep(8, lower, mir[k - 1], sent[k], mir[k])
  <2>1. reg[k - 1] \in Octet /\ bytes[k] \in Octet
    BY <1>4, ElementOfSeq
  <2>2. reg[k] = Crc8Byte[<<reg[k - 1], bytes[k]>>]
    BY <1>3 DEF IsRun
  <2>3. ByteStep(8, lower, Mirror(reg[k - 1]), Mirror(bytes[k]), Mirror(reg[k]))
    BY <2>1, <2>2, Crc8ByteStep
  <2>4. mir[k - 1] = Mirror(reg[k - 1]) /\ mir[k] = Mirror(reg[k]) /\ sent[k] = Mirror(bytes[k])
    BY <1>4 DEF Mirrored
  <2>5. QED
    BY <2>3, <2>4
<1>6. sent \in Seq(Octet) /\ Len(sent) = Len(bytes)
  BY MirroredType
<1>7. mir \in [0 .. Len(bytes) -> Register(8)]
  BY <1>4, MirrorBits DEF Octet
<1>8. mir[0] = {} /\ mir[Len(bytes)] = Mirror(crc_high_first(bytes))
  BY <1>4 DEF Mirror
<1> HIDE DEF lower, sent, mir
<1>9. IsByteWise(mir, 8, lower, sent)
  BY <1>5, <1>6, <1>7 DEF IsByteWise
<1>10. Serially(8, lower, Sent(sent), 8 * Len(sent), mir[0], mir[Len(sent)])
  <2>1. HasBitWise(mir, 8, lower, sent)
    BY <1>6, <1>9, ByteWise
  <2>2. QED
    BY <1>6, <2>1, BitWise
<1>11. crc_high_first(bytes) \in Octet
  BY <1>4
<1>12. QED
  BY <1>6, <1>8, <1>10, <1>11 DEF lower, sent

-----------------------------------------------------------------------------
(* The division.                                                           *)

(* Position x of the message, counted in the order of transmission, is the *)
(* exponent top - x; the register starts as v.                             *)
IsDividend(p, top, n, bits, v) ==
  /\ p \subseteq 0 .. top
  /\ \A x \in 0 .. top : top - x \in p <=> Differ(x \in v, x \in bits)

(* What the division leaves after t steps, at the exponent of position x.  *)
Left(D, F, top, bits, t) ==
  \A x \in 0 .. top : top - x \in D[t] <=> x >= t /\ Differ(x - t \in F[t], x \in bits)

(* The register w holds the remainder, its bit 0 the highest coefficient.  *)
Leaves(p, top, n, lower, w) == Remainder(p, top, n, lower) = {n - 1 - i : i \in w}

LEMMA Division ==
  ASSUME NEW n \in Nat, n >= 1, NEW N \in Nat, NEW lower, lower \subseteq 0 .. n - 1,
         NEW bits, bits \subseteq 0 .. N - 1, NEW v, NEW w,
         Serially(n, lower, bits, N, v, w),
         NEW top, top = N + n - 1, NEW p, IsDividend(p, top, n, bits, v)
  PROVE  Leaves(p, top, n, lower, w)
<1>1. PICK F : IsSerial(F, n, lower, bits, N) /\ F[0] = v /\ F[N] = w
  BY DEF Serially
<1> DEFINE s == [k \in 1 .. top - n + 1 |-> top - k + 1]
           step == Reduce(top, n, lower)
<1>2. top \in Nat /\ top - n + 1 = N /\ 1 .. top - n + 1 = 1 .. N
  OBVIOUS
<1>3. s \in Seq(n .. top) /\ Len(s) = N
  <2>1. \A k \in 1 .. N : top - k + 1 \in n .. top
    OBVIOUS
  <2>2. s = [k \in 1 .. N |-> top - k + 1]
    BY <1>2
  <2>3. QED
    BY <2>1, <2>2, IsASeq, LenProperties
<1>4. step \in [Register(top + 1) \X (n .. top) -> Register(top + 1)]
  <2>1. ASSUME NEW q \in Register(top + 1), NEW e \in n .. top
        PROVE  Plus(q, {e} \cup {e - n + l : l \in lower}) \in Register(top + 1)
    <3>1. \A l \in lower : e - n + l \in 0 .. top + 1 - 1
      BY <1>2
    <3>2. {e} \cup {e - n + l : l \in lower} \in Register(top + 1)
      BY <1>2, <3>1 DEF Register
    <3>3. QED
      BY <3>2, PlusType
  <2>2. QED
    BY <2>1 DEF Reduce
<1>5. ASSUME NEW q \in Register(top + 1), NEW e \in n .. top
      PROVE  step[<<q, e>>] = IF e \in q THEN Plus(q, {e} \cup {e - n + l : l \in lower}) ELSE q
  BY DEF Reduce
<1>6. \A k \in 1 .. N : s[k] = top - k + 1 /\ s[k] \in n .. top
  BY <1>2
<1>7. Remainder(p, top, n, lower) = Fold(step, p, s)
  BY Zenon DEF Remainder
<1>8. p \in Register(top + 1)
  BY <1>2 DEF IsDividend, Register
<1> HIDE DEF s, step
<1>9. PICK D : IsRun(D, step, p, s, Register(top + 1))
  BY <1>3, <1>4, <1>8, FoldRun DEF IsStep
<1>10. /\ D \in [0 .. N -> Register(top + 1)]
       /\ D[0] = p /\ D[N] = Remainder(p, top, n, lower)
       /\ \A t \in 1 .. N : D[t] = step[<<D[t - 1], s[t]>>]
  BY <1>3, <1>7, <1>9 DEF IsRun
<1>11. \A t \in 0 .. N : F[t] \subseteq 0 .. n - 1
  BY <1>1 DEF IsSerial, Register
<1>12. \A t \in 1 .. N : F[t] = SerialBit(n, lower, F[t - 1], t - 1 \in bits)
  BY <1>1 DEF IsSerial
<1> DEFINE P == {t \in 0 .. N : Left(D, F, top, bits, t)}
<1>13. 0 \in P
  <2>1. \A x \in 0 .. top : x >= 0 /\ x - 0 = x
    BY <1>2
  <2>2. \A x \in 0 .. top : top - x \in D[0] <=> Differ(x \in F[0], x \in bits)
    BY <1>1, <1>10 DEF IsDividend
  <2>3. QED
    BY <2>1, <2>2 DEF Left
<1>14. ASSUME NEW t \in 1 .. N, t - 1 \in P
       PROVE  t \in P
  <2> DEFINE q == D[t - 1]
             e == top - t + 1
             carry == Differ(0 \in F[t - 1], t - 1 \in bits)
  <2>1. q \in Register(top + 1) /\ e \in n .. top /\ s[t] = e
    BY <1>6, <1>10
  <2>2. D[t] = IF e \in q THEN Plus(q, {e} \cup {e - n + l : l \in lower}) ELSE q
    <3>1. D[t] = step[<<q, e>>]
      BY <1>10, <2>1
    <3> HIDE DEF q, e
    <3>2. QED
      BY <1>5, <2>1, <3>1
  <2>3. \A x \in 0 .. top :
          top - x \in q <=> x >= t - 1 /\ Differ(x - (t - 1) \in F[t - 1], x \in bits)
    BY <1>14 DEF Left
  <2>4. e \in q <=> carry
    <3>1. t - 1 \in 0 .. top /\ top - (t - 1) = e /\ (t - 1) - (t - 1) = 0
      BY <1>2
    <3>2. QED
      BY <2>3, <3>1
  <2> SUFFICES ASSUME NEW x \in 0 .. top
               PROVE  top - x \in D[t] <=> x >= t /\ Differ(x - t \in F[t], x \in bits)
    BY DEF Left
  <2>5. top - x = e <=> x = t - 1
    BY <1>2
  <2>6. top - x \in {e - n + l : l \in lower} <=> n - 1 - (x - t) \in lower
    <3>1. \A l \in lower : top - x = e - n + l <=> l = n - 1 - (x - t)
      BY <1>2
    <3>2. QED
      BY <3>1
  <2>7. top - x \in D[t] <=> Differ(top - x \in q, carry /\ (x = t - 1 \/ n - 1 - (x - t) \in lower))
    <3>1. top - x \in {e} \cup {e - n + l : l \in lower} <=> x = t - 1 \/ n - 1 - (x - t) \in lower
      BY <2>5, <2>6
    <3> HIDE DEF q, e, carry
    <3>2. QED
      BY <2>2, <2>4, <3>1 DEF Plus, Differ
  <2>8. top - x \in q <=> x >= t - 1 /\ Differ(x - (t - 1) \in F[t - 1], x \in bits)
    BY <2>3
  <2>9. CASE x < t - 1
    <3>1. n - 1 - (x - t) \notin lower /\ x # t - 1 /\ ~(x >= t - 1) /\ ~(x >= t)
      BY <1>2, <2>9
    <3>2. QED
      BY <2>7, <2>8, <3>1 DEF Differ
  <2>10. CASE x = t - 1
    <3>1. x >= t - 1 /\ x - (t - 1) = 0 /\ ~(x >= t)
      BY <1>2, <2>10
    <3>2. QED
      BY <2>7, <2>8, <2>10, <3>1 DEF Differ
  <2>11. CASE x >= t
    <3>1. x # t - 1 /\ x >= t - 1 /\ x - (t - 1) = x - t + 1
      BY <1>2, <2>11
    <3>2. top - x \in D[t] <=> Differ(Differ(x - t + 1 \in F[t - 1], x \in bits),
                                      carry /\ n - 1 - (x - t) \in lower)
      <4> HIDE DEF carry
      <4>1. QED
        BY <2>7, <2>8, <3>1 DEF Differ
    <3>3. x - t \in F[t] <=> Differ(x - t + 1 \in F[t - 1], carry /\ n - 1 - (x - t) \in lower)
      <4>1. CASE x - t \in 0 .. n - 1
        BY <1>12, <4>1 DEF SerialBit
      <4>2. CASE x - t \notin 0 .. n - 1
        <5>1. x - t + 1 \notin 0 .. n - 1 /\ n - 1 - (x - t) \notin 0 .. n - 1
          BY <1>2, <2>11, <4>2
        <5>2. x - t \notin F[t] /\ x - t + 1 \notin F[t - 1] /\ n - 1 - (x - t) \notin lower
          BY <1>11, <4>2, <5>1
        <5>3. QED
          BY <5>2 DEF Differ
      <4>3. QED
        BY <4>1, <4>2
    <3> HIDE DEF carry
    <3>4. QED
      BY <2>11, <3>2, <3>3 DEF Differ
  <2>12. QED
    BY <1>2, <2>9, <2>10, <2>11
<1> HIDE DEF P
<1>15. 0 .. N \subseteq P
  BY <1>13, <1>14, Induction
<1>16. \A x \in 0 .. top : top - x \in D[N] <=> x >= N /\ Differ(x - N \in F[N], x \in bits)
  <2>1. N \in P
    BY <1>15
  <2>2. QED
    BY <2>1 DEF P, Left
<1>17. \A d \in 0 .. top : d \in D[N] <=> d \in {n - 1 - i : i \in w}
  <2> SUFFICES ASSUME NEW d \in 0 .. top
               PROVE  d \in D[N] <=> d \in {n - 1 - i : i \in w}
    OBVIOUS
  <2>1. top - d \in 0 .. top /\ top - (top - d) = d /\ top - d - N = n - 1 - d
    BY <1>2
  <2>2. d \in D[N] <=> top - d >= N /\ Differ(n - 1 - d \in w, top - d \in bits)
    BY <1>1, <1>16, <2>1
  <2>3. w \subseteq 0 .. n - 1
    BY <1>1, <1>11
  <2>4. d \in {n - 1 - i : i \in w} <=> n - 1 - d \in w
    <3>1. \A i \in w : d = n - 1 - i <=> i = n - 1 - d
      BY <2>3
    <3>2. QED
      BY <3>1
  <2>5. top - d >= N => top - d \notin bits
    OBVIOUS
  <2>6. n - 1 - d \in w => top - d >= N
    BY <1>2, <2>3
  <2>7. QED
    BY <2>2, <2>4, <2>5, <2>6 DEF Differ
<1>18. D[N] \subseteq 0 .. top /\ {n - 1 - i : i \in w} \subseteq 0 .. top
  <2>1. D[N] \subseteq 0 .. top
    BY <1>2, <1>10 DEF Register
  <2>2. w \subseteq 0 .. n - 1
    BY <1>1, <1>11
  <2>3. \A i \in w : n - 1 - i \in 0 .. top
    BY <2>2
  <2>4. QED
    BY <2>1, <2>3
<1>19. QED
  BY <1>10, <1>17, <1>18 DEF Leaves

(* Bit b of a byte is bit 7 - place[b] of the byte in the order it is sent. *)
IsPlacing(place, bytes, sent) ==
  /\ place \in [0 .. 7 -> 0 .. 7]
  /\ \A k \in 1 .. Len(bytes) :
       /\ \A b \in bytes[k] : b \in 0 .. 7 /\ 7 - place[b] \in sent[k]
       /\ \A c \in sent[k] : \E b \in bytes[k] : c = 7 - place[b]

LEMMA PolynomialBits ==
  ASSUME NEW n \in Nat, NEW bytes \in Seq(Octet), NEW sent \in Seq(Octet),
         Len(sent) = Len(bytes), NEW place, IsPlacing(place, bytes, sent),
         NEW top, top = 8 * Len(bytes) + n - 1
  PROVE  /\ Polynomial(bytes, n, place) \subseteq 0 .. top
         /\ \A x \in 0 .. top : top - x \in Polynomial(bytes, n, place) <=> x \in Sent(sent)
<1>1. Len(bytes) \in Nat /\ DOMAIN bytes = 1 .. Len(bytes) /\ DOMAIN sent = 1 .. Len(bytes)
  BY LenProperties
<1>2. \A d : d \in Polynomial(bytes, n, place)
               <=> \E k \in 1 .. Len(bytes) : \E b \in bytes[k] :
                     d = n + 8 * (Len(bytes) - k) + place[b]
  <2> DEFINE part(k) == {n + 8 * (Len(bytes) - k) + place[b] : b \in bytes[k]}
  <2>1. Polynomial(bytes, n, place) = UNION {part(k) : k \in 1 .. Len(bytes)}
    BY <1>1, Zenon DEF Polynomial
  <2>2. \A d, k : d \in part(k) <=> \E b \in bytes[k] : d = n + 8 * (Len(bytes) - k) + place[b]
    OBVIOUS
  <2> HIDE DEF part
  <2>3. \A d : d \in Polynomial(bytes, n, place) <=> \E k \in 1 .. Len(bytes) : d \in part(k)
    BY <2>1
  <2>4. QED
    BY <2>2, <2>3
<1>3. \A k \in 1 .. Len(bytes) : \A b \in bytes[k] : b \in 0 .. 7 /\ place[b] \in 0 .. 7
  BY DEF IsPlacing
<1>4. ASSUME NEW d \in Polynomial(bytes, n, place)
      PROVE  d \in 0 .. top /\ top - d \in Sent(sent)
  <2>0. PICK k \in 1 .. Len(bytes) : \E b \in bytes[k] : d = n + 8 * (Len(bytes) - k) + place[b]
    BY <1>2
  <2>1. PICK b \in bytes[k] : d = n + 8 * (Len(bytes) - k) + place[b]
    BY <2>0
  <2>2. PICK j \in 0 .. 7 : j = place[b]
    BY <1>3
  <2>3. d \in 0 .. top /\ top - d = 8 * (k - 1) + (7 - place[b]) /\ top - d \in Nat
    <3>1. d = n + 8 * (Len(bytes) - k) + j /\ 8 * (k - 1) + (7 - place[b]) = 8 * (k - 1) + (7 - j)
      BY <2>1, <2>2
    <3>2. d \in 0 .. top /\ top - d = 8 * (k - 1) + (7 - j) /\ top - d \in Nat
      BY <1>1, <3>1
    <3>3. QED
      BY <3>1, <3>2
  <2>4. 7 - place[b] \in sent[k] /\ k \in DOMAIN sent
    BY <1>1 DEF IsPlacing
  <2>5. top - d \in Sent(sent)
    BY <2>3, <2>4 DEF Sent
  <2>6. QED
    BY <2>3, <2>5
<1>5. ASSUME NEW x \in Sent(sent)
      PROVE  top - x \in Polynomial(bytes, n, place)
  <2>1. PICK k \in 1 .. Len(bytes) : \E c \in sent[k] : x = 8 * (k - 1) + c
    BY <1>1 DEF Sent
  <2>2. PICK c \in sent[k] : x = 8 * (k - 1) + c
    BY <2>1
  <2>3. PICK b \in bytes[k] : c = 7 - place[b]
    BY DEF IsPlacing
  <2>4. PICK j \in 0 .. 7 : j = place[b]
    BY <1>3
  <2>5. top - x = n + 8 * (Len(bytes) - k) + place[b]
    <3>1. x = 8 * (k - 1) + (7 - j)
      BY <2>2, <2>3, <2>4
    <3>2. top - x = n + 8 * (Len(bytes) - k) + j
      BY <1>1, <3>1
    <3>3. QED
      BY <2>4, <3>2
  <2>6. QED
    BY <1>2, <2>5
<1>6. \A x \in 0 .. top : top - (top - x) = x
  BY <1>1
<1>7. Polynomial(bytes, n, place) \subseteq 0 .. top
  BY <1>4
<1>8. QED
  BY <1>4, <1>5, <1>6, <1>7

LEMMA Crc16IsRemainder ==
  ASSUME NEW bytes \in Seq(Octet)
  PROVE  Crc16Remainder(bytes) = {15 - b : b \in getModbusCRC16(bytes)}
<1> DEFINE N == 8 * Len(bytes)
           top == N + 15
           place == [b \in 0 .. 7 |-> 7 - b]
           p == Polynomial(bytes, 16, place)
           dividend == Plus(p, N .. N + 15)
           lower == {0, 2, 15}
           crc == getModbusCRC16(bytes)
           bits == Sent(bytes)
           ones == 0 .. 15
<1>1. N \in Nat /\ top = 8 * Len(bytes) + 16 - 1 /\ top = N + 16 - 1
  <2>1. Len(bytes) \in Nat
    BY LenProperties
  <2>2. QED
    BY <2>1
<1>2. IsPlacing(place, bytes, bytes)
  <2>1. ASSUME NEW k \in 1 .. Len(bytes), NEW b \in bytes[k]
        PROVE  b \in 0 .. 7 /\ 7 - place[b] = b
    <3>1. b \in 0 .. 7
      BY ElementOfSeq DEF Octet, Register
    <3>2. QED
      BY <3>1
  <2>2. QED
    BY <2>1 DEF IsPlacing
<1>3. p \subseteq 0 .. top /\ \A x \in 0 .. top : top - x \in p <=> x \in bits
  <2> HIDE DEF place
  <2>1. 16 \in Nat
    OBVIOUS
  <2>2. QED
    BY <1>1, <1>2, <2>1, PolynomialBits
<1>4. IsDividend(dividend, top, 16, bits, ones)
  <2>1. \A x \in 0 .. top : top - x \in N .. N + 15 <=> x \in ones
    BY <1>1
  <2>2. N .. N + 15 \subseteq 0 .. top
    BY <1>1
  <2> HIDE DEF N, top, p, bits, ones
  <2>3. QED
    BY <1>3, <2>1, <2>2 DEF IsDividend, Plus, Differ
<1>5. Serially(16, lower, bits, N, ones, crc)
  BY Crc16Serial
<1>6. bits \subseteq 0 .. N - 1
  BY SentRange
<1>7. 16 \in Nat /\ 16 >= 1 /\ lower \subseteq 0 .. 16 - 1
  OBVIOUS
<1>8. Crc16Remainder(bytes) = Remainder(dividend, top, 16, lower)
  BY Zenon DEF Crc16Remainder
<1> DEFINE n == 16
<1>12. n \in Nat /\ n >= 1 /\ lower \subseteq 0 .. n - 1 /\ top = N + n - 1
  BY <1>1
<1>13. IsDividend(dividend, top, n, bits, ones) /\ Serially(n, lower, bits, N, ones, crc)
  BY <1>4, <1>5
<1> HIDE DEF N, top, dividend, lower, crc, bits, ones, n
<1>9. Leaves(dividend, top, n, lower, crc)
  BY <1>1, <1>6, <1>12, <1>13, Division
<1>10. {n - 1 - i : i \in crc} = {15 - i : i \in crc}
  BY DEF n
<1>11. QED
  BY <1>8, <1>9, <1>10 DEF Leaves, crc, n

LEMMA Crc8IsRemainder ==
  ASSUME NEW bytes \in Seq(Octet)
  PROVE  Crc8Remainder(bytes) = crc_high_first(bytes)
<1> DEFINE N == 8 * Len(bytes)
           top == N + 7
           place == [b \in 0 .. 7 |-> b]
           p == Polynomial(bytes, 8, place)
           lower == {0, 4, 5}
           crc == crc_high_first(bytes)
           sent == Mirrored(bytes)
           bits == Sent(sent)
           zero == {}
<1>1. N \in Nat /\ top = 8 * Len(bytes) + 8 - 1 /\ top = N + 8 - 1
  <2>1. Len(bytes) \in Nat
    BY LenProperties
  <2>2. QED
    BY <2>1
<1>2. sent \in Seq(Octet) /\ Len(sent) = Len(bytes)
  BY MirroredType
<1>3. IsPlacing(place, bytes, sent)
  <2>1. ASSUME NEW k \in 1 .. Len(bytes)
        PROVE  /\ \A b \in bytes[k] : b \in 0 .. 7 /\ 7 - place[b] \in sent[k]
               /\ \A c \in sent[k] : \E b \in bytes[k] : c = 7 - place[b]
    <3>1. bytes[k] \subseteq 0 .. 7
      BY ElementOfSeq DEF Octet, Register
    <3>2. sent[k] = {7 - i : i \in bytes[k]}
      BY DEF Mirrored, Mirror
    <3>3. \A b \in bytes[k] : place[b] = b
      BY <3>1
    <3> HIDE DEF sent, place
    <3>4. QED
      BY <3>1, <3>2, <3>3
  <2>2. place \in [0 .. 7 -> 0 .. 7]
    OBVIOUS
  <2>3. QED
    BY <2>1, <2>2 DEF IsPlacing
<1>4. p \subseteq 0 .. top /\ \A x \in 0 .. top : top - x \in p <=> x \in bits
  <2> HIDE DEF place, sent
  <2>1. 8 \in Nat
    OBVIOUS
  <2>2. QED
    BY <1>1, <1>2, <1>3, <2>1, PolynomialBits
<1>5. IsDividend(p, top, 8, bits, zero)
  <2> HIDE DEF N, top, p, bits
  <2>1. QED
    BY <1>4 DEF IsDividend, Differ
<1>6. Serially(8, lower, bits, N, zero, Mirror(crc)) /\ crc \in Octet
  BY Crc8Serial
<1>7. bits \subseteq 0 .. N - 1
  <2> HIDE DEF sent
  <2>1. QED
    BY <1>2, SentRange
<1>8. 8 \in Nat /\ 8 >= 1 /\ lower \subseteq 0 .. 8 - 1
  OBVIOUS
<1>9. Crc8Remainder(bytes) = Remainder(p, top, 8, lower)
  BY Zenon DEF Crc8Remainder
<1> DEFINE n == 8
<1>13. n \in Nat /\ n >= 1 /\ lower \subseteq 0 .. n - 1 /\ top = N + n - 1
  BY <1>1
<1>14. IsDividend(p, top, n, bits, zero) /\ Serially(n, lower, bits, N, zero, Mirror(crc))
  BY <1>5, <1>6
<1> HIDE DEF N, top, p, lower, crc, bits, zero, n
<1>10. Leaves(p, top, n, lower, Mirror(crc))
  BY <1>1, <1>7, <1>13, <1>14, Division
<1>11. {n - 1 - i : i \in Mirror(crc)} = crc
  <2>1. crc \subseteq 0 .. 7
    BY <1>6 DEF Octet, Register
  <2>2. Mirror(crc) \subseteq 0 .. 7 /\ \A i \in 0 .. 7 : i \in Mirror(crc) <=> 7 - i \in crc
    <3>1. Mirror(crc) \in Octet
      BY <1>6, MirrorBits
    <3>2. QED
      BY <1>6, <3>1, MirrorBits DEF Octet, Register
  <2>3. \A b \in crc : b = 8 - 1 - (7 - b) /\ 7 - b \in 0 .. 7 /\ 7 - (7 - b) = b
    BY <2>1
  <2>4. \A i \in Mirror(crc) : 8 - 1 - i \in crc
    BY <2>2
  <2>5. QED
    BY <2>2, <2>3, <2>4 DEF n
<1>12. QED
  BY <1>9, <1>10, <1>11 DEF Leaves, crc, n

-----------------------------------------------------------------------------
(* What the 16-bit checksum detects.                                       *)

(* A run is determined by what it has read.                                *)
LEMMA FoldPrefix ==
  ASSUME NEW V, NEW E, NEW step, NEW v \in V, NEW s \in Seq(E), IsStep(step, V, E),
         NEW f, IsRun(f, step, v, s, V), NEW m \in 0 .. Len(s)
  PROVE  f[m] = Fold(step, v, SubSeq(s, 1, m))
<1> DEFINE u == SubSeq(s, 1, m)
<1>1. u \in Seq(E) /\ Len(u) = m /\ Len(s) \in Nat /\ \A k \in 1 .. m : u[k] = s[k]
  BY LenProperties, ElementOfSeq
<1> HIDE DEF u
<1>2. PICK g : IsRun(g, step, v, u, V)
  BY <1>1, FoldRun
<1>3. /\ f[0] = v /\ \A k \in 1 .. m : f[k] = step[<<f[k - 1], s[k]>>]
      /\ g[0] = v /\ \A k \in 1 .. m : g[k] = step[<<g[k - 1], u[k]>>]
      /\ g[m] = Fold(step, v, u)
  BY <1>1, <1>2 DEF IsRun
<1> DEFINE P == {k \in 0 .. m : f[k] = g[k]}
<1>4. 0 \in P
  BY <1>1, <1>3
<1>5. ASSUME NEW k \in 1 .. m, k - 1 \in P
      PROVE  k \in P
  <2>1. f[k - 1] = g[k - 1] /\ u[k] = s[k]
    BY <1>1, <1>5
  <2>2. f[k] = step[<<f[k - 1], s[k]>>] /\ g[k] = step[<<g[k - 1], u[k]>>]
    BY <1>3
  <2>3. QED
    BY <1>1, <2>1, <2>2
<1> HIDE DEF P
<1>6. m \in Nat
  BY <1>1
<1>7. 0 .. m \subseteq P
  BY <1>4, <1>5, <1>6, Induction
<1>8. f[m] = g[m]
  BY <1>6, <1>7 DEF P
<1>9. QED
  BY <1>3, <1>8 DEF u

(* Behind a register that holds the bits that follow, nothing is left.     *)
Follows(F, o, n, bits) == \A b \in 0 .. n - 1 : o + b \in bits <=> b \in F[o]

LEMMA Flushed ==
  ASSUME NEW n \in Nat, n >= 1, NEW lower, NEW bits, NEW N \in Nat, NEW F,
         IsSerial(F, n, lower, bits, N), NEW o \in Nat, N = o + n,
         Follows(F, o, n, bits)
  PROVE  F[N] = {}
<1> USE DEF Follows
<1>1. F[o] \subseteq 0 .. n - 1 /\ F[o + n] \subseteq 0 .. n - 1
  BY DEF IsSerial, Register
<1> DEFINE Shifted(j) == F[o + j] = {i \in 0 .. n - 1 : i + j \in F[o]}
           P == {j \in 0 .. n : Shifted(j)}
<1>2. 0 \in P
  <2>1. o + 0 = o /\ \A i \in 0 .. n - 1 : i + 0 = i
    OBVIOUS
  <2>2. F[o] = {i \in 0 .. n - 1 : i \in F[o]}
    BY <1>1
  <2>3. QED
    BY <2>1, <2>2
<1>3. ASSUME NEW j \in 1 .. n, j - 1 \in P
      PROVE  j \in P
  <2> DEFINE R == F[o + (j - 1)]
  <2>1. R = {i \in 0 .. n - 1 : i + (j - 1) \in F[o]}
    BY <1>3
  <2>2. 0 \in R <=> o + (j - 1) \in bits
    <3>1. 0 \in 0 .. n - 1 /\ 0 + (j - 1) = j - 1 /\ j - 1 \in 0 .. n - 1
      OBVIOUS
    <3>2. QED
      BY <2>1, <3>1
  <2>3. F[o + j] = SerialBit(n, lower, R, o + (j - 1) \in bits)
    <3>1. o + j \in 1 .. N /\ o + j - 1 = o + (j - 1)
      OBVIOUS
    <3>2. QED
      BY <3>1 DEF IsSerial
  <2>4. \A i \in 0 .. n - 1 : i + 1 \in R <=> i + j \in F[o]
    <3> TAKE i \in 0 .. n - 1
    <3>1. CASE i + 1 \in 0 .. n - 1
      <4>1. i + 1 + (j - 1) = i + j
        OBVIOUS
      <4>2. QED
        BY <2>1, <3>1, <4>1
    <3>2. CASE i + 1 \notin 0 .. n - 1
      <4>1. i + j \notin 0 .. n - 1
        BY <3>2
      <4>2. QED
        BY <1>1, <2>1, <3>2, <4>1
    <3>3. QED
      BY <3>1, <3>2
  <2> HIDE DEF R
  <2>5. F[o + j] = {i \in 0 .. n - 1 : i + 1 \in R}
    BY <2>2, <2>3 DEF SerialBit, Differ
  <2>6. Shifted(j)
    BY <2>4, <2>5
  <2>7. QED
    BY <2>6
<1> HIDE DEF P
<1>4. 0 .. n \subseteq P
  BY <1>2, <1>3, Induction
<1>5. F[o + n] = {i \in 0 .. n - 1 : i + n \in F[o]}
  <2>1. n \in P
    BY <1>4
  <2>2. QED
    BY <2>1 DEF P
<1>6. QED
  BY <1>1, <1>5

(* A frame that passes the test leaves the register empty.                 *)
LEMMA Residual ==
  ASSUME NEW frame \in Seq(Octet), Len(frame) >= 2, CrcMatches16(frame)
  PROVE  getModbusCRC16(frame) = {}
<1> DEFINE n == Len(frame) - 2
           body == SubSeq(frame, 1, n)
           low == frame[n + 1]
           high == frame[n + 2]
           o == 8 * n
           N == 8 * Len(frame)
           ones == 0 .. 15
<1>1. n \in Nat /\ n \in 0 .. Len(frame) /\ Len(frame) = n + 2 /\ Len(frame) \in Nat
  BY LenProperties
<1>2. PICK reg, F : IsCrc16Run(reg, F, frame)
  BY Crc16Run
<1>3. reg[n] = getModbusCRC16(body)
  <2>1. IsStep(Crc16Byte, Register(16), Octet)
    BY Crc16ByteStep DEF IsStep, Crc16Byte
  <2>2. ones \in Register(16)
    BY DEF Register
  <2>3. IsRun(reg, Crc16Byte, ones, frame, Register(16))
    BY <1>2 DEF IsCrc16Run
  <2> HIDE DEF ones, n
  <2>4. reg[n] = Fold(Crc16Byte, ones, SubSeq(frame, 1, n))
    BY <1>1, <2>1, <2>2, <2>3, FoldPrefix
  <2>5. QED
    BY <2>4 DEF getModbusCRC16, ones
<1>4. getModbusCRC16(body) = {k + 8 : k \in high} \cup low
  BY Zenon DEF CrcMatches16, Word
<1>5. low \subseteq 0 .. 7 /\ high \subseteq 0 .. 7
  <2>1. n + 1 \in 1 .. Len(frame) /\ n + 2 \in 1 .. Len(frame)
    BY <1>1
  <2>2. low \in Octet /\ high \in Octet
    BY <2>1, ElementOfSeq
  <2>3. QED
    BY <2>2 DEF Octet, Register
<1>6. \A b \in 0 .. 7 : o + b \in Sent(frame) <=> b \in low
  <2> DEFINE k == n + 1
  <2>1. k \in 1 .. Len(frame) /\ 8 * (k - 1) = o
    BY <1>1
  <2> HIDE DEF k
  <2>2. \A b \in 0 .. 7 : 8 * (k - 1) + b \in Sent(frame) <=> b \in frame[k]
    BY <2>1, SentBits
  <2>3. low = frame[k]
    BY DEF k
  <2> HIDE DEF low
  <2>4. QED
    BY <2>1, <2>2, <2>3
<1>7. \A b \in 0 .. 7 : o + 8 + b \in Sent(frame) <=> b \in high
  <2> DEFINE k == n + 2
  <2>1. k \in 1 .. Len(frame) /\ 8 * (k - 1) = o + 8
    BY <1>1
  <2> HIDE DEF k
  <2>2. \A b \in 0 .. 7 : 8 * (k - 1) + b \in Sent(frame) <=> b \in frame[k]
    BY <2>1, SentBits
  <2>3. high = frame[k]
    BY DEF k
  <2> HIDE DEF high
  <2>4. QED
    BY <2>1, <2>2, <2>3
<1>8. o \in Nat /\ N \in Nat /\ N = o + 16 /\ o = 8 * n /\ N = 8 * Len(frame)
  BY <1>1
<1>9. F[o] = {k + 8 : k \in high} \cup low
  BY <1>1, <1>2, <1>3, <1>4 DEF IsCrc16Run, IsBitWise
<1>10. F[N] = getModbusCRC16(frame) /\ IsSerial(F, 16, {0, 2, 15}, Sent(frame), N)
  BY <1>1, <1>2 DEF IsCrc16Run, IsBitWise
<1> HIDE DEF o, N, low, high, n
<1>11. \A b \in 0 .. 15 : o + b \in Sent(frame) <=> b \in F[o]
  <2> SUFFICES ASSUME NEW b \in 0 .. 15
               PROVE  o + b \in Sent(frame) <=> b \in {k + 8 : k \in high} \cup low
    BY <1>9
  <2>1. CASE b \in 0 .. 7
    BY <1>5, <1>6, <2>1
  <2>2. CASE b \in 8 .. 15
    <3>1. PICK c \in 0 .. 7 : c = b - 8
      BY <2>2
    <3>2. b = c + 8 /\ o + b = o + 8 + c /\ b \notin low
      BY <1>5, <1>8, <2>2, <3>1
    <3>3. b \in {k + 8 : k \in high} <=> c \in high
      BY <1>5, <3>2
    <3>4. QED
      BY <1>7, <3>2, <3>3
  <2>3. QED
    BY <2>1, <2>2
<1> DEFINE width == 16
           lower == {0, 2, 15}
<1>12. /\ width \in Nat /\ width >= 1 /\ N = o + width
       /\ IsSerial(F, width, lower, Sent(frame), N)
       /\ Follows(F, o, width, Sent(frame))
  BY <1>8, <1>10, <1>11 DEF Follows
<1> HIDE DEF width, lower
<1>13. F[N] = {}
  BY <1>8, <1>12, Flushed
<1>14. QED
  BY <1>10, <1>13

(* The register of the bits in which two messages differ.                  *)
LEMMA Linear ==
  ASSUME NEW n \in Nat, NEW N \in Nat, NEW lower, NEW a, NEW b,
         NEW v, NEW w, Serially(n, lower, a, N, v, w), Serially(n, lower, b, N, v, w)
  PROVE  Serially(n, lower, Plus(a, b), N, {}, {})
<1>1. PICK F : IsSerial(F, n, lower, a, N) /\ F[0] = v /\ F[N] = w
  BY DEF Serially
<1>2. PICK G : IsSerial(G, n, lower, b, N) /\ G[0] = v /\ G[N] = w
  BY DEF Serially
<1> DEFINE H == [t \in 0 .. N |-> Plus(F[t], G[t])]
<1>3. H \in [0 .. N -> Register(n)]
  BY <1>1, <1>2, PlusType DEF IsSerial
<1>4. ASSUME NEW t \in 1 .. N
      PROVE  H[t] = SerialBit(n, lower, H[t - 1], t - 1 \in Plus(a, b))
  <2>1. t - 1 \in 0 .. N
    OBVIOUS
  <2>2. H[t] = Plus(F[t], G[t]) /\ H[t - 1] = Plus(F[t - 1], G[t - 1])
    BY <2>1
  <2>3. /\ F[t] = SerialBit(n, lower, F[t - 1], t - 1 \in a)
        /\ G[t] = SerialBit(n, lower, G[t - 1], t - 1 \in b)
    BY <1>1, <1>2 DEF IsSerial
  <2>4. \A p, q, x, y : Plus(SerialBit(n, lower, p, x \in a), SerialBit(n, lower, q, x \in b))
                          = SerialBit(n, lower, Plus(p, q), x \in Plus(a, b))
    BY DEF Plus, SerialBit, Differ
  <2>5. QED
    BY <2>2, <2>3, <2>4
<1>5. H[0] = {} /\ H[N] = {}
  BY <1>1, <1>2 DEF Plus
<1> HIDE DEF H
<1>6. QED
  BY <1>3, <1>4, <1>5 DEF IsSerial, Serially

(* Bits that lead from the empty register back to it span more than its    *)
(* width, if there are any.                                                *)
LEMMA Burst ==
  ASSUME NEW n \in Nat, n >= 1, NEW N \in Nat, NEW lower, 0 \in lower,
         NEW bits, bits \subseteq 0 .. N - 1, bits # {},
         NEW at \in Nat, bits \subseteq at .. at + n - 1,
         Serially(n, lower, bits, N, {}, {})
  PROVE  FALSE
<1>1. PICK F : IsSerial(F, n, lower, bits, N) /\ F[0] = {} /\ F[N] = {}
  BY DEF Serially
<1>2. PICK a \in bits : \A x \in bits : a <= x
  <2>1. bits \subseteq Nat
    OBVIOUS
  <2>2. QED
    BY <2>1, Least
<1>3. a \in 0 .. N - 1 /\ \A x \in bits : x <= a + n - 1
  OBVIOUS
<1>4. \A t \in 0 .. N : F[t] \subseteq 0 .. n - 1
  BY <1>1 DEF IsSerial, Register
<1>5. \A t \in 1 .. N : F[t] = SerialBit(n, lower, F[t - 1], t - 1 \in bits)
  BY <1>1 DEF IsSerial
<1>6. F[a] = {}
  <2> DEFINE P == {t \in 0 .. a : F[t] = {}}
  <2>1. 0 \in P
    BY <1>1, <1>3
  <2>2. ASSUME NEW t \in 1 .. a, t - 1 \in P
        PROVE  t \in P
    <3>1. F[t - 1] = {} /\ t - 1 \notin bits /\ t \in 1 .. N
      BY <1>2, <1>3, <2>2
    <3>2. F[t] = {}
      BY <1>5, <3>1 DEF SerialBit, Differ
    <3>3. QED
      BY <3>2
  <2> HIDE DEF P
  <2>3. 0 .. a \subseteq P
    BY <1>3, <2>1, <2>2, Induction
  <2>4. QED
    BY <1>3, <2>3 DEF P
<1>7. n - 1 \in F[a + 1]
  <2>1. a + 1 \in 1 .. N /\ a + 1 - 1 = a /\ n - 1 - (n - 1) = 0 /\ n - 1 \in 0 .. n - 1
    BY <1>3
  <2>2. F[a + 1] = SerialBit(n, lower, F[a], a \in bits)
    BY <1>5, <2>1
  <2>3. QED
    BY <1>6, <2>1, <2>2 DEF SerialBit, Differ
(* Backwards from the end: what is in the register after t steps got there *)
(* by bits of the message.                                                 *)
<1> DEFINE Narrow(t) == \A i \in F[t] : t + i <= a + n - 1
           P == {k \in 0 .. N - (a + 1) : Narrow(N - k)}
<1>8. 0 \in P
  BY <1>1, <1>3
<1>9. ASSUME NEW k \in 1 .. N - (a + 1), k - 1 \in P
      PROVE  k \in P
  <2> DEFINE t == N - (k - 1)
  <2>1. t \in a + 2 .. N /\ t - 1 = N - k /\ t \in 1 .. N /\ t - 1 \in 0 .. N
    BY <1>3
  <2>2. Narrow(t)
    BY <1>9
  <2> HIDE DEF t
  <2>3. F[t] = SerialBit(n, lower, F[t - 1], t - 1 \in bits)
    BY <1>5, <2>1
  <2>4. ~Differ(0 \in F[t - 1], t - 1 \in bits)
    <3>1. n - 1 \notin F[t]
      BY <1>3, <2>1, <2>2
    <3>2. n - 1 + 1 \notin F[t - 1] /\ n - 1 \in 0 .. n - 1 /\ n - 1 - (n - 1) = 0
      BY <1>4, <2>1
    <3>3. QED
      BY <2>3, <3>1, <3>2 DEF SerialBit, Differ
  <2>5. ASSUME NEW i \in F[t - 1]
        PROVE  t - 1 + i <= a + n - 1
    <3>1. i \in 0 .. n - 1
      BY <1>4, <2>1
    <3>2. CASE i = 0
      <4>1. t - 1 \in bits
        BY <2>4, <3>2 DEF Differ
      <4>2. QED
        BY <1>3, <2>1, <3>2, <4>1
    <3>3. CASE i # 0
      <4>1. i - 1 \in 0 .. n - 1 /\ i - 1 + 1 = i
        BY <3>1, <3>3
      <4>2. i - 1 \in F[t]
        BY <2>3, <2>4, <4>1 DEF SerialBit, Differ
      <4>3. t + (i - 1) <= a + n - 1
        BY <2>2, <4>2
      <4>4. QED
        BY <1>3, <2>1, <3>1, <4>3
    <3>4. QED
      BY <3>2, <3>3
  <2>6. Narrow(N - k)
    BY <2>1, <2>5
  <2>7. QED
    BY <2>6
<1> HIDE DEF P
<1>10. N - (a + 1) \in Nat
  BY <1>3
<1>11. 0 .. N - (a + 1) \subseteq P
  BY <1>8, <1>9, <1>10, Induction
<1>12. N - (a + 1) \in P /\ N - (N - (a + 1)) = a + 1
  BY <1>3, <1>10, <1>11
<1>13. \A i \in F[a + 1] : a + 1 + i <= a + n - 1
  BY <1>12 DEF P
<1>14. QED
  BY <1>3, <1>7, <1>13

(* What a sender transmits passes the test.                                *)
LEMMA FramedPasses ==
  ASSUME NEW bytes \in Seq(Octet)
  PROVE  /\ Framed(bytes) \in Seq(Octet) /\ Len(Framed(bytes)) = Len(bytes) + 2
         /\ CrcMatches16(Framed(bytes))
<1> DEFINE crc == getModbusCRC16(bytes)
           low == crc \cap (0 .. 7)
           high == {k - 8 : k \in crc \ (0 .. 7)}
           frame == Framed(bytes)
           n == Len(bytes)
<1>1. crc \subseteq 0 .. 15
  BY Crc16Serial DEF Register
<1>2. low \in Octet /\ high \in Octet
  BY <1>1 DEF Octet, Register
<1>3. frame = bytes \o <<low, high>>
  BY Zenon DEF Framed
<1>4. {k + 8 : k \in high} \cup low = crc
  <2>1. \A k \in crc \ (0 .. 7) : k - 8 \in high /\ k = k - 8 + 8
    BY <1>1
  <2>2. \A j \in high : j + 8 \in crc
    BY <1>1
  <2>3. QED
    BY <2>1, <2>2
<1> HIDE DEF low, high, crc, frame
<1>5. n \in Nat
  BY LenProperties
<1>6. frame \in Seq(Octet) /\ Len(frame) = n + 2
  BY <1>2, <1>3, <1>5
<1>7. frame[n + 1] = low /\ frame[n + 2] = high
  BY <1>2, <1>3, <1>5
<1>8. SubSeq(frame, 1, n) = bytes
  <2>1. bytes = [k \in 1 .. n |-> bytes[k]]
    BY LenProperties
  <2>2. \A k \in 1 .. n : frame[k] = bytes[k]
    BY <1>2, <1>3, <1>5
  <2>3. SubSeq(frame, 1, n) = [k \in 1 .. n |-> frame[k]]
    <3>1. n - 1 + 1 = n /\ \A k \in 1 .. n : 1 + k - 1 = k
      BY <1>5
    <3>2. SubSeq(frame, 1, n) \in Seq(Octet) /\ Len(SubSeq(frame, 1, n)) = n
      BY <1>5, <1>6
    <3>3. \A k \in 1 .. n : SubSeq(frame, 1, n)[k] = frame[k]
      BY <1>5, <1>6
    <3>4. QED
      BY <3>2, <3>3, LenProperties
  <2>4. QED
    BY <2>1, <2>2, <2>3
<1>9. Len(frame) - 2 = n
  BY <1>5, <1>6
<1>10. getModbusCRC16(SubSeq(frame, 1, Len(frame) - 2))
         = Word(frame[Len(frame) - 2 + 2], frame[Len(frame) - 2 + 1])
  BY <1>4, <1>7, <1>8, <1>9 DEF Word, crc
<1>11. CrcMatches16(frame)
  BY <1>10 DEF CrcMatches16
<1>12. QED
  BY <1>6, <1>11 DEF frame, n

(* The 8-bit checksum cancels itself.                                      *)
LEMMA Cancelled == \A v \in Octet : Crc8Byte[<<v, v>>] = {}
<1> SUFFICES ASSUME NEW v \in Octet PROVE Crc8Byte[<<v, v>>] = {}
  OBVIOUS
<1> DEFINE zero == {}
<1>1. Crc8Byte[<<v, v>>] = Fold(Crc8Shift, zero, Eight)
  <2>1. Plus(v, v) = {}
    BY DEF Plus
  <2>2. QED
    BY <2>1 DEF Crc8Byte
<1>2. IsStep(Crc8Shift, Octet, 1 .. 8)
  BY Crc8BitSerial DEF IsStep, Crc8Shift
<1>3. zero \in Octet /\ Crc8Bit(zero) = zero
  BY DEF Octet, Register, Crc8Bit, Plus
<1>4. PICK f : IsRun(f, Crc8Shift, zero, Eight, Octet)
  <2> HIDE DEF zero
  <2>1. QED
    BY <1>2, <1>3, EightIsSeq, FoldRun
<1> HIDE DEF zero
<1> DEFINE P == {j \in 0 .. 8 : f[j] = zero}
<1>5. 0 \in P
  BY <1>4 DEF IsRun
<1>6. ASSUME NEW j \in 1 .. 8, j - 1 \in P
      PROVE  j \in P
  <2>1. f[j] = Crc8Shift[<<f[j - 1], Eight[j]>>] /\ Eight[j] \in 1 .. 8
    BY <1>4, EightIsSeq DEF IsRun, Eight
  <2>2. f[j - 1] = zero
    BY <1>6
  <2>3. f[j] = Crc8Bit(zero)
    BY <1>3, <2>1, <2>2 DEF Crc8Shift
  <2>4. QED
    BY <1>3, <2>3
<1> HIDE DEF P
<1>7. 0 .. 8 \subseteq P
  BY <1>5, <1>6, Induction
<1>8. f[8] = zero
  BY <1>7 DEF P
<1>9. QED
  BY <1>1, <1>4, <1>8, EightIsSeq DEF IsRun, zero

LEMMA Residual8 ==
  ASSUME NEW bytes \in Seq(Octet)
  PROVE  crc_high_first(Append(bytes, crc_high_first(bytes))) = {}
<1> DEFINE crc == crc_high_first(bytes)
           frame == Append(bytes, crc)
           n == Len(bytes)
           zero == {}
<1>1. crc \in Octet
  BY Crc8Serial
<1>2. n \in Nat /\ n \in 0 .. n + 1
  BY LenProperties
<1> HIDE DEF crc
<1>3. frame \in Seq(Octet) /\ Len(frame) = n + 1 /\ frame[n + 1] = crc
  BY <1>1, <1>2
<1>4. SubSeq(frame, 1, n) = bytes
  <2>1. SubSeq(frame, 1, n) \in Seq(Octet) /\ Len(SubSeq(frame, 1, n)) = n
    BY <1>2, <1>3
  <2>2. \A k \in 1 .. n : SubSeq(frame, 1, n)[k] = bytes[k]
    BY <1>1, <1>2
  <2>3. QED
    BY <2>1, <2>2, LenProperties
<1>5. IsStep(Crc8Byte, Octet, Octet) /\ zero \in Octet
  BY Crc8ByteStep DEF IsStep, Crc8Byte, Octet, Register
<1> HIDE DEF frame, n, zero
<1>6. PICK reg : IsRun(reg, Crc8Byte, zero, frame, Octet)
  BY <1>3, <1>5, FoldRun
<1>7. reg[n] = crc
  <2>1. n \in 0 .. Len(frame)
    BY <1>2, <1>3
  <2>2. reg[n] = Fold(Crc8Byte, zero, SubSeq(frame, 1, n))
    BY <1>3, <1>5, <1>6, <2>1, FoldPrefix
  <2>3. QED
    BY <1>4, <2>2 DEF crc_high_first, crc, zero
<1>8. n + 1 \in 1 .. Len(frame) /\ n + 1 - 1 = n
  BY <1>2, <1>3
<1>9. reg[n + 1] = Crc8Byte[<<crc, crc>>]
  <2>1. PICK k \in 1 .. Len(frame) : k = n + 1 /\ k - 1 = n
    BY <1>2, <1>8
  <2>2. reg[k] = Crc8Byte[<<reg[k - 1], frame[k]>>]
    BY <1>6 DEF IsRun
  <2>3. QED
    BY <1>3, <1>7, <2>1, <2>2
<1>10. reg[n + 1] = crc_high_first(frame)
  BY <1>3, <1>6 DEF IsRun, crc_high_first, zero
<1>11. QED
  BY <1>1, <1>9, <1>10, Cancelled DEF frame, crc

(***************************************************************************)
(* getModbusCRC16 and crc_high_first compute the remainders of their       *)
(* polynomials, whatever the message and however long it is, and the       *)
(* checksum behind the message leaves none.                                *)
(***************************************************************************)
THEOREM ChecksumsAreRemaindersOfAll == \A bytes \in Seq(Octet) : AreRemainders(bytes)
<1> SUFFICES ASSUME NEW bytes \in Seq(Octet) PROVE AreRemainders(bytes)
  OBVIOUS
<1>1. getModbusCRC16(Framed(bytes)) = {}
  <2>1. Len(bytes) \in Nat
    BY LenProperties
  <2>2. Len(Framed(bytes)) >= 2
    BY <2>1, FramedPasses
  <2>3. QED
    BY <2>2, FramedPasses, Residual
<1>2. QED
  BY <1>1, Crc16IsRemainder, Crc8IsRemainder, Residual8 DEF AreRemainders

(* A disturbance flips exactly the bits it hits.                           *)
LEMMA DamagedBits ==
  ASSUME NEW bytes \in Seq(Octet), NEW hit, hit \subseteq 0 .. 8 * Len(bytes) - 1
  PROVE  /\ Damaged(bytes, hit) \in Seq(Octet) /\ Len(Damaged(bytes, hit)) = Len(bytes)
         /\ Plus(Sent(bytes), Sent(Damaged(bytes, hit))) = hit
<1> DEFINE d == Damaged(bytes, hit)
           flip(k) == {b \in 0 .. 7 : 8 * (k - 1) + b \in hit}
           top == 8 * Len(bytes) - 1
<1>1. Len(bytes) \in Nat /\ DOMAIN bytes = 1 .. Len(bytes)
  BY LenProperties
<1>2. d = [k \in 1 .. Len(bytes) |-> Plus(bytes[k], flip(k))]
  BY <1>1, Zenon DEF Damaged
<1>3. \A k \in 1 .. Len(bytes) : Plus(bytes[k], flip(k)) \in Octet
  <2> TAKE k \in 1 .. Len(bytes)
  <2>1. bytes[k] \in Octet /\ flip(k) \in Octet
    BY ElementOfSeq DEF Octet, Register
  <2> HIDE DEF flip
  <2>2. QED
    BY <2>1, PlusType DEF Octet
<1> HIDE DEF flip
<1>4. d \in Seq(Octet) /\ Len(d) = Len(bytes)
  BY <1>1, <1>2, <1>3, IsASeq, LenProperties
<1>5. \A k \in 1 .. Len(bytes) : d[k] = Plus(bytes[k], flip(k))
  BY <1>2
<1> HIDE DEF d
<1>6. ASSUME NEW x \in 0 .. top
      PROVE  x \in Plus(Sent(bytes), Sent(d)) <=> x \in hit
  <2>1. PICK k \in 1 .. Len(bytes), b \in 0 .. 7 : x = 8 * (k - 1) + b
    <3>1. x \div 8 + 1 \in 1 .. Len(bytes) /\ x % 8 \in 0 .. 7 /\ x = 8 * (x \div 8 + 1 - 1) + (x % 8)
      BY <1>1
    <3>2. QED
      BY <3>1
  <2>2. x \in Sent(bytes) <=> b \in bytes[k]
    BY <2>1, SentBits
  <2>3. k \in 1 .. Len(d)
    BY <1>4
  <2>4. x \in Sent(d) <=> b \in d[k]
    BY <1>4, <2>1, <2>3, SentBits
  <2>5. b \in flip(k) <=> x \in hit
    BY <2>1 DEF flip
  <2>6. QED
    BY <1>5, <2>2, <2>4, <2>5 DEF Plus
<1>7. Sent(bytes) \subseteq 0 .. top /\ Sent(d) \subseteq 0 .. top
  BY <1>4, SentRange
<1>8. Plus(Sent(bytes), Sent(d)) \subseteq 0 .. top
  BY <1>7 DEF Plus
<1>9. Plus(Sent(bytes), Sent(d)) = hit
  BY <1>6, <1>8
<1>10. QED
  BY <1>4, <1>9 DEF d

(* Two frames of one length that both pass the test, and whose bits differ *)
(* only within 16 in a row, are the same.                                  *)
LEMMA OneBurst ==
  ASSUME NEW f \in Seq(Octet), NEW g \in Seq(Octet), Len(f) = Len(g), Len(f) >= 2,
         CrcMatches16(f), CrcMatches16(g),
         NEW at \in Nat, Plus(Sent(f), Sent(g)) \subseteq at .. at + 15,
         Plus(Sent(f), Sent(g)) # {}
  PROVE  FALSE
<1> DEFINE n == 16
           lower == {0, 2, 15}
           N == 8 * Len(f)
           bits == Plus(Sent(f), Sent(g))
           ones == 0 .. 15
           zero == {}
<1>1. Serially(n, lower, Sent(f), N, ones, zero)
  BY Crc16Serial, Residual
<1>2. Serially(n, lower, Sent(g), N, ones, zero)
  <2>1. Len(g) >= 2
    OBVIOUS
  <2>2. getModbusCRC16(g) = {}
    BY <2>1, Residual
  <2>3. QED
    BY <2>2, Crc16Serial
<1>3. n \in Nat /\ n >= 1 /\ N \in Nat /\ 0 \in lower /\ bits \subseteq at .. at + n - 1
  <2>1. Len(f) \in Nat
    BY LenProperties
  <2>2. at + 15 = at + n - 1
    OBVIOUS
  <2> HIDE DEF bits
  <2>3. bits \subseteq at .. at + 15
    BY DEF bits
  <2>4. QED
    BY <2>1, <2>2, <2>3
<1>4. bits \subseteq 0 .. N - 1 /\ bits # {}
  BY SentRange DEF Plus
<1> HIDE DEF n, lower, N, ones
<1>5. Serially(n, lower, bits, N, {}, {})
  BY <1>1, <1>2, <1>3, Linear
<1> HIDE DEF bits
<1>6. QED
  BY <1>3, <1>4, <1>5, Burst

(* Whatever the message and however long it is, its frame passes the test  *)
(* of the receivers, and no longer does after a disturbance of at most 16  *)
(* bits in a row.                                                          *)
THEOREM BurstsDetectedInAll == \A bytes \in Seq(Octet) : DetectsBursts(bytes)
<1> SUFFICES ASSUME NEW bytes \in Seq(Octet) PROVE DetectsBursts(bytes)
  OBVIOUS
<1> DEFINE frame == Framed(bytes)
           bits == 0 .. 8 * Len(frame) - 1
<1>1. frame \in Seq(Octet) /\ Len(frame) \in Nat /\ Len(frame) >= 2 /\ CrcMatches16(frame)
  <2>1. Len(bytes) \in Nat
    BY LenProperties
  <2>2. QED
    BY <2>1, FramedPasses
<1> HIDE DEF frame
<1>2. ASSUME NEW at \in bits, NEW burst \in Bursts, NEW hit, hit = {at + b : b \in burst} \cap bits,
             hit # {}, CrcMatches16(Damaged(frame, hit))
      PROVE  FALSE
  <2> DEFINE g == Damaged(frame, hit)
  <2>1. hit \subseteq 0 .. 8 * Len(frame) - 1
    BY <1>2
  <2>2. g \in Seq(Octet) /\ Len(g) = Len(frame) /\ Plus(Sent(frame), Sent(g)) = hit
    BY <1>1, <2>1, DamagedBits
  <2>3. at \in Nat /\ hit \subseteq at .. at + 15
    <3>1. burst \subseteq 0 .. 15
      BY BurstsAssumption
    <3>2. at \in Nat
      BY <1>1
    <3>3. ASSUME NEW h \in hit
          PROVE  h \in at .. at + 15
      <4>1. PICK b \in burst : h = at + b
        BY <1>2
      <4>2. b \in 0 .. 15
        BY <3>1
      <4>3. QED
        BY <3>2, <4>1, <4>2
    <3>4. QED
      BY <3>2, <3>3
  <2>4. CrcMatches16(g)
    BY <1>2
  <2> HIDE DEF g
  <2>5. QED
    BY <1>1, <1>2, <2>2, <2>3, <2>4, OneBurst
<1>3. QED
  BY <1>1, <1>2, Zenon DEF DetectsBursts, frame
=============================================================================
