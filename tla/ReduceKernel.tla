------------------------------ MODULE ReduceKernel ------------------------------
(***************************************************************************)
(* The arithmetic of an all-reduce: the packed operations of               *)
(* gpu_data_types.hpp and the accumulation of reduce_kernel.hpp, run by    *)
(* the all-pairs kernel, in which every rank reduces the whole message by  *)
(* itself, its own words first and its peers' in the order of their ranks. *)
(*                                                                         *)
(* A 32-bit word is its four bytes, least significant first, so that an    *)
(* addition carries from byte to byte as it does in a register.  A float16 *)
(* is its 16 bits.  A float32 is a sign and a magnitude in units of 2^-17, *)
(* the least fp8_e4m3b15 value: sums of a few such values are exact in     *)
(* float32.  The float16, float8_e4m3 and float8_e5m2 operators are single *)
(* instructions of the device and are not modelled.                        *)
(***************************************************************************)
EXTENDS Integers, Bitwise, SequencesExt

CONSTANTS
  Scenarios   \* sets of reductions [type, accum, op, device, count, data]: data[r][w] a word of r

VARIABLES
  scenario,
  reduction,   \* the call the ranks make
  resultBuff   \* resultBuff[r][w]: word w of r's output, <<>> when not written

rvars == <<scenario, reduction, resultBuff>>

Abs(x) == IF x < 0 THEN -x ELSE x
Least(x, y) == IF x < y THEN x ELSE y

-----------------------------------------------------------------------------
(* Words.                                                                  *)

Four(Lane(_)) == <<Lane(1), Lane(2), Lane(3), Lane(4)>>

Masked(x, m) == Four(LAMBDA i : x[i] & m[i])
Joined(x, y) == Four(LAMBDA i : x[i] | y[i])
Complement(x) == Four(LAMBDA i : 255 - x[i])
ShiftRight1(x) == Four(LAMBDA i : x[i] \div 2 + IF i < 4 THEN 128 * (x[i + 1] % 2) ELSE 0)
ShiftRight8(x) == <<x[2], x[3], x[4], 0>>

\* x * k + y modulo 2^32, the carries passed from byte to byte.
MulAdd(x, k, y) ==
  LET carry[i \in 0..4] == IF i = 0 THEN 0 ELSE (x[i] * k + y[i] + carry[i - 1]) \div 256
  IN  Four(LAMBDA i : (x[i] * k + y[i] + carry[i - 1]) % 256)

\* __byte_perm: the bytes of x are 0..3, those of y 4..7; s lists the selector's
\* nibbles from the least significant one.
BytePerm(x, y, s) == Four(LAMBDA i : (x \o y)[s[i] + 1])

Zero == <<0, 0, 0, 0>>
EvenBytes == <<255, 0, 255, 0>>
Ones == <<1, 1, 1, 1>>
Signs == <<0, 128, 0, 128>>          \* 0x80008000

\* u8x4 operator+ on HIP: even and odd bytes are added apart, and the bytes into
\* which a carry ran are left out.  The device adds lane by lane with __vadd4.
U8x4Add(a, b, device) ==
  IF device = "CUDA" THEN Four(LAMBDA i : (a[i] + b[i]) % 256)
  ELSE LET x == MulAdd(Masked(a, EvenBytes), 1, Masked(b, EvenBytes))
           y == MulAdd(Masked(a, Complement(EvenBytes)), 1, Masked(b, Complement(EvenBytes)))
       IN  BytePerm(x, y, <<0, 5, 2, 7>>)

\* u8x4 min on HIP: 9-bit differences whose sign selects the byte.
U8x4Min(a, b, device) ==
  IF device = "CUDA" THEN Four(LAMBDA i : Least(a[i], b[i]))
  ELSE LET d0 == MulAdd(Masked(a, EvenBytes), 1, MulAdd(Masked(Complement(b), EvenBytes), 1, Ones))
           d1 == MulAdd(Masked(ShiftRight8(a), EvenBytes), 1,
                        MulAdd(Masked(Complement(ShiftRight8(b)), EvenBytes), 1, Ones))
           s  == MulAdd(Masked(BytePerm(d0, d1, <<1, 5, 3, 7>>), Ones), 255, Zero)
       IN  Joined(Masked(a, s), Masked(b, Complement(s)))

-----------------------------------------------------------------------------
(* Floats.                                                                 *)

Float(x) == [neg |-> x < 0, mag |-> Abs(x)]
Signed(f) == IF f.neg THEN -f.mag ELSE f.mag

FloatAdd(a, b) ==
  LET s == Signed(a) + Signed(b)
  IN  IF s = 0 THEN [neg |-> a.neg /\ b.neg, mag |-> 0] ELSE Float(s)

FloatMin(a, b) ==
  IF Signed(a) < Signed(b) \/ (Signed(a) = Signed(b) /\ a.neg) THEN a ELSE b

\* __half2float
HalfToFloat(h) ==
  LET exponent == (h % 32768) \div 1024
      fraction == h % 1024
  IN  [neg |-> h >= 32768,
       mag |-> IF exponent = 0 THEN fraction \div 128
               ELSE IF exponent >= 8 THEN (1024 + fraction) * 2^(exponent - 8)
               ELSE (1024 + fraction) \div 2^(8 - exponent)]

\* __float2half_rn and cvt_pkrtz: 11 significant bits, rounded to nearest even
\* or towards zero.  No reduction here leaves the range of float16.
FloatToHalf(f, rounding) ==
  LET e    == CHOOSE k \in 0..24 : 2^k <= f.mag /\ f.mag < 2^(k + 1)
      step == 2^(e - 10)
      sig  == IF e <= 10 THEN f.mag * 2^(10 - e) ELSE f.mag \div step
      rest == IF e <= 10 THEN 0 ELSE 2 * (f.mag % step) - step
      up   == IF rounding = "nearest" /\ e > 10 /\ (rest > 0 \/ (rest = 0 /\ sig % 2 = 1)) THEN 1 ELSE 0
      abs  == IF f.mag < 8 THEN f.mag * 128 ELSE (e - 2) * 1024 + sig - 1024 + up
  IN  IF f.neg THEN 32768 + abs ELSE abs

\* __fp8_e4m3b15::toFloat and fromFloat: the exponent moves by one bit.
ToFloat(bits) == HalfToFloat((bits \div 128) * 32768 + ((bits % 128) * 256) \div 2)

\* The bits below the byte are cut off.
FromFloatTruncated(f) ==
  LET h == FloatToHalf(f, "nearest")
  IN  ((h \div 32768) * 32768 + Least(h % 32768, 16128) * 2) \div 256

FromFloat(f) ==
  LET h == FloatToHalf(f, "nearest")
  IN  ((h \div 32768) * 32768 + Least(h % 32768, 16128) * 2 + 128) \div 256

\* f8_e4m3b15x4 -> f16x4: two words of two float16 each.
ToHalves(in) ==
  LET a0 == BytePerm(Zero, in, <<6, 4, 7, 5>>)
      a1 == BytePerm(a0, Zero, <<1, 0, 3, 2>>)
      Shifted(a) == Joined(Masked(ShiftRight1(a), <<128, 63, 128, 63>>), Masked(a, Signs))
      bytes == Shifted(a0) \o Shifted(a1)
  IN  Four(LAMBDA i : bytes[2 * i - 1] + 256 * bytes[2 * i])

\* f16x4 -> f8_e4m3b15x4: the magnitudes are clamped to 1.75, shifted and rounded.
FromHalves(h) ==
  LET word(i) == <<h[i] % 256, h[i] \div 256, h[i + 1] % 256, h[i + 1] \div 256>>
      Clamped(i) == LET m == Least(h[i] % 32768, 16128) IN <<m % 256, m \div 256>>
      Shifted(i) == Joined(MulAdd(Clamped(i) \o Clamped(i + 1), 2, <<128, 0, 128, 0>>), Masked(word(i), Signs))
  IN  BytePerm(Shifted(1), Shifted(3), <<1, 3, 5, 7>>)

\* f8_e4m3b15x4 -> f32x4 and back: through float16.  gfx942 truncates the way back.
ToFloats(in) == LET h == ToHalves(in) IN Four(LAMBDA i : HalfToFloat(h[i]))

FromFloats(f, device) ==
  FromHalves(Four(LAMBDA i : FloatToHalf(f[i], IF device = "gfx942" THEN "zero" ELSE "nearest")))

\* fp8_e4m3b15 operator+ and min, element by element through float32.
E4m3b15Add(a, b) == Four(LAMBDA i : FromFloat(FloatAdd(ToFloat(a[i]), ToFloat(b[i]))))
E4m3b15Min(a, b) == Four(LAMBDA i : FromFloat(FloatMin(ToFloat(a[i]), ToFloat(b[i]))))

-----------------------------------------------------------------------------
(* The accumulation.                                                       *)

\* calElements, on a packed word of the type and on one element of an accumulator.
CalWord(q, a, b) ==
  CASE q.type = "u8" /\ q.op = "SUM" -> U8x4Add(a, b, q.device)
    [] q.type = "u8" /\ q.op = "MIN" -> U8x4Min(a, b, q.device)
    [] q.type = "e4m3b15" /\ q.op = "SUM" -> E4m3b15Add(a, b)
    [] q.type = "e4m3b15" /\ q.op = "MIN" -> E4m3b15Min(a, b)

\* Every sum of a float32 accumulator is rounded to float16.
CalElementInHalf(q, a, b) ==
  LET Cal(x, y) == IF q.op = "SUM" THEN FloatAdd(x, y) ELSE FloatMin(x, y)
  IN  IF q.accum = "f32" THEN HalfToFloat(FloatToHalf(Cal(a, b), "nearest"))
      ELSE FloatToHalf(Cal(HalfToFloat(a), HalfToFloat(b)), "nearest")

CalElement(q, a, b) ==
  LET Cal(x, y) == IF q.op = "SUM" THEN FloatAdd(x, y) ELSE FloatMin(x, y)
  IN  IF q.accum = "f32" THEN Cal(a, b)
      ELSE FloatToHalf(Cal(HalfToFloat(a), HalfToFloat(b)), "nearest")

UpcastVector(q, val) ==
  CASE q.accum = q.type -> val
    [] q.accum = "f16" -> ToHalves(val)
    [] q.accum = "f32" -> ToFloats(val)

DowncastVector(q, acc) ==
  CASE q.accum = q.type -> acc
    [] q.accum = "f16" -> FromHalves(acc)
    [] q.accum = "f32" -> FromFloats(acc, q.device)

CalVectorAccum(q, acc, val) ==
  IF q.accum = q.type THEN CalWord(q, acc, val)
  ELSE LET fv == UpcastVector(q, val) IN Four(LAMBDA i : CalElement(q, acc[i], fv[i]))

\* The 32-bit words the kernel reduces, for count elements of one byte.
WordCount(q) == (q.count + 1) \div 4

ReduceInit ==
  /\ scenario \in DOMAIN Scenarios
  /\ reduction \in Scenarios[scenario]
  /\ resultBuff = [r \in DOMAIN reduction.data |-> [w \in DOMAIN reduction.data[r] |-> <<>>]]

\* Rank r runs the kernel; the packets of its peers hold their words.
AllreduceAllPairs(r) ==
  LET q == reduction
      remoteRanks == SetToSortSeq(DOMAIN q.data \ {r}, <)
      Sum(w) == FoldLeft(LAMBDA acc, p : CalVectorAccum(q, acc, q.data[p][w]),
                         UpcastVector(q, q.data[r][w]), remoteRanks)
  IN  /\ resultBuff[r][1] = <<>>
      /\ resultBuff' = [resultBuff EXCEPT ![r] =
           [w \in DOMAIN @ |-> IF w <= WordCount(q) THEN DowncastVector(q, Sum(w)) ELSE @[w]]]
      /\ UNCHANGED <<scenario, reduction>>

ReduceNext == \E r \in DOMAIN resultBuff : AllreduceAllPairs(r)

ReduceSpec == ReduceInit /\ [][ReduceNext]_rvars

-----------------------------------------------------------------------------
(* Properties.                                                             *)

Done(r) == resultBuff[r][1] /= <<>>
Element(words, i) == words[((i - 1) \div 4) + 1][((i - 1) % 4) + 1]
Inputs(i) == [r \in DOMAIN reduction.data |-> Element(reduction.data[r], i)]
Elements == 1..reduction.count

\* The value the documentation of the format gives to a byte: sign, four bits of
\* exponent with bias 15, three of mantissa; in units of 2^-17.
FormatValue(b) ==
  LET exponent == (b % 128) \div 8
      mag == IF exponent = 0 THEN b % 8 ELSE (8 + (b % 8)) * 2^(exponent - 1)
  IN  IF b >= 128 THEN -mag ELSE mag

\* The encodable values nearest to x: encoding saturates at 0x7e and 0xfe.
Nearest(b, x) ==
  LET error(c) == Abs(FormatValue(c) - x)
      m == b % 128
  IN  /\ m < 127
      /\ m > 0 => error(b) <= error(b - 1)
      /\ m < 126 => error(b) <= error(b + 1)
      /\ (FormatValue(b) < 0 => x < 0) /\ (x < 0 => b >= 128)

Total(f) == FoldFunction(+, 0, f)
Minimum(f) == CHOOSE x \in Range(f) : \A y \in Range(f) : x <= y

\* Every element of the message is reduced, and by itself: the bytes packed beside
\* it in a register never reach it, whatever carries an addition or a difference of
\* 9 bits makes.  A sum of bytes wraps, a minimum is the least byte.
\* (u8x4 operator+ and min, and the word count of allreduceAllPairs.)
BytesReducedApart ==
  reduction.type = "u8" =>
    \A r \in DOMAIN resultBuff : Done(r) =>
      \A i \in Elements :
        /\ resultBuff[r][(i - 1) \div 4 + 1] /= <<>>
        /\ Element(resultBuff[r], i) =
             IF reduction.op = "SUM" THEN (Total(Inputs(i)) % 256) ELSE Minimum(Inputs(i))

\* An fp8_e4m3b15 sum over two ranks is an encodable value nearest to the exact sum,
\* saturating, for every accumulation type: neither the detour through float16, which
\* rounds twice, nor the exponent shift loses more.  A minimum over any ranks is the
\* least input.  (fromFloat, to<f8_e4m3b15x4>, and the comment "Encode saturates".)
SumIsNearest ==
  reduction.type = "e4m3b15" =>
    \A r \in DOMAIN resultBuff : Done(r) =>
      \A i \in Elements :
        LET b == Element(resultBuff[r], i)
            values == [p \in DOMAIN resultBuff |-> FormatValue(Inputs(i)[p])]
        IN  IF reduction.op = "MIN" THEN Nearest(b, Minimum(values))
            ELSE Cardinality(DOMAIN resultBuff) = 2 => Nearest(b, Total(values))

\* The ranks that have run the kernel hold the same result, although each of them adds
\* its own word first and so in an order of its own.
\* (The order of allreduceAllPairs, line 57-63, with calVectorAccum.)
CopiesIdentical ==
  \A r, s \in DOMAIN resultBuff : Done(r) /\ Done(s) => resultBuff[r] = resultBuff[s]
=============================================================================
