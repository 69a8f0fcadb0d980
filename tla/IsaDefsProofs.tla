--------------------------- MODULE IsaDefsProofs ---------------------------
(***************************************************************************)
(* Facts about the operators of IsaDefs and IsaAsm: the width of every     *)
(* field and of every result, for every word, byte and memory size.        *)
(***************************************************************************)
EXTENDS IsaAsm, TLAPS

(* The remainder of a division by a positive number is below it.           *)
LEMMA ModRange ==
  ASSUME NEW n \in Nat \ {0}, NEW x \in Int
  PROVE  x % n \in 0..(n - 1)
  OBVIOUS

(* The bounds of a byte.                                                   *)
LEMMA ByteBounds ==
  \A b : b \in Byte <=> b \in Int /\ 0 <= b /\ b <= 255
<1> DEFINE limit == 255
<1>1. Byte = 0..limit
  BY DEF Byte
<1>2. limit \in Int
  OBVIOUS
<1> HIDE DEF limit
<1>3. \A b : b \in Byte <=> b \in Int /\ 0 <= b /\ b <= limit
  BY <1>1, <1>2
<1> QED
  BY <1>3 DEF limit

(* The words are the 16-bit numbers.                                       *)
LEMMA WordRange ==
  ASSUME NEW w \in Word
  PROVE  w \in Int /\ 0 <= w /\ w <= 65535
<1> DEFINE limit == 65535
<1>1. Word = 0..limit
  BY DEF Word
<1>2. limit \in Int
  OBVIOUS
<1> HIDE DEF limit
<1>3. w \in Int /\ 0 <= w /\ w <= limit
  BY <1>1, <1>2
<1> QED
  BY <1>3 DEF limit

(* Every 16-bit number is a word.                                          *)
LEMMA WordBounds ==
  ASSUME NEW w \in Int, 0 <= w, w <= 65535
  PROVE  w \in Word
<1> DEFINE limit == 65535
<1>1. Word = 0..limit
  BY DEF Word
<1>2. limit \in Int /\ w <= limit
  OBVIOUS
<1> HIDE DEF limit
<1> QED
  BY <1>1, <1>2

(* Two bytes make a word.                                                  *)
LEMMA WordOfBytes ==
  ASSUME NEW hi \in Byte, NEW lo \in Byte
  PROVE  256 * hi + lo \in Word
<1>1. hi \in Int /\ 0 <= hi /\ hi <= 255 /\ lo \in Int /\ 0 <= lo /\ lo <= 255
  BY ByteBounds
<1>2. /\ 256 * hi + lo \in Int
      /\ 0 <= 256 * hi + lo /\ 256 * hi + lo <= 65535
  BY <1>1, SMT
<1> QED
  BY <1>2, WordBounds

(* Each field of a word has the width that isa_defs.v gives it.            *)
LEMMA FieldTypes ==
  ASSUME NEW w \in Word
  PROVE  /\ Opcode(w) \in 0..31 /\ WAddr(w) \in WordAddr
         /\ WRd(w) \in RegIndex /\ WRs(w) \in RegIndex
         /\ WLoopRd(w) \in RegIndex
         /\ WImm(w) \in 0..511 /\ WWaitMant(w) \in 0..31
         /\ WLdiValue(w) \in Byte /\ WPinIndex(w) \in PinIndex
         /\ WAuxBit(w) \in Bit /\ WShiftDir(w) \in Bit
<1>0. w \in Int /\ 0 <= w /\ w <= 65535
  BY WordRange
<1>1. WAddr(w) \in WordAddr
  <2> DEFINE x == (w \div 4) % 512
  <2>1. x \in Int
    BY <1>0
  <2>2. Words \in Nat \ {0}
    BY WordsAssumption
  <2>3. WAddr(w) = x % Words
    BY DEF WAddr
  <2> HIDE DEF x
  <2>4. x % Words \in 0..(Words - 1)
    BY <2>1, <2>2, ModRange
  <2> QED BY <2>3, <2>4 DEF WordAddr
<1>2. Opcode(w) \in 0..31
  BY <1>0, Z3 DEF Opcode
<1>3. WImm(w) \in 0..511
  BY <1>0 DEF WImm
<1>4. WWaitMant(w) \in 0..31
  BY <1>0 DEF WWaitMant
<1>5. WRd(w) \in RegIndex
  BY <1>0 DEF WRd, RegIndex
<1>6. WRs(w) \in RegIndex
  BY <1>0 DEF WRs, RegIndex
<1>7. WLoopRd(w) \in RegIndex
  BY <1>0 DEF WLoopRd, RegIndex
<1>8. WLdiValue(w) \in Byte
  BY <1>0 DEF WLdiValue, Byte
<1>9. WPinIndex(w) \in PinIndex
  BY <1>0 DEF WPinIndex, PinIndex
<1>10. WAuxBit(w) \in Bit /\ WShiftDir(w) \in Bit
  BY <1>0 DEF WAuxBit, WShiftDir, Bit
<1> QED
  BY <1>1, <1>2, <1>3, <1>4, <1>5, <1>6, <1>7, <1>8, <1>9, <1>10

(* XOR stays within a byte.                                                *)
LEMMA XorByteType ==
  ASSUME NEW a \in Byte, NEW b \in Byte
  PROVE  XorByte(a, b) \in Byte
<1> DEFINE X(weight) == XorWeight(a, b, weight)
<1>1. \A weight : X(weight) \in {0, weight}
  BY Zenon DEF XorWeight
<1> HIDE DEF X
<1>2. X(128) + X(64) + X(32) + X(16) \in 0..240
  <2>1. /\ X(128) \in 0..128 /\ X(64) \in 0..64
        /\ X(32) \in 0..32 /\ X(16) \in 0..16
    BY <1>1
  <2> DEFINE p == X(128)
             q == X(64)
             r == X(32)
             s == X(16)
  <2>2. p \in 0..128 /\ q \in 0..64 /\ r \in 0..32 /\ s \in 0..16
    BY <2>1
  <2> HIDE DEF p, q, r, s
  <2>3. p + q + r + s \in 0..240
    BY <2>2, Z3
  <2> QED
    BY <2>3 DEF p, q, r, s
<1>3. X(8) + X(4) + X(2) + X(1) \in 0..15
  <2>1. /\ X(8) \in 0..8 /\ X(4) \in 0..4
        /\ X(2) \in 0..2 /\ X(1) \in 0..1
    BY <1>1
  <2> DEFINE p == X(8)
             q == X(4)
             r == X(2)
             s == X(1)
  <2>2. p \in 0..8 /\ q \in 0..4 /\ r \in 0..2 /\ s \in 0..1
    BY <2>1
  <2> HIDE DEF p, q, r, s
  <2>3. p + q + r + s \in 0..15
    BY <2>2, Z3
  <2> QED
    BY <2>3 DEF p, q, r, s
<1>4. X(128) \in Int /\ X(64) \in Int /\ X(32) \in Int /\ X(16) \in Int
  BY <1>1
<1>5. X(8) \in Int /\ X(4) \in Int /\ X(2) \in Int /\ X(1) \in Int
  BY <1>1
<1>6. X(128) + X(64) + X(32) + X(16) + X(8) + X(4) + X(2) + X(1) \in 0..255
  BY <1>2, <1>3, <1>4, <1>5, Z3
<1> QED
  BY <1>6 DEF X, XorByte, Byte

(* A shift stays within a byte.                                            *)
LEMMA ShiftByteType ==
  ASSUME NEW b \in Byte, NEW dir \in Bit
  PROVE  ShiftByte(b, dir) \in Byte
  BY DEF ShiftByte, Byte, Bit

(* INB stays within a byte.                                                *)
LEMMA InsertBitType ==
  ASSUME NEW b \in Byte, NEW aux \in Bit, NEW level \in Bit
  PROVE  InsertBit(b, aux, level) \in Byte
  BY DEF InsertBit, Byte, Bit

(* A request to the counter fits its 24 bits.                              *)
LEMMA ShiftedType ==
  ASSUME NEW m \in 0..511, NEW e \in RegIndex
  PROVE  /\ Shifted(m, e) \in Nat
         /\ Shifted(m, e) <= 16777215
<1>1. /\ TimeoutScale[1] = 1 /\ TimeoutScale[2] = 32
      /\ TimeoutScale[3] = 1024 /\ TimeoutScale[4] = 32768
  BY SMT DEF TimeoutScale
<1>2. e + 1 = 1 \/ e + 1 = 2 \/ e + 1 = 3 \/ e + 1 = 4
  BY SMT DEF RegIndex
<1>3. /\ m * 1 \in Nat /\ m * 1 <= 16777215
      /\ m * 32 \in Nat /\ m * 32 <= 16777215
      /\ m * 1024 \in Nat /\ m * 1024 <= 16777215
      /\ m * 32768 \in Nat /\ m * 32768 <= 16777215
  BY SMT
<1> QED
  BY <1>1, <1>2, <1>3, SMT DEF Shifted

(* A word is its two bytes.                                                *)
LEMMA BytesOfWord ==
  ASSUME NEW w \in Word
  PROVE  256 * ((w \div 256) % 256) + (w % 256) = w
<1>1. w \in Int /\ 0 <= w /\ w <= 65535
  BY WordRange
<1>2. 256 * (w \div 256) + (w % 256) = w /\ w \div 256 \in 0..255
  BY <1>1
<1>3. (w \div 256) % 256 = w \div 256
  BY <1>2
<1> QED BY <1>2, <1>3

(* The image of a program is twice as long, in bytes.                      *)
LEMMA CodeBytes ==
  ASSUME NEW ws \in Seq(Word)
  PROVE  Len(to_bytes(ws)) = 2 * Len(ws) /\ to_bytes(ws) \in Seq(Byte)
<1>1. to_bytes(ws) \in [1..(2 * Len(ws)) -> Byte]
  <2>1. ASSUME NEW i \in 1..(2 * Len(ws)) PROVE to_bytes(ws)[i] \in Byte
    <3>1. Len(ws) \in Nat /\ i \in Nat /\ 1 <= i /\ i <= 2 * Len(ws)
      OBVIOUS
    <3>2. (i + 1) \div 2 \in 1..Len(ws)
      BY <3>1
    <3>3. \A j \in 1..Len(ws) : ws[j] \in Word
      OBVIOUS
    <3>4. \A w \in Word : w \in Int
      BY WordRange
    <3>5. ws[(i + 1) \div 2] \in Int
      BY <3>2, <3>3, <3>4
    <3>6. \A x \in Int : x % 256 \in Byte
      BY DEF Byte
    <3>7. /\ ws[(i + 1) \div 2] % 256 \in Byte
          /\ (ws[(i + 1) \div 2] \div 256) % 256 \in Byte
      BY <3>5, <3>6
    <3> QED BY <3>7 DEF to_bytes
  <2> QED BY <2>1 DEF to_bytes
<1>2. 2 * Len(ws) \in Nat
  OBVIOUS
<1>3. \A m \in Nat : \A f \in [1..m -> Byte] : Len(f) = m /\ f \in Seq(Byte)
  OBVIOUS
<1> QED BY <1>1, <1>2, <1>3

(* Every word of a program is in its boot image, the low byte first.       *)
LEMMA ImageWord ==
  ASSUME NEW ws \in Seq(Word), NEW n \in 0..(Len(ws) - 1)
  PROVE  /\ Len(to_bytes(ws)) = 2 * Len(ws) /\ to_bytes(ws) \in Seq(Byte)
         /\ 256 * to_bytes(ws)[2 * n + 2] + to_bytes(ws)[2 * n + 1] = ws[n + 1]
<1>1. /\ 2 * n + 1 \in 1..(2 * Len(ws)) /\ 2 * n + 2 \in 1..(2 * Len(ws))
      /\ (2 * n + 1 + 1) \div 2 = n + 1 /\ (2 * n + 2 + 1) \div 2 = n + 1
      /\ (2 * n + 1) % 2 = 1 /\ (2 * n + 2) % 2 = 0
  OBVIOUS
<1>2. /\ to_bytes(ws)[2 * n + 1] = ws[n + 1] % 256
      /\ to_bytes(ws)[2 * n + 2] = (ws[n + 1] \div 256) % 256
  BY <1>1 DEF to_bytes
<1>3. ws[n + 1] \in Word
  OBVIOUS
<1>4. Len(to_bytes(ws)) = 2 * Len(ws) /\ to_bytes(ws) \in Seq(Byte)
  BY CodeBytes
<1> QED BY <1>2, <1>3, <1>4, BytesOfWord
=============================================================================
