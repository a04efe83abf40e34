--------------------------- MODULE EncodingProofs ---------------------------
(***************************************************************************)
(* Proofs about Encoding, for every message, chunk size, width of the      *)
(* index, id and recipient hash.                                           *)
(*                                                                         *)
(* The labels of a chunk decode to the chunk (LabelsDecode).  A digit that *)
(* was altered on the way gives a payload with another checksum, if it     *)
(* gives another payload (AlteredIsDetected): a digit is part of two       *)
(* adjoining bytes at most, and the checksum detects any change of two     *)
(* adjoining bytes (ChecksumDetects).  So what ReassembleMessage accepts   *)
(* is the message (AcceptedIsTheMessage), and it accepts what ChunkMessage *)
(* makes (ChunksReassemble).                                               *)
(*                                                                         *)
(* What crc16 and Join compute is proved by induction over the data, with  *)
(* sets in place of predicates.                                            *)
(***************************************************************************)
EXTENDS Encoding, WellFoundedInduction, SequenceTheorems, TLAPS

-----------------------------------------------------------------------------
(***************************************************************************)
(* Induction over natural numbers, from the library's theorem that they    *)
(* are well-founded.                                                       *)
(***************************************************************************)
\* A set of natural numbers that is not empty has a least element.
LEMMA LeastNumber ==
    ASSUME NEW T, T \subseteq Nat, T # {}
    PROVE  \E n \in T : \A k \in T : n <= k
  <1>1. \E n \in T : \A k \in T : ~(<<k, n>> \in OpToRel(<, Nat))
    BY NatLessThanWellFounded, WFMin, Zenon
  <1>2. \A k, n \in Nat : <<k, n>> \in OpToRel(<, Nat) <=> k < n
    BY Zenon DEF OpToRel
  <1>3. PICK n \in T : \A k \in T : ~(k < n)
    BY <1>1, <1>2, Zenon
  <1> QED  BY <1>3

\* Induction, for sets: a set with 0 and with the successors of its numbers has
\* all of them.
LEMMA Induction ==
    ASSUME NEW S, 0 \in S, \A n \in Nat : n \in S => n + 1 \in S
    PROVE  Nat \subseteq S
  <1> SUFFICES ASSUME Nat \ S # {}  PROVE FALSE
    BY Zenon
  <1>1. PICK n \in Nat \ S : \A k \in Nat \ S : n <= k
    BY LeastNumber, Zenon
  <1>2. n # 0
    BY Zenon
  <1>3. n - 1 \in Nat /\ ~(n <= n - 1) /\ (n - 1) + 1 = n
    BY <1>2
  <1> QED  BY <1>1, <1>3, Zenon

-----------------------------------------------------------------------------
(***************************************************************************)
(* The checksum.  Every step of crc16 is injective, and sixteen bits of    *)
(* data reach every bit of the register: so nothing that differs in two    *)
(* adjoining bytes only can have the same checksum.                        *)
(***************************************************************************)
\* BitOf gives bits.
LEMMA BitOfBit ==
    ASSUME NEW b \in Byte, NEW i \in 0 .. 7
    PROVE  BitOf(b, i) \in {0, 1}
  BY DEF Byte, BitOf

\* A byte is the sum of its bits.
LEMMA BitsOfByte ==
    ASSUME NEW n \in Byte
    PROVE  n = 128 * BitOf(n, 0) + 64 * BitOf(n, 1) + 32 * BitOf(n, 2) + 16 * BitOf(n, 3)
               + 8 * BitOf(n, 4) + 4 * BitOf(n, 5) + 2 * BitOf(n, 6) + BitOf(n, 7)
  <1>1. /\ BitOf(n, 0) = (n \div 128) % 2 /\ BitOf(n, 1) = (n \div 64) % 2
        /\ BitOf(n, 2) = (n \div 32) % 2 /\ BitOf(n, 3) = (n \div 16) % 2
        /\ BitOf(n, 4) = (n \div 8) % 2 /\ BitOf(n, 5) = (n \div 4) % 2
        /\ BitOf(n, 6) = (n \div 2) % 2 /\ BitOf(n, 7) = (n % 2)
    BY DEF BitOf, Byte
  <1>2. n = 128 * ((n \div 128) % 2) + 64 * ((n \div 64) % 2) + 32 * ((n \div 32) % 2)
            + 16 * ((n \div 16) % 2) + 8 * ((n \div 8) % 2) + 4 * ((n \div 4) % 2)
            + 2 * ((n \div 2) % 2) + (n % 2)
    BY SMTT(30) DEF Byte
  <1> QED  BY <1>1, <1>2

\* Bytes with the same bits are the same.
LEMMA ByteOfBits ==
    ASSUME NEW a \in Byte, NEW b \in Byte,
           \A i \in 0 .. 7 : BitOf(a, i) = BitOf(b, i)
    PROVE  a = b
  <1>1. /\ BitOf(a, 0) = BitOf(b, 0) /\ BitOf(a, 1) = BitOf(b, 1)
        /\ BitOf(a, 2) = BitOf(b, 2) /\ BitOf(a, 3) = BitOf(b, 3)
        /\ BitOf(a, 4) = BitOf(b, 4) /\ BitOf(a, 5) = BitOf(b, 5)
        /\ BitOf(a, 6) = BitOf(b, 6) /\ BitOf(a, 7) = BitOf(b, 7)
    OBVIOUS
  <1> QED  BY <1>1, BitsOfByte, ZenonT(60)

\* One shift of crc16 keeps the register a register.
LEMMA ShiftIn ==
    ASSUME NEW r \in Register
    PROVE  crcBit[r] \in Register
  BY DEF crcBit, Register, Xor

\* Where a shift takes each bit of the register from.
LEMMA Shifted ==
    ASSUME NEW r \in Register
    PROVE  /\ crcBit[r][16] = r[1]
           /\ \A k \in 1 .. 15 :
                 crcBit[r][k] = IF k \in {4, 11} THEN Xor(r[k + 1], r[1]) ELSE r[k + 1]
  BY DEF crcBit

\* Adding a byte keeps the register a register.
LEMMA AddIn ==
    ASSUME NEW r \in Register, NEW b \in Byte
    PROVE  crcAdd(r, b) \in Register
  BY DEF crcAdd, Register, Xor

\* What each bit of the register is after a byte was added.
LEMMA Added ==
    ASSUME NEW r \in Register, NEW b \in Byte
    PROVE  \A k \in 1 .. 16 :
              crcAdd(r, b)[k] = IF k <= 8 THEN Xor(r[k], BitOf(b, k - 1)) ELSE r[k]
  BY DEF crcAdd

\* So does a whole byte: added, and shifted eight times.
LEMMA ByteIn ==
    ASSUME NEW r \in Register, NEW b \in Byte
    PROVE  crcByte(r, b) \in Register
  BY AddIn, ShiftIn, Zenon DEF crcByte

\* Registers with the same bits are the same.
LEMMA RegisterEq ==
    ASSUME NEW r \in Register, NEW q \in Register, \A k \in 1 .. 16 : r[k] = q[k]
    PROVE  r = q
  BY DEF Register

\* Registers that agree on their first n bits and from the k-th on after a shift
\* agreed on one more of the first, and on one fewer of the last, before it.
LEMMA ShiftBack ==
    ASSUME NEW r \in Register, NEW q \in Register, NEW k \in 1 .. 16, NEW n \in 0 .. 15,
           \A i \in k .. 16 : crcBit[r][i] = crcBit[q][i],
           \A i \in 1 .. n : crcBit[r][i] = crcBit[q][i]
    PROVE  /\ \A i \in k + 1 .. 16 : r[i] = q[i]
           /\ \A i \in 1 .. n + 1 : r[i] = q[i]
  <1>1. r[1] = q[1]
    BY Shifted
  <1>2. ASSUME NEW i \in 2 .. 16, crcBit[r][i - 1] = crcBit[q][i - 1]
        PROVE  r[i] = q[i]
    <2>1. /\ crcBit[r][i - 1] = IF i - 1 \in {4, 11} THEN Xor(r[i], r[1]) ELSE r[i]
          /\ crcBit[q][i - 1] = IF i - 1 \in {4, 11} THEN Xor(q[i], q[1]) ELSE q[i]
      BY Shifted
    <2>2. r[i] \in {0, 1} /\ q[i] \in {0, 1} /\ r[1] \in {0, 1}
      BY DEF Register
    <2> QED  BY <1>1, <1>2, <2>1, <2>2, Zenon DEF Xor
  <1> QED  BY <1>1, <1>2

\* A shift loses nothing.
LEMMA ShiftInjective ==
    ASSUME NEW r \in Register, NEW q \in Register, crcBit[r] = crcBit[q]
    PROVE  r = q
  <1>1. (\A i \in 1 + 1 .. 16 : r[i] = q[i]) /\ (\A i \in 1 .. 0 + 1 : r[i] = q[i])
    <2>1. 1 \in 1 .. 16 /\ 0 \in 0 .. 15 /\ \A i \in 1 .. 0 : crcBit[r][i] = crcBit[q][i]
      OBVIOUS
    <2> QED  BY <2>1, ShiftBack, Zenon
  <1>2. \A i \in 1 .. 16 : r[i] = q[i]
    BY <1>1
  <1> QED  BY <1>2, RegisterEq, Zenon

\* Adding a byte leaves the lower half alone, and loses neither register nor
\* byte.
LEMMA AddInjective ==
    ASSUME NEW r \in Register, NEW q \in Register, NEW a \in Byte, NEW b \in Byte,
           crcAdd(r, a) = crcAdd(q, b)
    PROVE  /\ \A i \in 9 .. 16 : r[i] = q[i]
           /\ a = b => r = q
           /\ r = q => a = b
  <1>1. \A i \in 9 .. 16 : r[i] = q[i]
    BY Added
  <1>2. \A i \in 1 .. 8 : Xor(r[i], BitOf(a, i - 1)) = Xor(q[i], BitOf(b, i - 1))
    BY Added
  <1>3. \A i \in 1 .. 8 : r[i] \in {0, 1} /\ q[i] \in {0, 1}
    BY DEF Register
  <1>4. \A i \in 1 .. 8 : BitOf(a, i - 1) \in {0, 1} /\ BitOf(b, i - 1) \in {0, 1}
    BY BitOfBit
  <1>5. ASSUME a = b  PROVE r = q
    <2>1. \A i \in 1 .. 8 : r[i] = q[i]
      BY <1>2, <1>3, <1>4, <1>5, Zenon DEF Xor
    <2>2. \A i \in 1 .. 16 : r[i] = q[i]
      BY <2>1, <1>1
    <2> QED  BY <2>2, RegisterEq, Zenon
  <1>6. ASSUME r = q  PROVE a = b
    <2>1. \A i \in 1 .. 8 : BitOf(a, i - 1) = BitOf(b, i - 1)
      BY <1>2, <1>3, <1>4, <1>6 DEF Xor
    <2>2. \A i \in 0 .. 7 : BitOf(a, i) = BitOf(b, i)
      <3> TAKE i \in 0 .. 7
      <3>1. i + 1 \in 1 .. 8 /\ (i + 1) - 1 = i
        OBVIOUS
      <3> QED  BY <3>1, <2>1
    <2> QED  BY <2>2, ByteOfBits, Zenon
  <1> QED  BY <1>1, <1>5, <1>6

\* Nor do eight shifts.
LEMMA EightShifts ==
    ASSUME NEW r \in Register, NEW q \in Register,
           crcBit[crcBit[crcBit[crcBit[crcBit[crcBit[crcBit[crcBit[r]]]]]]]]
           = crcBit[crcBit[crcBit[crcBit[crcBit[crcBit[crcBit[crcBit[q]]]]]]]]
    PROVE  r = q
  <1>1. ASSUME NEW u \in Register, NEW v \in Register, crcBit[crcBit[u]] = crcBit[crcBit[v]]
        PROVE  u = v
    BY <1>1, ShiftIn, ShiftInjective, Zenon
  <1>2. ASSUME NEW u \in Register, NEW v \in Register,
               crcBit[crcBit[crcBit[crcBit[u]]]] = crcBit[crcBit[crcBit[crcBit[v]]]]
        PROVE  u = v
    <2>1. crcBit[crcBit[u]] \in Register /\ crcBit[crcBit[v]] \in Register
      BY ShiftIn, Zenon
    <2> QED  BY <2>1, <1>2, <1>1, Zenon
  <1>3. /\ crcBit[crcBit[crcBit[crcBit[r]]]] \in Register
        /\ crcBit[crcBit[crcBit[crcBit[q]]]] \in Register
    BY ShiftIn, Zenon
  <1> QED  BY <1>2, <1>3, Zenon

\* From different registers, the same byte leads to different registers.
LEMMA ByteInjective ==
    ASSUME NEW r \in Register, NEW q \in Register, NEW b \in Byte, crcByte(r, b) = crcByte(q, b)
    PROVE  r = q
  <1>1. crcAdd(r, b) \in Register /\ crcAdd(q, b) \in Register
    BY AddIn, Zenon
  <1>2. crcAdd(r, b) = crcAdd(q, b)
    BY <1>1, EightShifts, Zenon DEF crcByte
  <1> QED  BY <1>2, AddInjective, ZenonT(30)

\* From one register, different pairs of bytes lead to different registers:
\* sixteen bits of data fill the register, and no shift loses anything.
LEMMA TwoBytes ==
    ASSUME NEW r \in Register, NEW a \in Byte, NEW b \in Byte, NEW c \in Byte, NEW d \in Byte,
           crcByte(crcByte(r, a), b) = crcByte(crcByte(r, c), d)
    PROVE  a = c /\ b = d
  <1> DEFINE u0 == crcAdd(r, a)  u1 == crcBit[u0]  u2 == crcBit[u1]  u3 == crcBit[u2]  u4 == crcBit[u3]
             u5 == crcBit[u4]  u6 == crcBit[u5]  u7 == crcBit[u6]  u8 == crcBit[u7]
             v0 == crcAdd(r, c)  v1 == crcBit[v0]  v2 == crcBit[v1]  v3 == crcBit[v2]  v4 == crcBit[v3]
             v5 == crcBit[v4]  v6 == crcBit[v5]  v7 == crcBit[v6]  v8 == crcBit[v7]
             Agree(u, v, k, n) == (\A i \in k .. 16 : u[i] = v[i]) /\ (\A i \in 1 .. n : u[i] = v[i])
  <1>1. u0 \in Register /\ v0 \in Register
    BY AddIn, Zenon
  <1>2. /\ u1 \in Register /\ u2 \in Register /\ u3 \in Register /\ u4 \in Register
        /\ u5 \in Register /\ u6 \in Register /\ u7 \in Register /\ u8 \in Register
        /\ v1 \in Register /\ v2 \in Register /\ v3 \in Register /\ v4 \in Register
        /\ v5 \in Register /\ v6 \in Register /\ v7 \in Register /\ v8 \in Register
    BY <1>1, ShiftIn, Zenon
  <1>3. u8 = crcByte(r, a) /\ v8 = crcByte(r, c)
    BY Zenon DEF crcByte
  <1>4. crcAdd(u8, b) = crcAdd(v8, d)
    <2>1. crcAdd(u8, b) \in Register /\ crcAdd(v8, d) \in Register
      BY <1>2, AddIn, Zenon
    <2>2. crcByte(u8, b) = crcByte(v8, d)
      BY <1>3, Zenon
    <2> HIDE DEF u8, v8
    <2> QED  BY <2>1, <2>2, EightShifts, Zenon DEF crcByte
  <1> HIDE DEF u0, u1, u2, u3, u4, u5, u6, u7, u8, v0, v1, v2, v3, v4, v5, v6, v7, v8
  <1>5. ASSUME NEW u \in Register, NEW v \in Register, NEW k \in 1 .. 16, NEW n \in 0 .. 15,
               Agree(crcBit[u], crcBit[v], k, n)
        PROVE  Agree(u, v, k + 1, n + 1)
    BY <1>5, ShiftBack, ZenonT(30)
  <1> HIDE DEF Agree
  <1>6. Agree(u8, v8, 9, 0)
    <2>1. \A i \in 9 .. 16 : u8[i] = v8[i]
      BY <1>2, <1>4, AddInjective
    <2> QED  BY <2>1 DEF Agree
  <1>s. /\ 9 + 1 = 10 /\ 10 + 1 = 11 /\ 11 + 1 = 12 /\ 12 + 1 = 13
        /\ 13 + 1 = 14 /\ 14 + 1 = 15 /\ 15 + 1 = 16 /\ 16 + 1 = 17
        /\ 0 + 1 = 1 /\ 1 + 1 = 2 /\ 2 + 1 = 3 /\ 3 + 1 = 4
        /\ 4 + 1 = 5 /\ 5 + 1 = 6 /\ 6 + 1 = 7 /\ 7 + 1 = 8
        /\ {9, 10, 11, 12, 13, 14, 15, 16} \subseteq 1 .. 16
        /\ {0, 1, 2, 3, 4, 5, 6, 7} \subseteq 0 .. 15
    BY SMT
  <1>7. Agree(u7, v7, 10, 1)
    <2>1. u7 \in Register /\ v7 \in Register
      BY <1>2, Zenon
    <2> QED  BY <1>6, <1>5, <2>1, <1>s, ZenonT(30) DEF u8, v8
  <1>8. Agree(u6, v6, 11, 2)
    <2>1. u6 \in Register /\ v6 \in Register
      BY <1>2, Zenon
    <2> QED  BY <1>7, <1>5, <2>1, <1>s, ZenonT(30) DEF u7, v7
  <1>9. Agree(u5, v5, 12, 3)
    <2>1. u5 \in Register /\ v5 \in Register
      BY <1>2, Zenon
    <2> QED  BY <1>8, <1>5, <2>1, <1>s, ZenonT(30) DEF u6, v6
  <1>10. Agree(u4, v4, 13, 4)
    <2>1. u4 \in Register /\ v4 \in Register
      BY <1>2, Zenon
    <2> QED  BY <1>9, <1>5, <2>1, <1>s, ZenonT(30) DEF u5, v5
  <1>11. Agree(u3, v3, 14, 5)
    <2>1. u3 \in Register /\ v3 \in Register
      BY <1>2, Zenon
    <2> QED  BY <1>10, <1>5, <2>1, <1>s, ZenonT(30) DEF u4, v4
  <1>12. Agree(u2, v2, 15, 6)
    <2>1. u2 \in Register /\ v2 \in Register
      BY <1>2, Zenon
    <2> QED  BY <1>11, <1>5, <2>1, <1>s, ZenonT(30) DEF u3, v3
  <1>13. Agree(u1, v1, 16, 7)
    <2>1. u1 \in Register /\ v1 \in Register
      BY <1>2, Zenon
    <2> QED  BY <1>12, <1>5, <2>1, <1>s, ZenonT(30) DEF u2, v2
  <1>14. Agree(u0, v0, 17, 8)
    BY <1>13, <1>5, <1>1, <1>s, ZenonT(30) DEF u1, v1
  <1>15. u0 = v0
    <2>1. \A i \in 9 .. 16 : u0[i] = v0[i]
      BY Added DEF u0, v0
    <2>2. \A i \in 1 .. 16 : u0[i] = v0[i]
      BY <1>14, <2>1 DEF Agree
    <2> QED  BY <1>1, <2>2, RegisterEq, Zenon
  <1>16. a = c
    BY <1>15, AddInjective, Zenon DEF u0, v0
  <1>17. u8 = v8
    BY <1>16, <1>3, Zenon
  <1>18. b = d
    BY <1>17, <1>2, <1>4, AddInjective, Zenon
  <1> QED  BY <1>16, <1>18

\* Eight bits make a byte.
LEMMA OctetIn ==
    ASSUME NEW r, NEW k \in Nat, \A i \in 1 .. 8 : r[k + i] \in 0 .. 1
    PROVE  Octet(r, k) \in Byte
  <1>1. \A i \in 1 .. 8 : r[k + i] \in 0 .. 1
    BY Zenon
  <1>2. /\ r[k + 1] \in 0 .. 1 /\ r[k + 2] \in 0 .. 1 /\ r[k + 3] \in 0 .. 1 /\ r[k + 4] \in 0 .. 1
        /\ r[k + 5] \in 0 .. 1 /\ r[k + 6] \in 0 .. 1 /\ r[k + 7] \in 0 .. 1 /\ r[k + 8] \in 0 .. 1
    BY <1>1
  <1>3. PICK a1 \in 0 .. 1, a2 \in 0 .. 1, a3 \in 0 .. 1, a4 \in 0 .. 1,
             a5 \in 0 .. 1, a6 \in 0 .. 1, a7 \in 0 .. 1, a8 \in 0 .. 1 :
          /\ a1 = r[k + 1] /\ a2 = r[k + 2] /\ a3 = r[k + 3] /\ a4 = r[k + 4]
          /\ a5 = r[k + 5] /\ a6 = r[k + 6] /\ a7 = r[k + 7] /\ a8 = r[k + 8]
    BY <1>2, Zenon
  <1>4. Octet(r, k) = 128 * a1 + 64 * a2 + 32 * a3 + 16 * a4 + 8 * a5 + 4 * a6 + 2 * a7 + a8
    BY <1>3 DEF Octet
  <1> QED  BY <1>4 DEF Byte

\* A half of the register is known by its number.
LEMMA OctetInjective ==
    ASSUME NEW r \in Register, NEW q \in Register, NEW k \in {0, 8}, Octet(r, k) = Octet(q, k)
    PROVE  \A i \in 1 .. 8 : r[k + i] = q[k + i]
  <1>1. \A i \in 1 .. 8 : r[k + i] \in 0 .. 1 /\ q[k + i] \in 0 .. 1
    BY DEF Register
  <1>2. /\ r[k + 1] \in 0 .. 1 /\ r[k + 2] \in 0 .. 1 /\ r[k + 3] \in 0 .. 1 /\ r[k + 4] \in 0 .. 1
        /\ r[k + 5] \in 0 .. 1 /\ r[k + 6] \in 0 .. 1 /\ r[k + 7] \in 0 .. 1 /\ r[k + 8] \in 0 .. 1
        /\ q[k + 1] \in 0 .. 1 /\ q[k + 2] \in 0 .. 1 /\ q[k + 3] \in 0 .. 1 /\ q[k + 4] \in 0 .. 1
        /\ q[k + 5] \in 0 .. 1 /\ q[k + 6] \in 0 .. 1 /\ q[k + 7] \in 0 .. 1 /\ q[k + 8] \in 0 .. 1
    BY <1>1
  <1>3. PICK a1 \in 0 .. 1, a2 \in 0 .. 1, a3 \in 0 .. 1, a4 \in 0 .. 1,
             a5 \in 0 .. 1, a6 \in 0 .. 1, a7 \in 0 .. 1, a8 \in 0 .. 1 :
          /\ a1 = r[k + 1] /\ a2 = r[k + 2] /\ a3 = r[k + 3] /\ a4 = r[k + 4]
          /\ a5 = r[k + 5] /\ a6 = r[k + 6] /\ a7 = r[k + 7] /\ a8 = r[k + 8]
    BY <1>2, Zenon
  <1>4. PICK b1 \in 0 .. 1, b2 \in 0 .. 1, b3 \in 0 .. 1, b4 \in 0 .. 1,
             b5 \in 0 .. 1, b6 \in 0 .. 1, b7 \in 0 .. 1, b8 \in 0 .. 1 :
          /\ b1 = q[k + 1] /\ b2 = q[k + 2] /\ b3 = q[k + 3] /\ b4 = q[k + 4]
          /\ b5 = q[k + 5] /\ b6 = q[k + 6] /\ b7 = q[k + 7] /\ b8 = q[k + 8]
    BY <1>2, Zenon
  <1>5. /\ Octet(r, k) = 128 * a1 + 64 * a2 + 32 * a3 + 16 * a4 + 8 * a5 + 4 * a6 + 2 * a7 + a8
        /\ Octet(q, k) = 128 * b1 + 64 * b2 + 32 * b3 + 16 * b4 + 8 * b5 + 4 * b6 + 2 * b7 + b8
    BY <1>3, <1>4 DEF Octet
  <1>6. 128 * a1 + 64 * a2 + 32 * a3 + 16 * a4 + 8 * a5 + 4 * a6 + 2 * a7 + a8
        = 128 * b1 + 64 * b2 + 32 * b3 + 16 * b4 + 8 * b5 + 4 * b6 + 2 * b7 + b8
    BY <1>5, Zenon
  <1>7. a1 = b1 /\ a2 = b2 /\ a3 = b3 /\ a4 = b4 /\ a5 = b5 /\ a6 = b6 /\ a7 = b7 /\ a8 = b8
    BY <1>6
  <1>8. /\ r[k + 1] = q[k + 1] /\ r[k + 2] = q[k + 2] /\ r[k + 3] = q[k + 3] /\ r[k + 4] = q[k + 4]
        /\ r[k + 5] = q[k + 5] /\ r[k + 6] = q[k + 6] /\ r[k + 7] = q[k + 7] /\ r[k + 8] = q[k + 8]
    BY <1>3, <1>4, <1>7, Zenon
  <1> QED  BY <1>8

\* Both halves of a register are bytes.
LEMMA RegisterOctets ==
    ASSUME NEW r \in Register
    PROVE  Octet(r, 0) \in Byte /\ Octet(r, 8) \in Byte
  <1>1. (\A i \in 1 .. 8 : r[0 + i] \in 0 .. 1) /\ (\A i \in 1 .. 8 : r[8 + i] \in 0 .. 1)
    BY DEF Register
  <1>2. 0 \in Nat /\ 8 \in Nat
    BY Zenon
  <1> QED  BY <1>1, <1>2, OctetIn, Zenon

\* The number of the inverted register has 16 bits.
LEMMA InvertedIn ==
    ASSUME NEW r \in Register
    PROVE  Inverted(r) \in 0 .. 2^16 - 1
  BY RegisterOctets DEF Inverted, Byte

\* It determines the register.
LEMMA InvertedInjective ==
    ASSUME NEW r \in Register, NEW q \in Register, Inverted(r) = Inverted(q)
    PROVE  r = q
  <1>1. Octet(r, 0) \in Byte /\ Octet(r, 8) \in Byte /\ Octet(q, 0) \in Byte /\ Octet(q, 8) \in Byte
    BY RegisterOctets, Zenon
  <1>2. Octet(r, 0) = Octet(q, 0) /\ Octet(r, 8) = Octet(q, 8)
    BY <1>1 DEF Inverted, Byte
  <1>3. \A i \in 1 .. 8 : r[0 + i] = q[0 + i] /\ r[8 + i] = q[8 + i]
    BY <1>2, OctetInjective, Zenon
  <1>4. ASSUME NEW i \in 1 .. 16  PROVE r[i] = q[i]
    <2>1. CASE i <= 8
      BY <1>3, <2>1
    <2>2. CASE i > 8
      <3>1. i - 8 \in 1 .. 8 /\ 8 + (i - 8) = i
        BY <2>2
      <3> QED  BY <3>1, <1>3
    <2> QED  BY <2>1, <2>2
  <1> QED  BY <1>4, RegisterEq, Zenon
\* G[<<i, j, r>>] is the register r after the bytes i to j, one after the other
\* up to n, as the loop of crc16 feeds them.
Feeds(data, n, G) ==
    \A i \in 1 .. Len(data) + 1, j \in 0 .. n, r \in Register :
       /\ G[<<i, j, r>>] \in Register
       /\ G[<<i, j, r>>] = IF i > j THEN r ELSE crcByte(G[<<i, j - 1, r>>], data[j])

\* There is such a function.
LEMMA FeedExists ==
    ASSUME NEW data \in Seq(Byte)
    PROVE  \E G : Feeds(data, Len(data), G)
  <1> DEFINE S == {n \in Nat : n <= Len(data) => \E G : Feeds(data, n, G)}
  <1>0. Len(data) \in Nat /\ \A j \in 1 .. Len(data) : data[j] \in Byte
    OBVIOUS
  <1>1. 0 \in S
    <2> DEFINE G == [s \in (1 .. Len(data) + 1) \X (0 .. 0) \X Register |-> s[3]]
    <2>1. ASSUME NEW i \in 1 .. Len(data) + 1, NEW j \in 0 .. 0, NEW r \in Register
          PROVE  G[<<i, j, r>>] = r /\ i > j
      BY <1>0
    <2>2. Feeds(data, 0, G)
      BY <2>1, Zenon DEF Feeds
    <2> QED  BY <2>2, Zenon
  <1>2. ASSUME NEW n \in Nat, n \in S  PROVE n + 1 \in S
    <2>0. n + 1 \in Nat
      OBVIOUS
    <2> SUFFICES ASSUME n + 1 <= Len(data)  PROVE \E G : Feeds(data, n + 1, G)
      BY <2>0, Zenon
    <2>1. PICK G : Feeds(data, n, G)
      BY <1>0, <1>2
    <2> DEFINE H == [s \in (1 .. Len(data) + 1) \X (0 .. n + 1) \X Register |->
                        IF s[2] <= n THEN G[s]
                        ELSE IF s[1] > n + 1 THEN s[3]
                        ELSE crcByte(G[<<s[1], n, s[3]>>], data[n + 1])]
    <2>2. ASSUME NEW i \in 1 .. Len(data) + 1, NEW j \in 0 .. n, NEW r \in Register
          PROVE  H[<<i, j, r>>] = G[<<i, j, r>>]
      BY <1>0
    <2>3. ASSUME NEW i \in 1 .. Len(data) + 1, NEW r \in Register
          PROVE  H[<<i, n + 1, r>>] = IF i > n + 1 THEN r ELSE crcByte(G[<<i, n, r>>], data[n + 1])
      BY <1>0, SMTT(60)
    <2> HIDE DEF H
    <2>4. ASSUME NEW i \in 1 .. Len(data) + 1, NEW j \in 0 .. n + 1, NEW r \in Register
          PROVE  /\ H[<<i, j, r>>] \in Register
                 /\ H[<<i, j, r>>] = IF i > j THEN r ELSE crcByte(H[<<i, j - 1, r>>], data[j])
      <3>1. CASE j \in 0 .. n
        <4>1. i > j \/ j - 1 \in 0 .. n
          BY <3>1
        <4>2. G[<<i, j, r>>] \in Register
              /\ G[<<i, j, r>>] = IF i > j THEN r ELSE crcByte(G[<<i, j - 1, r>>], data[j])
          BY <2>1, <3>1, Zenon DEF Feeds
        <4> QED  BY <2>2, <3>1, <4>1, <4>2, Zenon
      <3>2. CASE j = n + 1
        <4>1. n \in 0 .. n /\ (n + 1) - 1 = n /\ data[n + 1] \in Byte
          BY <1>0
        <4>2. H[<<i, n, r>>] = G[<<i, n, r>>] /\ G[<<i, n, r>>] \in Register
          BY <4>1, <2>1, <2>2, Zenon DEF Feeds
        <4> QED  BY <4>1, <4>2, <2>3, <3>2, ByteIn, Zenon
      <3> QED  BY <3>1, <3>2, <1>0
    <2> QED  BY <2>4, Zenon DEF Feeds
  <1>3. Len(data) \in S
    <2> HIDE DEF S
    <2> QED  BY <1>0, <1>1, <1>2, Induction, Zenon
  <1> QED  BY <1>0, <1>3

\* Feeding the bytes i to j is feeding i to m, then m + 1 to j.
LEMMA FeedSplits ==
    ASSUME NEW data \in Seq(Byte), NEW G, Feeds(data, Len(data), G),
           NEW m \in 0 .. Len(data), NEW i \in 1 .. m + 1, NEW r \in Register
    PROVE  \A j \in m .. Len(data) : G[<<i, j, r>>] = G[<<m + 1, j, G[<<i, m, r>>]>>]
  <1> DEFINE S == {n \in Nat : m + n <= Len(data) =>
                      G[<<i, m + n, r>>] = G[<<m + 1, m + n, G[<<i, m, r>>]>>]}
  <1>0. /\ Len(data) \in Nat /\ m \in 0 .. Len(data) /\ i \in 1 .. Len(data) + 1
        /\ m + 1 \in 1 .. Len(data) + 1 /\ m + 1 > m /\ m \in Nat
    OBVIOUS
  <1>1. G[<<i, m, r>>] \in Register
    BY <1>0, Zenon DEF Feeds
  <1>2. 0 \in S
    <2>1. G[<<m + 1, m, G[<<i, m, r>>]>>] = G[<<i, m, r>>]
      BY <1>0, <1>1, Zenon DEF Feeds
    <2> QED  BY <2>1, <1>0
  <1>3. ASSUME NEW n \in Nat, n \in S  PROVE n + 1 \in S
    <2>0. n + 1 \in Nat
      OBVIOUS
    <2> SUFFICES ASSUME m + (n + 1) <= Len(data)
                 PROVE  G[<<i, m + (n + 1), r>>] = G[<<m + 1, m + (n + 1), G[<<i, m, r>>]>>]
      BY <2>0, Zenon
    <2> DEFINE j == m + (n + 1)
    <2>1. j \in 0 .. Len(data) /\ ~(i > j) /\ ~(m + 1 > j) /\ j - 1 = m + n /\ m + n <= Len(data)
      BY <1>0
    <2>2. G[<<i, m + n, r>>] = G[<<m + 1, m + n, G[<<i, m, r>>]>>]
      BY <2>1, <1>3, Zenon
    <2> HIDE DEF j
    <2>3. G[<<i, j, r>>] = crcByte(G[<<i, j - 1, r>>], data[j])
      BY <2>1, <1>0 DEF Feeds
    <2>4. G[<<m + 1, j, G[<<i, m, r>>]>>] = crcByte(G[<<m + 1, j - 1, G[<<i, m, r>>]>>], data[j])
      BY <2>1, <1>0, <1>1, Zenon DEF Feeds
    <2> QED  BY <2>1, <2>2, <2>3, <2>4, Zenon DEF j
  <1>4. Nat \subseteq S
    <2> HIDE DEF S
    <2> QED  BY <1>2, <1>3, Induction, Zenon
  <1> SUFFICES ASSUME NEW j \in m .. Len(data)
               PROVE  G[<<i, j, r>>] = G[<<m + 1, j, G[<<i, m, r>>]>>]
    BY Zenon
  <1>5. j - m \in Nat /\ m + (j - m) = j /\ j <= Len(data)
    BY <1>0
  <1>6. j - m \in S
    BY <1>4, <1>5, Zenon
  <1> QED  BY <1>5, <1>6, Zenon

\* crc16 starts at 0xFFFF.
Ones == [i \in 1 .. 16 |-> 1]

\* So the halves in which the definition of crc16 feeds the bytes make no
\* difference to the loop.
LEMMA Halves ==
    ASSUME NEW data \in Seq(Byte), NEW G, Feeds(data, Len(data), G)
    PROVE  crc16(data) = Inverted(G[<<1, Len(data), Ones>>])
  <1> DEFINE D == (1 .. Len(data) + 1) \X (0 .. Len(data)) \X Register
             Half(s) == (s[1] + s[2]) \div 2
             Body(f, s) == IF s[1] > s[2] THEN s[3]
                           ELSE IF s[1] = s[2] THEN crcByte(s[3], data[s[1]])
                           ELSE f[<<Half(s) + 1, s[2], f[<<s[1], Half(s), s[3]>>]>>]
             crc == CHOOSE f : f = [s \in D |-> Body(f, s)]
  <1>0. Len(data) \in Nat /\ \A j \in 1 .. Len(data) : data[j] \in Byte
    OBVIOUS
  <1>1. \A i \in 1 .. Len(data) + 1, j \in 0 .. Len(data), r \in Register : <<i, j, r>> \in D
    BY Zenon
  <1>2. ASSUME NEW s \in D
        PROVE  /\ s[1] \in 1 .. Len(data) + 1 /\ s[2] \in 0 .. Len(data) /\ s[3] \in Register
               /\ s = <<s[1], s[2], s[3]>>
    BY <1>2
  <1>3. ASSUME NEW s \in D, s[1] < s[2]
        PROVE  /\ Half(s) \in s[1] .. s[2] - 1 /\ Half(s) \in 0 .. Len(data)
               /\ Half(s) + 1 \in 1 .. Len(data) + 1 /\ s[1] \in 1 .. Half(s) + 1
               /\ s[2] \in Half(s) .. Len(data)
    BY <1>0, <1>2, <1>3
  <1>4. ASSUME NEW s \in D  PROVE G[s] = Body(G, s)
    <2>1. s[1] \in Int /\ s[2] \in Int
      BY <1>2
    <2>2. CASE s[1] > s[2]
      BY <1>2, <2>2, ZenonT(30) DEF Feeds
    <2>3. CASE s[1] = s[2]
      <3>1. ~(s[1] > s[2]) /\ s[2] - 1 \in 0 .. Len(data) /\ s[1] > s[2] - 1
        BY <2>3, <1>2, <1>0
      <3>2. G[<<s[1], s[2] - 1, s[3]>>] = s[3]
        BY <3>1, <1>2, Zenon DEF Feeds
      <3>3. G[<<s[1], s[2], s[3]>>] = crcByte(G[<<s[1], s[2] - 1, s[3]>>], data[s[2]])
        <4>1. s[1] \in 1 .. Len(data) + 1 /\ s[2] \in 0 .. Len(data) /\ s[3] \in Register
          BY <1>2, Zenon
        <4> QED  BY <3>1, <4>1, Zenon DEF Feeds
      <3> QED  BY <1>2, <2>3, <3>1, <3>2, <3>3, Zenon
    <2>4. CASE s[1] < s[2]
      <3>1. ~(s[1] > s[2]) /\ s[1] # s[2]
        BY <2>4, <2>1
      <3> HIDE DEF Half, D
      <3>2. G[<<s[1], s[2], s[3]>>] = G[<<Half(s) + 1, s[2], G[<<s[1], Half(s), s[3]>>]>>]
        <4> DEFINE m == Half(s)  i == s[1]  r == s[3]
        <4>1. /\ m \in 0 .. Len(data) /\ i \in 1 .. m + 1 /\ r \in Register
              /\ s[2] \in m .. Len(data)
          BY <2>4, <1>2, <1>3, Zenon
        <4> HIDE DEF m, i, r
        <4>2. \A j \in m .. Len(data) : G[<<i, j, r>>] = G[<<m + 1, j, G[<<i, m, r>>]>>]
          BY <4>1, FeedSplits, ZenonT(30)
        <4> QED  BY <4>1, <4>2, Zenon DEF m, i, r
      <3> QED  BY <1>2, <3>1, <3>2, Zenon
    <2> QED  BY <2>1, <2>2, <2>3, <2>4
  <1>5. crc = [s \in D |-> Body(crc, s)]
    <2> DEFINE H == [s \in D |-> G[s]]
    <2>1. ASSUME NEW s \in D  PROVE H[s] = Body(H, s)
      <3>1. H[s] = G[s]
        BY Zenon
      <3>2. CASE s[1] < s[2]
        <4> HIDE DEF Half
        <4>1. G[<<s[1], Half(s), s[3]>>] \in Register
          BY <1>2, <1>3, <3>2, Zenon DEF Feeds
        <4> HIDE DEF D
        <4>2. <<s[1], Half(s), s[3]>> \in D /\ <<Half(s) + 1, s[2], G[<<s[1], Half(s), s[3]>>]>> \in D
          BY <1>1, <1>2, <1>3, <3>2, <4>1, Zenon
        <4>3. Body(H, s) = Body(G, s)
          BY <4>2, Zenon
        <4> QED  BY <3>1, <4>3, <1>4, Zenon
      <3>3. CASE s[1] >= s[2]
        <4>1. s[1] > s[2] \/ s[1] = s[2]
          BY <1>2, <3>3
        <4> HIDE DEF Half, D
        <4>2. Body(H, s) = Body(G, s)
          BY <4>1, Zenon
        <4> QED  BY <3>1, <4>2, <1>4, Zenon
      <3> HIDE DEF H, D, Body
      <3> QED  BY <1>2, <3>2, <3>3, SMTT(30)
    <2>2. H = [s \in D |-> Body(H, s)]
      <3> HIDE DEF D, Body
      <3> QED  BY <2>1, Zenon
    <2> HIDE DEF H, D, Body
    <2> QED  BY <2>2, Zenon
  <1>6. crc16(data) = Inverted(crc[<<1, Len(data), Ones>>])
    BY Zenon DEF crc16, Ones
  <1> HIDE DEF crc
  <1>7. ASSUME NEW s \in D  PROVE crc[s] = Body(crc, s)
    <2> HIDE DEF D, Body
    <2> QED  BY <1>5, Zenon
  <1> DEFINE S == {w \in Nat : \A s \in D : s[2] - s[1] < w => crc[s] = G[s]}
  <1>8. 0 \in S
    <2> SUFFICES ASSUME NEW s \in D, s[2] - s[1] < 0  PROVE crc[s] = G[s]
      BY Zenon
    <2>1. s[1] > s[2]
      BY <1>2
    <2> HIDE DEF D
    <2> QED  BY <1>4, <1>7, <2>1, Zenon
  <1>9. ASSUME NEW w \in Nat, w \in S  PROVE w + 1 \in S
    <2>0. w + 1 \in Nat
      OBVIOUS
    <2> SUFFICES ASSUME NEW s \in D, s[2] - s[1] < w + 1  PROVE crc[s] = G[s]
      BY <2>0, Zenon
    <2>1. CASE s[1] < s[2]
      <3>1. /\ Half(s) - s[1] < w /\ s[2] - (Half(s) + 1) < w
        BY <1>2, <1>3, <2>1, SMTT(20)
      <3> HIDE DEF Half
      <3>2. G[<<s[1], Half(s), s[3]>>] \in Register
        BY <1>2, <1>3, <2>1, Zenon DEF Feeds
      <3> HIDE DEF D
      <3>3. <<s[1], Half(s), s[3]>> \in D /\ <<Half(s) + 1, s[2], G[<<s[1], Half(s), s[3]>>]>> \in D
        BY <1>1, <1>2, <1>3, <2>1, <3>2, Zenon
      <3>4. crc[<<s[1], Half(s), s[3]>>] = G[<<s[1], Half(s), s[3]>>]
        BY <3>1, <3>3, <1>9, Zenon
      <3>5. crc[<<Half(s) + 1, s[2], G[<<s[1], Half(s), s[3]>>]>>]
            = G[<<Half(s) + 1, s[2], G[<<s[1], Half(s), s[3]>>]>>]
        BY <3>1, <3>3, <1>9, Zenon
      <3>6. Body(crc, s) = Body(G, s)
        BY <3>4, <3>5, Zenon
      <3> QED  BY <3>6, <1>4, <1>7, Zenon
    <2>2. CASE s[1] >= s[2]
      <3>1. s[1] > s[2] \/ s[1] = s[2]
        BY <1>2, <2>2
      <3> HIDE DEF Half, D
      <3>2. Body(crc, s) = Body(G, s)
        BY <3>1, Zenon
      <3> QED  BY <3>2, <1>4, <1>7, Zenon
    <2> QED  BY <1>2, <2>1, <2>2
  <1>10. Nat \subseteq S
    <2> HIDE DEF S
    <2> QED  BY <1>8, <1>9, Induction, Zenon
  <1>11. <<1, Len(data), Ones>> \in D
    BY <1>0, SMTT(20) DEF Register, Ones
  <1>12. Len(data) \in S /\ Len(data) - 1 < Len(data)
    BY <1>0, <1>10
  <1>13. crc[<<1, Len(data), Ones>>] = G[<<1, Len(data), Ones>>]
    BY <1>11, <1>12, Zenon
  <1> QED  BY <1>6, <1>13, Zenon

\* The registers the loop of crc16 goes through, and its result.
LEMMA Registers ==
    ASSUME NEW data \in Seq(Byte)
    PROVE  \E g \in [0 .. Len(data) -> Register] :
              /\ g[0] = Ones
              /\ \A k \in 1 .. Len(data) : g[k] = crcByte(g[k - 1], data[k])
              /\ crc16(data) = Inverted(g[Len(data)])
  <1>1. PICK G : Feeds(data, Len(data), G)
    BY FeedExists, Zenon
  <1> DEFINE g == [k \in 0 .. Len(data) |-> G[<<1, k, Ones>>]]
  <1>2. Ones \in Register
    BY Zenon DEF Ones, Register
  <1>3. Len(data) \in Nat /\ 1 \in 1 .. Len(data) + 1 /\ Len(data) \in 0 .. Len(data)
    OBVIOUS
  <1>4. \A k \in 0 .. Len(data) :
           /\ G[<<1, k, Ones>>] \in Register
           /\ G[<<1, k, Ones>>] = IF 1 > k THEN Ones ELSE crcByte(G[<<1, k - 1, Ones>>], data[k])
    BY <1>1, <1>2, <1>3, Zenon DEF Feeds
  <1>5. g \in [0 .. Len(data) -> Register]
    BY <1>4, Zenon
  <1>6. g[0] = Ones
    <2>1. 0 \in 0 .. Len(data) /\ 1 > 0
      BY <1>3
    <2> QED  BY <2>1, <1>4, Zenon
  <1>7. ASSUME NEW k \in 1 .. Len(data)  PROVE g[k] = crcByte(g[k - 1], data[k])
    <2>1. k \in 0 .. Len(data) /\ k - 1 \in 0 .. Len(data) /\ ~(1 > k)
      BY <1>3
    <2> QED  BY <2>1, <1>4, Zenon
  <1>8. crc16(data) = Inverted(g[Len(data)])
    BY <1>1, <1>3, Halves, Zenon
  <1> HIDE DEF g
  <1> QED  BY <1>5, <1>6, <1>7, <1>8, Zenon

\* A checksum has 16 bits.
LEMMA ChecksumIn ==
    ASSUME NEW data \in Seq(Byte)
    PROVE  crc16(data) \in 0 .. 2^16 - 1
  <1>1. PICK g \in [0 .. Len(data) -> Register] : crc16(data) = Inverted(g[Len(data)])
    BY Registers, Zenon
  <1>2. g[Len(data)] \in Register
    <2>1. Len(data) \in 0 .. Len(data)
      OBVIOUS
    <2> QED  BY <2>1, Zenon
  <1> QED  BY <1>1, <1>2, InvertedIn, Zenon

\* The checksum of encoding.go tells a payload from any other of its length that
\* differs from it in one byte, or in two bytes next to each other only.
THEOREM ChecksumDetects ==
    ASSUME NEW data \in Seq(Byte), NEW other \in Seq(Byte), Len(other) = Len(data), other # data,
           NEW p \in 1 .. Len(data),
           \A j \in 1 .. Len(data) : j \notin {p, p + 1} => other[j] = data[j]
    PROVE  crc16(other) # crc16(data)
  <1> DEFINE n == Len(data)
  <1>0. n \in Nat /\ p \in 1 .. n /\ \A j \in 1 .. n : data[j] \in Byte /\ other[j] \in Byte
    OBVIOUS
  <1>1. PICK g \in [0 .. n -> Register] :
           /\ g[0] = Ones
           /\ \A k \in 1 .. n : g[k] = crcByte(g[k - 1], data[k])
           /\ crc16(data) = Inverted(g[n])
    BY Registers, Zenon
  <1>2. PICK h \in [0 .. n -> Register] :
           /\ h[0] = Ones
           /\ \A k \in 1 .. n : h[k] = crcByte(h[k - 1], other[k])
           /\ crc16(other) = Inverted(h[n])
    BY Registers, Zenon
  <1>3. \A k \in 0 .. n : g[k] \in Register /\ h[k] \in Register
    BY Zenon
  <1>d. PICK d \in 1 .. n : data[d] # other[d]
    OBVIOUS
  <1> HIDE DEF n
  <1>4. \A k \in Nat : k < p => g[k] = h[k]
    <2> DEFINE S == {k \in Nat : k < p => g[k] = h[k]}
    <2>1. 0 \in S
      BY <1>1, <1>2, Zenon
    <2>2. ASSUME NEW k \in Nat, k \in S  PROVE k + 1 \in S
      <3>0. k + 1 \in Nat
        OBVIOUS
      <3> SUFFICES ASSUME k + 1 < p  PROVE g[k + 1] = h[k + 1]
        BY <3>0, Zenon
      <3>1. k < p /\ k + 1 \in 1 .. n /\ (k + 1) - 1 = k /\ k + 1 # p /\ k + 1 # p + 1
        BY <1>0
      <3>2. g[k] = h[k] /\ other[k + 1] = data[k + 1]
        BY <3>1, <2>2, Zenon DEF n
      <3>3. g[k + 1] = crcByte(g[(k + 1) - 1], data[k + 1]) /\ h[k + 1] = crcByte(h[(k + 1) - 1], other[k + 1])
        BY <3>1, <1>1, <1>2, Zenon
      <3> QED  BY <3>1, <3>2, <3>3, Zenon
    <2>3. Nat \subseteq S
      <3> HIDE DEF S
      <3> QED  BY <2>1, <2>2, Induction, Zenon
    <2> QED  BY <2>3, Zenon
  <1>5. g[p - 1] = h[p - 1] /\ g[p - 1] \in Register
    BY <1>0, <1>3, <1>4
  <1>6. g[p] = crcByte(g[p - 1], data[p]) /\ h[p] = crcByte(g[p - 1], other[p])
    BY <1>0, <1>1, <1>2, <1>5, Zenon
  <1>7. CASE p = n
    <2>1. d = p
      BY <1>7, <1>0, <1>d DEF n
    <2>2. 0 \in Byte
      BY DEF Byte
    <2>3. data[p] \in Byte /\ other[p] \in Byte
      BY <1>0, Zenon
    <2>4. g[p] # h[p]
      <3> SUFFICES ASSUME g[p] = h[p]  PROVE data[p] = other[p]
        BY <1>d, <2>1, Zenon
      <3>1. crcByte(crcByte(g[p - 1], data[p]), 0) = crcByte(crcByte(g[p - 1], other[p]), 0)
        BY <1>6, Zenon
      <3> DEFINE r == g[p - 1]  a == data[p]  c == other[p]
      <3>2. r \in Register /\ a \in Byte /\ c \in Byte /\ crcByte(crcByte(r, a), 0) = crcByte(crcByte(r, c), 0)
        BY <3>1, <1>5, <2>3, Zenon
      <3> HIDE DEF r, a, c
      <3>3. a = c
        BY <3>2, <2>2, TwoBytes
      <3> QED  BY <3>3, Zenon DEF a, c
    <2>5. g[n] \in Register /\ h[n] \in Register
      BY <1>0, <1>3
    <2> QED  BY <1>1, <1>2, <1>7, <2>4, <2>5, InvertedInjective, Zenon
  <1>8. CASE p < n
    <2>1. p + 1 \in 1 .. n /\ (p + 1) - 1 = p
      BY <1>8, <1>0
    <2>2. /\ data[p] \in Byte /\ other[p] \in Byte
          /\ data[p + 1] \in Byte /\ other[p + 1] \in Byte
      BY <2>1, <1>0, Zenon
    <2>3. g[p + 1] = crcByte(g[p], data[p + 1]) /\ h[p + 1] = crcByte(h[p], other[p + 1])
      BY <2>1, <1>1, <1>2, Zenon
    <2>4. d = p \/ d = p + 1
      BY <1>d, Zenon DEF n
    <2>5. g[p + 1] # h[p + 1]
      <3> SUFFICES ASSUME g[p + 1] = h[p + 1]  PROVE data[p] = other[p] /\ data[p + 1] = other[p + 1]
        BY <1>d, <2>4, Zenon
      <3>1. crcByte(crcByte(g[p - 1], data[p]), data[p + 1]) = crcByte(crcByte(g[p - 1], other[p]), other[p + 1])
        BY <1>6, <2>3, Zenon
      <3> DEFINE r == g[p - 1]  a == data[p]  b == data[p + 1]  c == other[p]  e == other[p + 1]
      <3>2. /\ r \in Register /\ a \in Byte /\ b \in Byte /\ c \in Byte /\ e \in Byte
            /\ crcByte(crcByte(r, a), b) = crcByte(crcByte(r, c), e)
        BY <3>1, <1>5, <2>2, Zenon
      <3> HIDE DEF r, a, b, c, e
      <3>3. a = c /\ b = e
        BY <3>2, TwoBytes
      <3> QED  BY <3>3, Zenon DEF a, b, c, e
    <2> DEFINE S == {k \in Nat : p + 1 + k <= n => g[p + 1 + k] # h[p + 1 + k]}
    <2>6. 0 \in S
      <3>1. p + 1 + 0 = p + 1
        BY <1>0
      <3> QED  BY <2>5, <3>1, Zenon
    <2>7. ASSUME NEW k \in Nat, k \in S  PROVE k + 1 \in S
      <3>0. k + 1 \in Nat
        OBVIOUS
      <3> SUFFICES ASSUME p + 1 + (k + 1) <= n  PROVE g[p + 1 + (k + 1)] # h[p + 1 + (k + 1)]
        BY <3>0, Zenon
      <3> DEFINE j == p + 1 + (k + 1)
      <3>1. /\ p + 1 + k <= n /\ j \in 1 .. n /\ j - 1 = p + 1 + k /\ j # p /\ j # p + 1
            /\ j - 1 \in 0 .. n
        BY <1>0
      <3>2. g[j - 1] # h[j - 1]
        BY <3>1, <2>7, Zenon
      <3> HIDE DEF j
      <3>3. other[j] = data[j] /\ data[j] \in Byte
        BY <3>1, <1>0, Zenon DEF n
      <3>4. g[j] = crcByte(g[j - 1], data[j]) /\ h[j] = crcByte(h[j - 1], data[j])
        BY <3>1, <3>3, <1>1, <1>2, Zenon
      <3>5. g[j] # h[j]
        BY <3>1, <3>2, <3>3, <3>4, <1>3, ByteInjective, ZenonT(30)
      <3> QED  BY <3>5, Zenon DEF j
    <2>8. Nat \subseteq S
      <3> HIDE DEF S
      <3> QED  BY <2>6, <2>7, Induction, Zenon
    <2>9. n - (p + 1) \in Nat /\ p + 1 + (n - (p + 1)) = n /\ n <= n /\ n \in 0 .. n
      BY <1>0, <1>8
    <2>10. g[n] # h[n]
      <3>1. n - (p + 1) \in S
        BY <2>8, <2>9, Zenon
      <3> QED  BY <3>1, <2>9
    <2>11. g[n] \in Register /\ h[n] \in Register
      BY <1>3, <2>9, Zenon
    <2> QED  BY <1>1, <1>2, <2>10, <2>11, InvertedInjective, Zenon
  <1> QED  BY <1>0, <1>7, <1>8

-----------------------------------------------------------------------------
(***************************************************************************)
(* base32hex.                                                              *)
(***************************************************************************)
\* Bit gives bits.
LEMMA BitIn ==
    ASSUME NEW s \in Seq(Byte), NEW k \in Nat
    PROVE  Bit(s, k) \in 0 .. 1
  <1>1. CASE k < 8 * Len(s)
    <2>1. k \div 8 + 1 \in 1 .. Len(s) /\ k % 8 \in 0 .. 7
      BY <1>1
    <2>2. s[k \div 8 + 1] \in Byte
      BY <2>1
    <2>3. BitOf(s[k \div 8 + 1], k % 8) \in {0, 1}
      BY <2>1, <2>2, BitOfBit, Zenon
    <2> QED  BY <1>1, <2>3 DEF Bit
  <1>2. CASE ~(k < 8 * Len(s))
    BY <1>2 DEF Bit
  <1> QED  BY <1>1, <1>2

\* The length of an encoding, from which the decoder finds the length of the
\* data.
LEMMA EncodeLen ==
    ASSUME NEW s \in Seq(Byte)
    PROVE  /\ Len(Encode32(s)) = (8 * Len(s) + 4) \div 5
           /\ (5 * Len(Encode32(s))) \div 8 = Len(s)
  <1>1. (8 * Len(s) + 4) \div 5 \in Nat
    OBVIOUS
  <1>2. Len(Encode32(s)) = (8 * Len(s) + 4) \div 5
    BY <1>1 DEF Encode32
  <1> QED  BY <1>2

\* The digits of an encoding are base32 digits of five bits of the data each.
LEMMA EncodeDigit ==
    ASSUME NEW s \in Seq(Byte), NEW j \in 1 .. Len(Encode32(s))
    PROVE  /\ Encode32(s)[j] \in Digit
           /\ (Encode32(s)[j] \div 16) % 2 = Bit(s, 5 * j - 5)
           /\ (Encode32(s)[j] \div 8) % 2 = Bit(s, 5 * j - 4)
           /\ (Encode32(s)[j] \div 4) % 2 = Bit(s, 5 * j - 3)
           /\ (Encode32(s)[j] \div 2) % 2 = Bit(s, 5 * j - 2)
           /\ (Encode32(s)[j] \div 1) % 2 = Bit(s, 5 * j - 1)
  <1>1. /\ 5 * j - 5 \in Nat /\ 5 * j - 4 \in Nat /\ 5 * j - 3 \in Nat
        /\ 5 * j - 2 \in Nat /\ 5 * j - 1 \in Nat
    BY EncodeLen
  <1>2. /\ Bit(s, 5 * j - 5) \in 0 .. 1 /\ Bit(s, 5 * j - 4) \in 0 .. 1 /\ Bit(s, 5 * j - 3) \in 0 .. 1
        /\ Bit(s, 5 * j - 2) \in 0 .. 1 /\ Bit(s, 5 * j - 1) \in 0 .. 1
    BY <1>1, BitIn, Zenon
  <1>3. j \in 1 .. (8 * Len(s) + 4) \div 5
    BY EncodeLen, Zenon
  <1>4. Encode32(s)[j] = 16 * Bit(s, 5*j - 5) + 8 * Bit(s, 5*j - 4) + 4 * Bit(s, 5*j - 3)
                         + 2 * Bit(s, 5*j - 2) + Bit(s, 5*j - 1)
    BY <1>3, Zenon DEF Encode32
  <1>5. PICK a \in 0 .. 1, b \in 0 .. 1, c \in 0 .. 1, d \in 0 .. 1, e \in 0 .. 1 :
           /\ a = Bit(s, 5 * j - 5) /\ b = Bit(s, 5 * j - 4) /\ c = Bit(s, 5 * j - 3)
           /\ d = Bit(s, 5 * j - 2) /\ e = Bit(s, 5 * j - 1)
    BY <1>2, Zenon
  <1>6. Encode32(s)[j] = 16 * a + 8 * b + 4 * c + 2 * d + e
    BY <1>4, <1>5, Zenon
  <1>7. /\ 16 * a + 8 * b + 4 * c + 2 * d + e \in Digit
        /\ ((16 * a + 8 * b + 4 * c + 2 * d + e) \div 16) % 2 = a
        /\ ((16 * a + 8 * b + 4 * c + 2 * d + e) \div 8) % 2 = b
        /\ ((16 * a + 8 * b + 4 * c + 2 * d + e) \div 4) % 2 = c
        /\ ((16 * a + 8 * b + 4 * c + 2 * d + e) \div 2) % 2 = d
        /\ ((16 * a + 8 * b + 4 * c + 2 * d + e) \div 1) % 2 = e
    BY DEF Digit
  <1> QED  BY <1>5, <1>6, <1>7, ZenonT(30)

\* The bits of the digits are the bits of the data.
LEMMA BitsOfEncode ==
    ASSUME NEW s \in Seq(Byte), NEW k \in 1 .. 5 * Len(Encode32(s))
    PROVE  Bits32(Encode32(s))[k] = Bit(s, k - 1)
  <1> DEFINE e == Encode32(s)
  <1>0. Len(e) \in Nat
    BY EncodeLen
  <1>1. Bits32(e)[k] = (e[(k + 4) \div 5] \div <<16, 8, 4, 2, 1>>[((k - 1) % 5) + 1]) % 2
    BY Zenon DEF Bits32
  <1>2. (k + 4) \div 5 \in 1 .. Len(e)
    BY <1>0
  <1>3. /\ (e[(k + 4) \div 5] \div 16) % 2 = Bit(s, 5 * ((k + 4) \div 5) - 5)
        /\ (e[(k + 4) \div 5] \div 8) % 2 = Bit(s, 5 * ((k + 4) \div 5) - 4)
        /\ (e[(k + 4) \div 5] \div 4) % 2 = Bit(s, 5 * ((k + 4) \div 5) - 3)
        /\ (e[(k + 4) \div 5] \div 2) % 2 = Bit(s, 5 * ((k + 4) \div 5) - 2)
        /\ (e[(k + 4) \div 5] \div 1) % 2 = Bit(s, 5 * ((k + 4) \div 5) - 1)
    BY <1>2, EncodeDigit, Zenon
  <1> HIDE DEF e
  <1> DEFINE m == (k - 1) % 5
  <1>4. m \in 0 .. 4 /\ k - 1 = 5 * ((k + 4) \div 5) - 5 + m
    BY <1>0
  <1> HIDE DEF m
  <1>5. m = 0 \/ m = 1 \/ m = 2 \/ m = 3 \/ m = 4
    BY <1>4
  <1>6. /\ m = 0 => <<16, 8, 4, 2, 1>>[m + 1] = 16 /\ k - 1 = 5 * ((k + 4) \div 5) - 5
        /\ m = 1 => <<16, 8, 4, 2, 1>>[m + 1] = 8 /\ k - 1 = 5 * ((k + 4) \div 5) - 4
        /\ m = 2 => <<16, 8, 4, 2, 1>>[m + 1] = 4 /\ k - 1 = 5 * ((k + 4) \div 5) - 3
        /\ m = 3 => <<16, 8, 4, 2, 1>>[m + 1] = 2 /\ k - 1 = 5 * ((k + 4) \div 5) - 2
        /\ m = 4 => <<16, 8, 4, 2, 1>>[m + 1] = 1 /\ k - 1 = 5 * ((k + 4) \div 5) - 1
    BY <1>4
  <1> QED  BY <1>1, <1>3, <1>5, <1>6, Zenon DEF e, m

\* Eight bits that are those of a byte make that byte.
LEMMA OctetOfByte ==
    ASSUME NEW r, NEW k \in Nat, NEW b \in Byte, \A i \in 1 .. 8 : r[k + i] = BitOf(b, i - 1)
    PROVE  Octet(r, k) = b
  <1>1. /\ r[k + 1] = BitOf(b, 0) /\ r[k + 2] = BitOf(b, 1) /\ r[k + 3] = BitOf(b, 2)
        /\ r[k + 4] = BitOf(b, 3) /\ r[k + 5] = BitOf(b, 4) /\ r[k + 6] = BitOf(b, 5)
        /\ r[k + 7] = BitOf(b, 6) /\ r[k + 8] = BitOf(b, 7)
    OBVIOUS
  <1>2. Octet(r, k) = 128 * BitOf(b, 0) + 64 * BitOf(b, 1) + 32 * BitOf(b, 2) + 16 * BitOf(b, 3)
                      + 8 * BitOf(b, 4) + 4 * BitOf(b, 5) + 2 * BitOf(b, 6) + BitOf(b, 7)
    BY <1>1, ZenonT(30) DEF Octet
  <1> QED  BY <1>2, BitsOfByte, Zenon

\* What the base32hex decoder makes of an encoding is the data, whatever its
\* bytes and its length: the unused bits of the last digit are dropped.
THEOREM DecodeEncode ==
    ASSUME NEW s \in Seq(Byte)
    PROVE  Decode32(Encode32(s)) = s
  <1> DEFINE e == Encode32(s)
  <1>0. /\ Len(e) \in Nat /\ (5 * Len(e)) \div 8 = Len(s) /\ Len(s) \in Nat
        /\ 8 * Len(s) <= 5 * Len(e)
    BY EncodeLen
  <1>1. Decode32(e) = [j \in 1 .. Len(s) |-> Octet(Bits32(e), 8 * (j - 1))]
    BY <1>0, Zenon DEF Decode32
  <1>2. ASSUME NEW j \in 1 .. Len(s)  PROVE Octet(Bits32(e), 8 * (j - 1)) = s[j]
    <2>0. 8 * (j - 1) \in Nat /\ s[j] \in Byte
      OBVIOUS
    <2>1. ASSUME NEW i \in 1 .. 8  PROVE Bits32(e)[8 * (j - 1) + i] = BitOf(s[j], i - 1)
      <3> DEFINE k == 8 * (j - 1) + i
      <3>1. k \in 1 .. 5 * Len(e) /\ k - 1 < 8 * Len(s) /\ (k - 1) \div 8 + 1 = j /\ (k - 1) % 8 = i - 1
        BY <1>0
      <3> HIDE DEF k
      <3>2. Bits32(e)[k] = Bit(s, k - 1)
        BY <3>1, BitsOfEncode, Zenon
      <3>3. Bit(s, k - 1) = BitOf(s[j], i - 1)
        BY <3>1, Zenon DEF Bit
      <3> QED  BY <3>2, <3>3, Zenon DEF k
    <2> HIDE DEF e
    <2> QED  BY <2>0, <2>1, OctetOfByte, Zenon
  <1>3. Decode32(e) = [j \in 1 .. Len(s) |-> s[j]]
    BY <1>1, <1>2, Zenon
  <1>4. s = [j \in 1 .. Len(s) |-> s[j]]
    OBVIOUS
  <1> QED  BY <1>3, <1>4, Zenon

\* Bits32 gives bits.
LEMMA BitsIn ==
    ASSUME NEW e \in Seq(Digit), NEW k \in 1 .. 5 * Len(e)
    PROVE  Bits32(e)[k] \in 0 .. 1
  <1>1. (k + 4) \div 5 \in 1 .. Len(e) /\ ((k - 1) % 5) + 1 \in 1 .. 5
    OBVIOUS
  <1>2. e[(k + 4) \div 5] \in Digit
    BY <1>1
  <1>3. <<16, 8, 4, 2, 1>>[((k - 1) % 5) + 1] \in 1 .. 16
    BY <1>1, SMTT(60)
  <1>4. ASSUME NEW x \in Digit, NEW y \in 1 .. 16  PROVE (x \div y) % 2 \in 0 .. 1
    BY DEF Digit
  <1>5. Bits32(e)[k] = (e[(k + 4) \div 5] \div <<16, 8, 4, 2, 1>>[((k - 1) % 5) + 1]) % 2
    BY Zenon DEF Bits32
  <1> QED  BY <1>2, <1>3, <1>4, <1>5, Zenon

\* Digits decode to bytes.
LEMMA DecodeIn ==
    ASSUME NEW e \in Seq(Digit)
    PROVE  Decode32(e) \in Seq(Byte) /\ Len(Decode32(e)) = (5 * Len(e)) \div 8
  <1> DEFINE n == (5 * Len(e)) \div 8
  <1>0. n \in Nat /\ 8 * n <= 5 * Len(e) /\ Len(e) \in Nat
    OBVIOUS
  <1>1. ASSUME NEW j \in 1 .. n  PROVE Octet(Bits32(e), 8 * (j - 1)) \in Byte
    <2>1. 8 * (j - 1) \in Nat /\ \A i \in 1 .. 8 : 8 * (j - 1) + i \in 1 .. 5 * Len(e)
      BY <1>0
    <2>2. \A i \in 1 .. 8 : Bits32(e)[8 * (j - 1) + i] \in 0 .. 1
      BY <2>1, BitsIn, Zenon
    <2> QED  BY <2>1, <2>2, OctetIn, Zenon
  <1>2. Decode32(e) = [j \in 1 .. n |-> Octet(Bits32(e), 8 * (j - 1))]
    BY Zenon DEF Decode32
  <1> HIDE DEF n
  <1>3. Decode32(e) \in [1 .. n -> Byte]
    BY <1>1, <1>2, Zenon
  <1> QED  BY <1>0, <1>3 DEF n

\* Division by 8 and by 5, as bounds.
LEMMA ByEight ==
    ASSUME NEW x \in Nat
    PROVE  x \div 8 \in Nat /\ 8 * (x \div 8) <= x /\ x < 8 * (x \div 8) + 8
  OBVIOUS

LEMMA ByFive ==
    ASSUME NEW x \in Nat
    PROVE  x \div 5 \in Nat /\ 5 * (x \div 5) <= x /\ x < 5 * (x \div 5) + 5
  OBVIOUS

\* Bit i of byte j is part of digit b; digit q begins in byte a + 1.
LEMMA OutsideBytes ==
    ASSUME NEW n \in Nat, NEW q \in 1 .. n,
           NEW a \in Nat, 8 * a <= 5 * (q - 1), 5 * (q - 1) < 8 * a + 8,
           NEW m \in Nat, 8 * m <= 5 * n, NEW j \in 1 .. m, j # a + 1, j # a + 2,
           NEW i \in 1 .. 8,
           NEW b \in Nat, 5 * b <= 8 * (j - 1) + i + 4, 8 * (j - 1) + i + 4 < 5 * b + 5
    PROVE  8 * (j - 1) + i \in 1 .. 5 * n /\ b \in 1 .. n /\ b # q
  OBVIOUS

\* So the bits of a byte in which digit q has no part are parts of other digits.
LEMMA OutsideDigit ==
    ASSUME NEW n \in Nat, NEW q \in 1 .. n, NEW j \in 1 .. (5 * n) \div 8,
           j # (5 * (q - 1)) \div 8 + 1, j # (5 * (q - 1)) \div 8 + 2, NEW i \in 1 .. 8
    PROVE  /\ 8 * (j - 1) + i \in 1 .. 5 * n
           /\ (8 * (j - 1) + i + 4) \div 5 \in 1 .. n
           /\ (8 * (j - 1) + i + 4) \div 5 # q
  <1>1. 5 * n \in Nat /\ 5 * (q - 1) \in Nat
    OBVIOUS
  <1> DEFINE m == (5 * n) \div 8
             a == (5 * (q - 1)) \div 8
             b == (8 * (j - 1) + i + 4) \div 5
  <1>2. m \in Nat /\ 8 * m <= 5 * n /\ a \in Nat /\ 8 * a <= 5 * (q - 1) /\ 5 * (q - 1) < 8 * a + 8
    BY <1>1, ByEight, Zenon
  <1>3. 8 * (j - 1) + i + 4 \in Nat
    <2> j \in 1 .. m /\ m \in Nat
      BY <1>2, Zenon
    <2> HIDE DEF m, a, b
    <2> QED  OBVIOUS
  <1>4. b \in Nat /\ 5 * b <= 8 * (j - 1) + i + 4 /\ 8 * (j - 1) + i + 4 < 5 * b + 5
    BY <1>3, ByFive, Zenon
  <1>5. j \in 1 .. m /\ j # a + 1 /\ j # a + 2
    BY Zenon
  <1> HIDE DEF m, a, b
  <1>6. 8 * (j - 1) + i \in 1 .. 5 * n /\ b \in 1 .. n /\ b # q
    BY <1>2, <1>4, <1>5, OutsideBytes, ZenonT(30)
  <1> QED  BY <1>6, Zenon DEF b

\* A digit is part of two adjoining bytes at most: the others decode as before.
LEMMA DecodeAltered ==
    ASSUME NEW e \in Seq(Digit), NEW f \in Seq(Digit), Len(f) = Len(e), NEW q \in 1 .. Len(e),
           \A i \in 1 .. Len(e) : i # q => f[i] = e[i],
           NEW j \in 1 .. (5 * Len(e)) \div 8,
           j # (5 * (q - 1)) \div 8 + 1, j # (5 * (q - 1)) \div 8 + 2
    PROVE  Decode32(f)[j] = Decode32(e)[j]
  <1>1. Decode32(e)[j] = Octet(Bits32(e), 8 * (j - 1)) /\ Decode32(f)[j] = Octet(Bits32(f), 8 * (j - 1))
    BY Zenon DEF Decode32
  <1>2. ASSUME NEW i \in 1 .. 8  PROVE Bits32(f)[8 * (j - 1) + i] = Bits32(e)[8 * (j - 1) + i]
    <2> DEFINE k == 8 * (j - 1) + i
    <2>1. k \in 1 .. 5 * Len(e) /\ (k + 4) \div 5 \in 1 .. Len(e) /\ (k + 4) \div 5 # q
      <3>1. Len(e) \in Nat
        OBVIOUS
      <3> QED  BY <3>1, OutsideDigit, ZenonT(30)
    <2> HIDE DEF k
    <2>2. f[(k + 4) \div 5] = e[(k + 4) \div 5]
      BY <2>1, Zenon
    <2> QED  BY <2>1, <2>2, Zenon DEF Bits32, k
  <1>3. /\ Bits32(f)[8 * (j - 1) + 1] = Bits32(e)[8 * (j - 1) + 1]
        /\ Bits32(f)[8 * (j - 1) + 2] = Bits32(e)[8 * (j - 1) + 2]
        /\ Bits32(f)[8 * (j - 1) + 3] = Bits32(e)[8 * (j - 1) + 3]
        /\ Bits32(f)[8 * (j - 1) + 4] = Bits32(e)[8 * (j - 1) + 4]
        /\ Bits32(f)[8 * (j - 1) + 5] = Bits32(e)[8 * (j - 1) + 5]
        /\ Bits32(f)[8 * (j - 1) + 6] = Bits32(e)[8 * (j - 1) + 6]
        /\ Bits32(f)[8 * (j - 1) + 7] = Bits32(e)[8 * (j - 1) + 7]
        /\ Bits32(f)[8 * (j - 1) + 8] = Bits32(e)[8 * (j - 1) + 8]
    BY <1>2
  <1> QED  BY <1>1, <1>3 DEF Octet

-----------------------------------------------------------------------------
(***************************************************************************)
(* Cutting in pieces and putting together.                                 *)
(***************************************************************************)
\* Join appends the sequences one after the other.
LEMMA JoinSteps ==
    ASSUME NEW X, NEW s \in Seq(Seq(X))
    PROVE  \E g \in [0 .. Len(s) -> Seq(X)] :
              /\ g[0] = << >>
              /\ \A i \in 1 .. Len(s) : g[i] = g[i - 1] \o s[i]
              /\ Join(s) = g[Len(s)]
  <1>0. Len(s) \in Nat /\ \A i \in 1 .. Len(s) : s[i] \in Seq(X)
    OBVIOUS
  <1> DEFINE S == {n \in Nat : n <= Len(s) =>
                      \E g \in [0 .. n -> Seq(X)] :
                         g[0] = << >> /\ \A i \in 1 .. n : g[i] = g[i - 1] \o s[i]}
  <1>1. 0 \in S
    <2> DEFINE g == [k \in 0 .. 0 |-> << >>]
    <2>1. g \in [0 .. 0 -> Seq(X)] /\ g[0] = << >> /\ \A i \in 1 .. 0 : g[i] = g[i - 1] \o s[i]
      OBVIOUS
    <2> HIDE DEF g
    <2> QED  BY <2>1, Zenon
  <1>2. ASSUME NEW n \in Nat, n \in S  PROVE n + 1 \in S
    <2>0. n + 1 \in Nat
      OBVIOUS
    <2> SUFFICES ASSUME n + 1 <= Len(s)
                 PROVE  \E g \in [0 .. n + 1 -> Seq(X)] :
                           g[0] = << >> /\ \A i \in 1 .. n + 1 : g[i] = g[i - 1] \o s[i]
      BY <2>0, Zenon
    <2>1. PICK g \in [0 .. n -> Seq(X)] : g[0] = << >> /\ \A i \in 1 .. n : g[i] = g[i - 1] \o s[i]
      <3>1. n <= Len(s)
        BY <1>0
      <3> QED  BY <3>1, <1>2, Zenon
    <2> DEFINE h == [k \in 0 .. n + 1 |-> IF k <= n THEN g[k] ELSE g[n] \o s[n + 1]]
    <2>2. g[n] \in Seq(X) /\ s[n + 1] \in Seq(X)
      BY <1>0
    <2>3. \A k \in 0 .. n : h[k] = g[k] /\ g[k] \in Seq(X)
      OBVIOUS
    <2>4. h[n + 1] = g[n] \o s[n + 1] /\ g[n] \o s[n + 1] \in Seq(X)
      BY <2>2, SMTT(60)
    <2>5. h \in [0 .. n + 1 -> Seq(X)]
      BY <2>3, <2>4
    <2> HIDE DEF h
    <2>6. h[0] = << >>
      BY <2>1, <2>3, SMTT(30)
    <2>7. ASSUME NEW i \in 1 .. n + 1  PROVE h[i] = h[i - 1] \o s[i]
      <3>1. CASE i \in 1 .. n
        <4>1. i \in 0 .. n /\ i - 1 \in 0 .. n
          BY <3>1
        <4> QED  BY <4>1, <3>1, <2>1, <2>3, Zenon
      <3>2. CASE i = n + 1
        <4>1. n \in 0 .. n /\ i - 1 = n
          BY <3>2
        <4> QED  BY <4>1, <3>2, <2>3, <2>4, Zenon
      <3>3. i \in 1 .. n \/ i = n + 1
        OBVIOUS
      <3> QED  BY <3>1, <3>2, <3>3, Zenon
    <2> QED  BY <2>5, <2>6, <2>7, Zenon
  <1>3. Len(s) \in S
    <2> HIDE DEF S
    <2> QED  BY <1>0, <1>1, <1>2, Induction, Zenon
  <1>4. PICK g \in [0 .. Len(s) -> Seq(X)] :
           g[0] = << >> /\ \A i \in 1 .. Len(s) : g[i] = g[i - 1] \o s[i]
    <2>1. Len(s) <= Len(s)
      BY <1>0
    <2> QED  BY <1>3, <2>1, Zenon
  <1> DEFINE f == CHOOSE f : f = [n \in 0 .. Len(s) |-> IF n = 0 THEN << >> ELSE f[n - 1] \o s[n]]
  <1>5. Join(s) = f[Len(s)]
    BY Zenon DEF Join
  <1>6. ASSUME NEW n \in 0 .. Len(s)  PROVE g[n] = IF n = 0 THEN << >> ELSE g[n - 1] \o s[n]
    <2>1. n # 0 => n \in 1 .. Len(s)
      OBVIOUS
    <2> QED  BY <2>1, <1>4, Zenon
  <1>7. g = [n \in 0 .. Len(s) |-> IF n = 0 THEN << >> ELSE g[n - 1] \o s[n]]
    BY <1>6, Zenon
  <1>8. f = [n \in 0 .. Len(s) |-> IF n = 0 THEN << >> ELSE f[n - 1] \o s[n]]
    BY <1>7, Zenon
  <1> HIDE DEF f
  <1>9. f[0] = << >>
    <2>1. 0 \in 0 .. Len(s)
      BY <1>0
    <2> QED  BY <2>1, <1>8, Zenon
  <1>10. ASSUME NEW i \in 1 .. Len(s)  PROVE f[i] = f[i - 1] \o s[i]
    <2>1. i \in 0 .. Len(s) /\ i # 0
      OBVIOUS
    <2> QED  BY <2>1, <1>8, Zenon
  <1> DEFINE T == {n \in Nat : n <= Len(s) => f[n] = g[n]}
  <1>11. 0 \in T
    BY <1>4, <1>9, Zenon
  <1>12. ASSUME NEW n \in Nat, n \in T  PROVE n + 1 \in T
    <2>0. n + 1 \in Nat
      OBVIOUS
    <2> SUFFICES ASSUME n + 1 <= Len(s)  PROVE f[n + 1] = g[n + 1]
      BY <2>0, Zenon
    <2>1. n + 1 \in 1 .. Len(s) /\ (n + 1) - 1 = n /\ n <= Len(s)
      BY <1>0
    <2>2. f[n] = g[n]
      BY <2>1, <1>12, Zenon
    <2>3. f[n + 1] = f[n] \o s[n + 1]
      BY <2>1, <1>10, Zenon
    <2>4. g[n + 1] = g[n] \o s[n + 1]
      BY <2>1, <1>4, Zenon
    <2> QED  BY <2>2, <2>3, <2>4, Zenon
  <1>13. Len(s) \in T
    <2> HIDE DEF T
    <2> QED  BY <1>0, <1>11, <1>12, Induction, Zenon
  <1>14. f[Len(s)] = g[Len(s)]
    <2>1. Len(s) <= Len(s)
      BY <1>0
    <2> QED  BY <1>13, <2>1, Zenon
  <1> QED  BY <1>4, <1>5, <1>14, Zenon

\* The number of pieces: they suffice, and one fewer would not.
LEMMA CountBounds ==
    ASSUME NEW n \in Nat, NEW size \in Nat \ {0}
    PROVE  /\ Count(n, size) \in Nat
           /\ n <= Count(n, size) * size
           /\ (Count(n, size) - 1) * size < n
  BY DEF Count

\* Multiplication by a natural number keeps the order.
LEMMA Times ==
    ASSUME NEW a \in Int, NEW b \in Int, NEW c \in Nat, a <= b
    PROVE  a * c \in Int /\ b * c \in Int /\ a * c <= b * c /\ (a + 1) * c = a * c + c
  <1>1. (b - a) * c >= 0
    OBVIOUS
  <1> QED  BY <1>1

\* Every piece begins before the end, and only the last can reach beyond it.
LEMMA PieceBounds ==
    ASSUME NEW n \in Nat, NEW size \in Nat \ {0}, NEW i \in 1 .. Count(n, size)
    PROVE  /\ (i - 1) * size \in Nat /\ (i - 1) * size < n
           /\ i * size \in Nat /\ i * size = (i - 1) * size + size
           /\ i * size > n => i = Count(n, size)
  <1> DEFINE c == Count(n, size)
  <1>1. c \in Nat /\ n <= c * size /\ (c - 1) * size < n /\ (c - 1) * size \in Int
    BY CountBounds
  <1> HIDE DEF c
  <1>2. i \in 1 .. c
    BY Zenon DEF c
  <1>3. 0 * size <= (i - 1) * size /\ (i - 1) * size <= (c - 1) * size /\ (i - 1) * size \in Int
    BY <1>1, <1>2, Times
  <1>4. i * size = (i - 1) * size + size
    BY <1>1, <1>2
  <1>5. i <= c - 1 => i * size <= (c - 1) * size
    BY <1>1, <1>2, Times
  <1>6. (i - 1) * size \in Nat /\ (i - 1) * size < n
    BY <1>1, <1>3
  <1>7. i * size \in Nat
    BY <1>4, <1>6
  <1>8. i * size > n => i = c
    BY <1>1, <1>2, <1>5, <1>7
  <1> QED  BY <1>4, <1>6, <1>7, <1>8 DEF c

\* The pieces of a sequence, none of which is empty or too long.
LEMMA PiecesIn ==
    ASSUME NEW X, NEW s \in Seq(X), NEW size \in Nat \ {0}
    PROVE  /\ Pieces(s, size) \in Seq(Seq(X))
           /\ Len(Pieces(s, size)) = Count(Len(s), size)
           /\ \A i \in 1 .. Count(Len(s), size) :
                 /\ Pieces(s, size)[i] = SubSeq(s, (i - 1) * size + 1,
                                                IF i * size > Len(s) THEN Len(s) ELSE i * size)
                 /\ Len(Pieces(s, size)[i]) \in 1 .. size
  <1> DEFINE n == Len(s)  c == Count(n, size)  end(i) == IF i * size > n THEN n ELSE i * size
  <1>0. n \in Nat
    OBVIOUS
  <1>1. c \in Nat
    BY CountBounds
  <1>2. ASSUME NEW i \in 1 .. c
        PROVE  /\ (i - 1) * size + 1 \in 1 .. n /\ end(i) \in 1 .. n
               /\ end(i) - ((i - 1) * size + 1) + 1 \in 1 .. size
    <2>1. /\ (i - 1) * size \in Nat /\ (i - 1) * size < n
          /\ i * size \in Nat /\ i * size = (i - 1) * size + size
      BY PieceBounds
    <2> DEFINE a == (i - 1) * size  b == i * size
    <2>2. a \in Nat /\ b \in Nat /\ a < n /\ b = a + size
      BY <2>1, Zenon
    <2> HIDE DEF a, b, n
    <2>3. /\ a + 1 \in 1 .. n /\ (IF b > n THEN n ELSE b) \in 1 .. n
          /\ (IF b > n THEN n ELSE b) - (a + 1) + 1 \in 1 .. size
      BY <1>0, <2>2
    <2> QED  BY <2>3 DEF a, b
  <1>3. ASSUME NEW i \in 1 .. c
        PROVE  /\ SubSeq(s, (i - 1) * size + 1, end(i)) \in Seq(X)
               /\ Len(SubSeq(s, (i - 1) * size + 1, end(i))) \in 1 .. size
    <2> DEFINE a == (i - 1) * size + 1  b == end(i)
    <2>1. a \in 1 .. n /\ b \in 1 .. n /\ b - a + 1 \in 1 .. size
      BY <1>2, Zenon
    <2> HIDE DEF a, b
    <2>2. SubSeq(s, a, b) \in Seq(X) /\ Len(SubSeq(s, a, b)) \in 1 .. size
      BY <2>1
    <2> QED  BY <2>2 DEF a, b
  <1>4. Pieces(s, size) = [i \in 1 .. c |-> SubSeq(s, (i - 1) * size + 1, end(i))]
    BY Zenon DEF Pieces
  <1> HIDE DEF c, end
  <1>5. Pieces(s, size) \in [1 .. c -> Seq(X)]
    BY <1>3, <1>4, Zenon
  <1>6. Pieces(s, size) \in Seq(Seq(X)) /\ Len(Pieces(s, size)) = c
    BY <1>1, <1>5
  <1>7. \A i \in 1 .. c : /\ Pieces(s, size)[i] = SubSeq(s, (i - 1) * size + 1, end(i))
                         /\ Len(Pieces(s, size)[i]) \in 1 .. size
    BY <1>3, <1>4, Zenon
  <1> QED  BY <1>6, <1>7, Zenon DEF c, end

\* A beginning and the part after it are a longer beginning.
LEMMA SubSeqJoin ==
    ASSUME NEW X, NEW s \in Seq(X), NEW a \in 0 .. Len(s), NEW b \in a .. Len(s)
    PROVE  SubSeq(s, 1, a) \o SubSeq(s, a + 1, b) = SubSeq(s, 1, b)
  <1> DEFINE u == SubSeq(s, 1, a)  v == SubSeq(s, a + 1, b)  w == SubSeq(s, 1, b)
  <1>1. u \in Seq(X) /\ Len(u) = a /\ \A i \in 1 .. a : u[i] = s[i]
    OBVIOUS
  <1>2. v \in Seq(X) /\ Len(v) = b - a /\ \A i \in 1 .. b - a : v[i] = s[a + i]
    OBVIOUS
  <1>3. w \in Seq(X) /\ Len(w) = b /\ \A i \in 1 .. b : w[i] = s[i]
    OBVIOUS
  <1> HIDE DEF u, v, w
  <1>0. a \in Nat /\ b \in Nat /\ a + (b - a) = b
    OBVIOUS
  <1>4. /\ u \o v \in Seq(X) /\ Len(u \o v) = b
        /\ \A i \in 1 .. b : (u \o v)[i] = IF i <= a THEN u[i] ELSE v[i - a]
    <2>1. u \o v \in Seq(X)
      BY <1>1, <1>2, ConcatProperties, Zenon
    <2>2. /\ Len(u \o v) = Len(u) + Len(v)
          /\ \A i \in 1 .. Len(u) + Len(v) :
                (u \o v)[i] = IF i <= Len(u) THEN u[i] ELSE v[i - Len(u)]
      BY <1>1, <1>2, ConcatProperties, ZenonT(30)
    <2> QED  BY <1>0, <1>1, <1>2, <2>1, <2>2, Zenon
  <1>5. ASSUME NEW i \in 1 .. b  PROVE (u \o v)[i] = w[i]
    <2>1. CASE i <= a
      <3>1. i \in 1 .. a
        BY <1>0, <2>1
      <3> QED  BY <1>1, <1>3, <1>4, <2>1, <3>1, Zenon
    <2>2. CASE i > a
      <3>1. i - a \in 1 .. b - a /\ a + (i - a) = i /\ ~(i <= a)
        BY <1>0, <2>2
      <3> QED  BY <1>2, <1>3, <1>4, <3>1, Zenon
    <2>3. i <= a \/ i > a
      BY <1>0
    <2> QED  BY <2>1, <2>2, <2>3, Zenon
  <1>6. u \o v = w
    BY <1>3, <1>4, <1>5, SeqEqual, Zenon
  <1> QED  BY <1>6 DEF u, v, w

\* What is cut in pieces and put together again is what it was: the payloads of
\* ChunkMessage in order are the message, and the labels of EncodePayload one
\* after the other are the digits of the payload.
THEOREM JoinPieces ==
    ASSUME NEW X, NEW s \in Seq(X), NEW size \in Nat \ {0}
    PROVE  Join(Pieces(s, size)) = s
  <1> DEFINE n == Len(s)  c == Count(n, size)  p == Pieces(s, size)
             end(i) == IF i * size > n THEN n ELSE i * size
  <1>0. n \in Nat /\ c \in Nat /\ n <= c * size
    BY CountBounds
  <1>1. /\ p \in Seq(Seq(X)) /\ Len(p) = c
        /\ \A i \in 1 .. c : p[i] = SubSeq(s, (i - 1) * size + 1, end(i))
    BY PiecesIn, Zenon
  <1>2. PICK g \in [0 .. c -> Seq(X)] :
           /\ g[0] = << >>
           /\ \A i \in 1 .. c : g[i] = g[i - 1] \o p[i]
           /\ Join(p) = g[c]
    <2> HIDE DEF p, c
    <2>1. \E g \in [0 .. Len(p) -> Seq(X)] :
             /\ g[0] = << >>
             /\ \A i \in 1 .. Len(p) : g[i] = g[i - 1] \o p[i]
             /\ Join(p) = g[Len(p)]
      BY <1>1, JoinSteps, Zenon
    <2>2. Len(p) = c
      BY <1>1, Zenon
    <2> QED  BY <2>1, <2>2, Zenon
  <1> HIDE DEF p
  <1> DEFINE S == {i \in Nat : i <= c => g[i] = SubSeq(s, 1, end(i))}
  <1>3. 0 \in S
    <2>1. ~(0 * size > n) /\ 0 * size = 0 /\ SubSeq(s, 1, 0) = << >>
      BY <1>0
    <2> QED  BY <2>1, <1>2, Zenon
  <1>4. ASSUME NEW i \in Nat, i \in S  PROVE i + 1 \in S
    <2>0. i + 1 \in Nat
      OBVIOUS
    <2> SUFFICES ASSUME i + 1 <= c  PROVE g[i + 1] = SubSeq(s, 1, end(i + 1))
      BY <2>0, Zenon
    <2>1. i <= c /\ i + 1 \in 1 .. c /\ (i + 1) - 1 = i
      BY <1>0
    <2>2. /\ i * size \in Nat /\ i * size < n
          /\ (i + 1) * size \in Nat /\ (i + 1) * size = i * size + size
      <3>1. /\ ((i + 1) - 1) * size \in Nat /\ ((i + 1) - 1) * size < n
            /\ (i + 1) * size \in Nat /\ (i + 1) * size = ((i + 1) - 1) * size + size
        BY <1>0, <2>1, PieceBounds, ZenonT(30)
      <3> QED  BY <2>1, <3>1, Zenon
    <2> DEFINE a == i * size  b == end(i + 1)
    <2>3. a = end(i) /\ a \in 0 .. n /\ b \in a .. n
      BY <1>0, <2>2
    <2>4. g[i] = SubSeq(s, 1, a)
      BY <1>4, <2>1, <2>3, Zenon
    <2>5. p[i + 1] = SubSeq(s, a + 1, b)
      <3>1. p[i + 1] = SubSeq(s, ((i + 1) - 1) * size + 1, b)
        BY <1>1, <2>1, Zenon
      <3> QED  BY <2>1, <3>1, Zenon
    <2>6. g[i + 1] = g[i] \o p[i + 1]
      <3>1. g[i + 1] = g[(i + 1) - 1] \o p[i + 1]
        BY <1>2, <2>1, Zenon
      <3> QED  BY <2>1, <3>1, Zenon
    <2> HIDE DEF a, b
    <2>7. SubSeq(s, 1, a) \o SubSeq(s, a + 1, b) = SubSeq(s, 1, b)
      BY <2>3, SubSeqJoin, Zenon
    <2> QED  BY <2>4, <2>5, <2>6, <2>7, Zenon DEF b
  <1>5. Nat \subseteq S
    <2> HIDE DEF S
    <2> QED  BY <1>3, <1>4, Induction, Zenon
  <1>6. end(c) = n /\ c <= c /\ SubSeq(s, 1, n) = s
    <2>1. end(c) = n
      <3> DEFINE m == c * size
      <3>1. m \in Nat /\ n <= m
        BY <1>0
      <3> HIDE DEF m, n, c
      <3>2. (IF m > n THEN n ELSE m) = n
        BY <1>0, <3>1
      <3> QED  BY <3>2 DEF m
    <2>2. c <= c /\ SubSeq(s, 1, n) = s
      BY <1>0
    <2> QED  BY <2>1, <2>2
  <1>7. g[c] = SubSeq(s, 1, end(c))
    BY <1>0, <1>5, <1>6, Zenon
  <1>8. g[c] = s
    BY <1>6, <1>7, Zenon
  <1> QED  BY <1>2, <1>8, Zenon DEF p

\* The two have the same length and differ in one place at most.
Near(v, w) ==
    /\ Len(w) = Len(v)
    /\ \E q \in 1 .. Len(v) : \A j \in 1 .. Len(v) : j # q => w[j] = v[j]

\* The same beginning ...
LEMMA NearAfter ==
    ASSUME NEW X, NEW x \in Seq(X), NEW v \in Seq(X), NEW w \in Seq(X), Near(v, w)
    PROVE  Near(x \o v, x \o w)
  <1>1. PICK q \in 1 .. Len(v) : \A j \in 1 .. Len(v) : j # q => w[j] = v[j]
    BY Zenon DEF Near
  <1>2. Len(w) = Len(v) /\ Len(v) \in Nat /\ Len(x) \in Nat
    BY DEF Near
  <1>5. /\ Len(x \o v) = Len(x) + Len(v) /\ Len(x \o w) = Len(x) + Len(v)
        /\ \A j \in 1 .. Len(x) + Len(v) :
              /\ (x \o v)[j] = IF j <= Len(x) THEN x[j] ELSE v[j - Len(x)]
              /\ (x \o w)[j] = IF j <= Len(x) THEN x[j] ELSE w[j - Len(x)]
    <2>1. /\ Len(x \o v) = Len(x) + Len(v)
          /\ \A j \in 1 .. Len(x) + Len(v) :
                (x \o v)[j] = IF j <= Len(x) THEN x[j] ELSE v[j - Len(x)]
      BY ConcatProperties, Zenon
    <2>2. /\ Len(x \o w) = Len(x) + Len(w)
          /\ \A j \in 1 .. Len(x) + Len(w) :
                (x \o w)[j] = IF j <= Len(x) THEN x[j] ELSE w[j - Len(x)]
      BY ConcatProperties, Zenon
    <2> QED  BY <1>2, <2>1, <2>2, Zenon
  <1>3. Len(x) + q \in 1 .. Len(x \o v) /\ Len(x \o w) = Len(x \o v)
    BY <1>2, <1>5
  <1>4. ASSUME NEW j \in 1 .. Len(x \o v), j # Len(x) + q  PROVE (x \o w)[j] = (x \o v)[j]
    <2>0. j \in 1 .. Len(x) + Len(v)
      BY <1>5
    <2>1. CASE j <= Len(x)
      BY <2>0, <2>1, <1>5, Zenon
    <2>2. CASE j > Len(x)
      <3>1. j - Len(x) \in 1 .. Len(v) /\ j - Len(x) # q /\ ~(j <= Len(x))
        BY <2>0, <2>2, <1>4, <1>2
      <3>2. w[j - Len(x)] = v[j - Len(x)]
        BY <3>1, <1>1, Zenon
      <3>3. (x \o w)[j] = w[j - Len(x)] /\ (x \o v)[j] = v[j - Len(x)]
        BY <2>0, <3>1, <1>5, Zenon
      <3> QED  BY <3>2, <3>3, Zenon
    <2>3. j <= Len(x) \/ j > Len(x)
      BY <1>2, <2>0
    <2> QED  BY <2>1, <2>2, <2>3, Zenon
  <1> QED  BY <1>3, <1>4, Zenon DEF Near

\* ... and the same end change nothing about that.
LEMMA NearBefore ==
    ASSUME NEW X, NEW x \in Seq(X), NEW v \in Seq(X), NEW w \in Seq(X), Near(v, w)
    PROVE  Near(v \o x, w \o x)
  <1>1. PICK q \in 1 .. Len(v) : \A j \in 1 .. Len(v) : j # q => w[j] = v[j]
    BY Zenon DEF Near
  <1>2. Len(w) = Len(v) /\ Len(v) \in Nat /\ Len(x) \in Nat
    BY DEF Near
  <1>5. /\ Len(v \o x) = Len(v) + Len(x) /\ Len(w \o x) = Len(v) + Len(x)
        /\ \A j \in 1 .. Len(v) + Len(x) :
              /\ (v \o x)[j] = IF j <= Len(v) THEN v[j] ELSE x[j - Len(v)]
              /\ (w \o x)[j] = IF j <= Len(v) THEN w[j] ELSE x[j - Len(v)]
    <2>1. /\ Len(v \o x) = Len(v) + Len(x)
          /\ \A j \in 1 .. Len(v) + Len(x) :
                (v \o x)[j] = IF j <= Len(v) THEN v[j] ELSE x[j - Len(v)]
      BY ConcatProperties, Zenon
    <2>2. /\ Len(w \o x) = Len(w) + Len(x)
          /\ \A j \in 1 .. Len(w) + Len(x) :
                (w \o x)[j] = IF j <= Len(w) THEN w[j] ELSE x[j - Len(w)]
      BY ConcatProperties, Zenon
    <2> QED  BY <1>2, <2>1, <2>2, Zenon
  <1>3. q \in 1 .. Len(v \o x) /\ Len(w \o x) = Len(v \o x)
    BY <1>2, <1>5
  <1>4. ASSUME NEW j \in 1 .. Len(v \o x), j # q  PROVE (w \o x)[j] = (v \o x)[j]
    <2>0. j \in 1 .. Len(v) + Len(x)
      BY <1>5, Zenon
    <2>1. CASE j <= Len(v)
      <3>1. j \in 1 .. Len(v)
        BY <1>2, <2>0, <2>1
      <3> QED  BY <1>1, <1>4, <1>5, <2>0, <2>1, <3>1, Zenon
    <2>2. CASE ~(j <= Len(v))
      BY <1>5, <2>0, <2>2, Zenon
    <2> QED  BY <2>1, <2>2, Zenon
  <1> QED  BY <1>3, <1>4, Zenon DEF Near

\* Labels of which one has changed in one digit have, one after the other,
\* changed in one digit.
LEMMA JoinAltered ==
    ASSUME NEW X, NEW t \in Seq(Seq(X)), NEW u \in Seq(Seq(X)), Len(u) = Len(t),
           NEW l \in 1 .. Len(t), Near(t[l], u[l]),
           \A i \in 1 .. Len(t) : i # l => u[i] = t[i]
    PROVE  /\ Join(t) \in Seq(X) /\ Join(u) \in Seq(X)
           /\ Near(Join(t), Join(u))
  <1> DEFINE n == Len(t)
  <1>0. n \in Nat /\ l \in 1 .. n /\ \A i \in 1 .. n : t[i] \in Seq(X) /\ u[i] \in Seq(X)
    OBVIOUS
  <1>1. PICK g \in [0 .. n -> Seq(X)] :
           g[0] = << >> /\ (\A i \in 1 .. n : g[i] = g[i - 1] \o t[i]) /\ Join(t) = g[n]
    BY JoinSteps, Zenon
  <1>2. PICK h \in [0 .. n -> Seq(X)] :
           h[0] = << >> /\ (\A i \in 1 .. n : h[i] = h[i - 1] \o u[i]) /\ Join(u) = h[n]
    <2>1. \E h \in [0 .. Len(u) -> Seq(X)] :
             /\ h[0] = << >>
             /\ \A i \in 1 .. Len(u) : h[i] = h[i - 1] \o u[i]
             /\ Join(u) = h[Len(u)]
      BY JoinSteps, Zenon
    <2> QED  BY <2>1, Zenon
  <1> HIDE DEF n
  <1> DEFINE S == {i \in Nat : i <= n => IF i < l THEN h[i] = g[i] ELSE Near(g[i], h[i])}
  <1>6. 0 \in S
    <2>1. 0 < l
      BY <1>0
    <2> QED  BY <1>1, <1>2, <2>1, Zenon
  <1>7. ASSUME NEW i \in Nat, i \in S  PROVE i + 1 \in S
    <2>0. i + 1 \in Nat
      OBVIOUS
    <2> SUFFICES ASSUME i + 1 <= n  PROVE IF i + 1 < l THEN h[i + 1] = g[i + 1] ELSE Near(g[i + 1], h[i + 1])
      BY <2>0, Zenon
    <2>1. i <= n /\ i \in 0 .. n /\ i + 1 \in 1 .. n /\ (i + 1) - 1 = i
      BY <1>0
    <2>2. g[i + 1] = g[i] \o t[i + 1] /\ h[i + 1] = h[i] \o u[i + 1]
      <3>1. g[i + 1] = g[(i + 1) - 1] \o t[i + 1] /\ h[i + 1] = h[(i + 1) - 1] \o u[i + 1]
        BY <1>1, <1>2, <2>1, Zenon
      <3> QED  BY <2>1, <3>1, Zenon
    <2>3. g[i] \in Seq(X) /\ h[i] \in Seq(X) /\ t[i + 1] \in Seq(X) /\ u[i + 1] \in Seq(X)
      BY <1>0, <2>1, Zenon
    <2>4. i + 1 # l => u[i + 1] = t[i + 1]
      BY <2>1, Zenon DEF n
    <2>5. IF i < l THEN h[i] = g[i] ELSE Near(g[i], h[i])
      BY <1>7, <2>1, Zenon
    <2>6. CASE i + 1 < l
      <3>1. i < l /\ i + 1 # l
        BY <1>0, <2>6
      <3> QED  BY <2>2, <2>4, <2>5, <2>6, <3>1, Zenon
    <2>7. CASE i + 1 = l
      <3>1. i < l /\ ~(i + 1 < l)
        BY <1>0, <2>7
      <3> QED  BY <2>2, <2>3, <2>5, <2>7, <3>1, NearAfter, Zenon
    <2>8. CASE i + 1 > l
      <3>1. ~(i < l) /\ i + 1 # l /\ ~(i + 1 < l)
        BY <1>0, <2>8
      <3> QED  BY <2>2, <2>3, <2>4, <2>5, <3>1, NearBefore, Zenon
    <2>9. i + 1 < l \/ i + 1 = l \/ i + 1 > l
      <3>1. l \in Nat
        BY <1>0
      <3> QED  BY <3>1
    <2> QED  BY <2>6, <2>7, <2>8, <2>9
  <1>8. Nat \subseteq S
    <2> HIDE DEF S
    <2> QED  BY <1>6, <1>7, Induction, Zenon
  <1>9. n \in 0 .. n /\ n <= n /\ ~(n < l)
    BY <1>0
  <1>10. g[n] \in Seq(X) /\ h[n] \in Seq(X) /\ Near(g[n], h[n])
    BY <1>0, <1>8, <1>9, Zenon
  <1> QED  BY <1>1, <1>2, <1>10, Zenon

-----------------------------------------------------------------------------
(***************************************************************************)
(* The labels of a chunk.                                                  *)
(***************************************************************************)
\* Numbers of 16 bits, as the labels of a chunk carry them.
Word == 0 .. 2^16 - 1

\* The conversion to uint16 gives a number that a label can carry, and changes
\* nothing below 2^Width.
LEMMA WrapIn ==
    ASSUME NEW n \in Nat
    PROVE  Wrap(n) \in 0 .. 2^Width - 1 /\ Wrap(n) \in Word /\ (n < 2^Width => Wrap(n) = n)
  <1> DEFINE m == 2^Width
  <1>1. m \in 1 .. 2^16
    BY EncodingAssumption, Zenon
  <1> HIDE DEF m
  <1>2. n % m \in 0 .. m - 1 /\ n % m \in 0 .. 2^16 - 1 /\ (n < m => n % m = n)
    BY <1>1
  <1> QED  BY <1>2 DEF m, Wrap, Word

\* A number of 16 bits is two bytes and back.
LEMMA WordBytes ==
    ASSUME NEW n \in Word
    PROVE  /\ Bytes16(n) \in Seq(Byte) /\ Len(Bytes16(n)) = 2
           /\ 256 * Bytes16(n)[1] + Bytes16(n)[2] = n
  <1>1. n \div 256 \in Byte /\ n % 256 \in Byte /\ 256 * (n \div 256) + (n % 256) = n
    BY DEF Word, Byte
  <1>2. <<n \div 256, n % 256>> \in Seq(Byte)
    BY <1>1
  <1> QED  BY <1>1, <1>2 DEF Bytes16

\* An encoding consists of digits and has a length the decoder takes.
LEMMA EncodeIn ==
    ASSUME NEW s \in Seq(Byte)
    PROVE  Encode32(s) \in Seq(Digit) /\ Valid32(Encode32(s))
  <1> DEFINE n == (8 * Len(s) + 4) \div 5
  <1>1. n \in Nat /\ n % 8 \in {0, 2, 4, 5, 7}
    OBVIOUS
  <1>2. Len(Encode32(s)) = n /\ DOMAIN Encode32(s) = 1 .. n
    BY EncodeLen, Zenon DEF Encode32
  <1>3. \A j \in 1 .. n : Encode32(s)[j] \in Digit
    BY <1>2, EncodeDigit, Zenon
  <1>4. Encode32(s) = [j \in 1 .. n |-> Encode32(s)[j]]
    BY Zenon DEF Encode32
  <1> HIDE DEF n
  <1>5. Encode32(s) \in [1 .. n -> Digit]
    BY <1>3, <1>4, Zenon
  <1> QED  BY <1>1, <1>2, <1>5 DEF Valid32

\* The sequence l is h, then the four of f, then p.
LaidOut(l, h, f, p, X) ==
    /\ l \in Seq(X) /\ Len(l) = Len(h) + 4 + Len(p)
    /\ \A i \in 1 .. Len(h) : l[i] = h[i]
    /\ \A i \in 1 .. 4 : l[Len(h) + i] = f[i]
    /\ SubSeq(l, Len(h) + 5, Len(l)) = p

\* So it is when it was put together from them.
LEMMA Layout ==
    ASSUME NEW X, NEW h \in Seq(X), NEW f \in Seq(X), Len(f) = 4, NEW p \in Seq(X)
    PROVE  LaidOut(h \o f \o p, h, f, p, X)
  <1> DEFINE l == h \o f \o p
  <1> DEFINE g == h \o f
  <1>0. Len(h) \in Nat /\ Len(p) \in Nat
    OBVIOUS
  <1>1. /\ g \in Seq(X) /\ Len(g) = Len(h) + Len(f)
        /\ \A i \in 1 .. Len(h) + Len(f) : g[i] = IF i <= Len(h) THEN h[i] ELSE f[i - Len(h)]
    BY ConcatProperties, Zenon
  <1> HIDE DEF g
  <1>2. /\ g \o p \in Seq(X) /\ Len(g \o p) = Len(g) + Len(p)
        /\ \A i \in 1 .. Len(g) + Len(p) : (g \o p)[i] = IF i <= Len(g) THEN g[i] ELSE p[i - Len(g)]
    <2>1. g \in Seq(X)
      BY <1>1, Zenon
    <2> QED  BY <2>1, ConcatProperties, Zenon
  <1>3. l = g \o p
    BY Zenon DEF g
  <1> HIDE DEF l
  <1>4. Len(g) = Len(h) + 4
    BY <1>1, Zenon
  <1>5. /\ l \in Seq(X) /\ Len(l) = Len(h) + 4 + Len(p)
        /\ \A i \in 1 .. Len(h) + 4 + Len(p) : l[i] = IF i <= Len(h) + 4 THEN g[i] ELSE p[i - (Len(h) + 4)]
    BY <1>2, <1>3, <1>4, Zenon
  <1>6. ASSUME NEW i \in 1 .. Len(h)  PROVE l[i] = h[i]
    <2>1. i \in 1 .. Len(h) + 4 + Len(p) /\ i <= Len(h) + 4 /\ i <= Len(h) /\ i \in 1 .. Len(h) + Len(f)
      BY <1>0
    <2> QED  BY <2>1, <1>1, <1>5, Zenon
  <1>7. ASSUME NEW i \in 1 .. 4  PROVE l[Len(h) + i] = f[i]
    <2>1. /\ Len(h) + i \in 1 .. Len(h) + 4 + Len(p) /\ Len(h) + i <= Len(h) + 4
          /\ ~(Len(h) + i <= Len(h)) /\ Len(h) + i \in 1 .. Len(h) + Len(f) /\ (Len(h) + i) - Len(h) = i
      BY <1>0
    <2>2. l[Len(h) + i] = g[Len(h) + i]
      BY <2>1, <1>5, Zenon
    <2>3. g[Len(h) + i] = f[(Len(h) + i) - Len(h)]
      BY <2>1, <1>1, Zenon
    <2> QED  BY <2>1, <2>2, <2>3, Zenon
  <1>8. ASSUME NEW i \in 1 .. Len(p)  PROVE l[Len(h) + 4 + i] = p[i]
    <2>1. /\ Len(h) + 4 + i \in 1 .. Len(h) + 4 + Len(p) /\ ~(Len(h) + 4 + i <= Len(h) + 4)
          /\ (Len(h) + 4 + i) - (Len(h) + 4) = i
      BY <1>0
    <2>2. l[Len(h) + 4 + i] = p[(Len(h) + 4 + i) - (Len(h) + 4)]
      BY <2>1, <1>5, Zenon
    <2> QED  BY <2>1, <2>2, Zenon
  <1>9. SubSeq(l, Len(h) + 5, Len(l)) = p
    <2> DEFINE q == SubSeq(l, Len(h) + 5, Len(l))
    <2>1. /\ q \in Seq(X) /\ Len(q) = Len(p) /\ \A i \in 1 .. Len(p) : q[i] = l[Len(h) + 4 + i]
      BY <1>0, <1>5, SMTT(30)
    <2> HIDE DEF q
    <2>2. \A i \in 1 .. Len(p) : q[i] = p[i]
      BY <2>1, <1>8, Zenon
    <2>3. q = p
      BY <2>1, <2>2, SeqEqual, Zenon
    <2> QED  BY <2>3 DEF q
  <1>10. LaidOut(l, h, f, p, X)
    BY <1>5, <1>6, <1>7, <1>9, Zenon DEF LaidOut
  <1> QED  BY <1>10, Zenon DEF l

\* The chunks of encoding.go.
Chunk == [MsgID : Seq(Byte), ChunkIdx : Word, TotalChunks : Word, Checksum : Word,
          Payload : Seq(Byte), RecipientHash : Seq(Byte)]

\* A chunk with the 8 bytes of an id, and no recipient hash or the 32 bytes of
\* one: the only ones NewChunk is called for.
Sendable(c) == c \in Chunk /\ Len(c.MsgID) = 8 /\ (c.RecipientHash = <<>> \/ Len(c.RecipientHash) = 32)

\* The label of the recipient hash, if there is one.
HashLabel(c) == IF c.RecipientHash # <<>> THEN <<Encode32(c.RecipientHash)>> ELSE <<>>

\* The labels l of the chunk c, of which those after the first s are the ones
\* every chunk has.
Labelled(c, l, s) ==
    /\ s \in 0 .. 1 /\ (s = 1 => c.RecipientHash # <<>>) /\ (s = 0 => c.RecipientHash = <<>>)
    /\ l \in Seq(Seq(Digit)) /\ Len(l) = s + 4 + Len(EncodePayload(c.Payload))
    /\ s = 1 => l[1] = Encode32(c.RecipientHash)
    /\ l[s + 1] = Encode32(c.MsgID) /\ l[s + 2] = Encode32(Bytes16(c.ChunkIdx))
    /\ l[s + 3] = Encode32(Bytes16(c.TotalChunks)) /\ l[s + 4] = Encode32(Bytes16(c.Checksum))
    /\ SubSeq(l, s + 5, Len(l)) = EncodePayload(c.Payload)
    /\ EncodePayload(c.Payload) \in Seq(Seq(Digit))

\* EncodeToLabels makes such labels, and the decoder finds where the hash ends:
\* the 13 digits of an id are not the 52 of a hash.
LEMMA Labels ==
    ASSUME NEW c, Sendable(c)
    PROVE  Labelled(c, EncodeToLabels(c), idxStart(EncodeToLabels(c)))
  <1> DEFINE l == EncodeToLabels(c)  s == idxStart(l)
  <1> DEFINE h == HashLabel(c)
             f == <<Encode32(c.MsgID), Encode32(Bytes16(c.ChunkIdx)),
                    Encode32(Bytes16(c.TotalChunks)), Encode32(Bytes16(c.Checksum))>>
             p == EncodePayload(c.Payload)
  <1>1. /\ c.MsgID \in Seq(Byte) /\ c.ChunkIdx \in Word /\ c.TotalChunks \in Word /\ c.Checksum \in Word
        /\ c.Payload \in Seq(Byte) /\ c.RecipientHash \in Seq(Byte) /\ Len(c.MsgID) = 8
        /\ (c.RecipientHash = <<>> \/ Len(c.RecipientHash) = 32)
    BY Zenon DEF Sendable, Chunk
  <1>2. /\ Encode32(c.RecipientHash) \in Seq(Digit)
        /\ Encode32(c.MsgID) \in Seq(Digit) /\ Encode32(Bytes16(c.ChunkIdx)) \in Seq(Digit)
        /\ Encode32(Bytes16(c.TotalChunks)) \in Seq(Digit) /\ Encode32(Bytes16(c.Checksum)) \in Seq(Digit)
    BY <1>1, EncodeIn, WordBytes, Zenon
  <1>3. h \in Seq(Seq(Digit)) /\ (h = <<>> \/ h = <<Encode32(c.RecipientHash)>>)
    <2>1. <<>> \in Seq(Seq(Digit)) /\ <<Encode32(c.RecipientHash)>> \in Seq(Seq(Digit))
      BY <1>2
    <2> QED  BY <2>1, Zenon DEF HashLabel
  <1>4. f \in Seq(Seq(Digit)) /\ Len(f) = 4
    BY <1>2
  <1>5. p \in Seq(Seq(Digit))
    <2>1. Encode32(c.Payload) \in Seq(Digit) /\ MaxLabel \in Nat \ {0}
      BY <1>1, EncodeIn DEF MaxLabel
    <2> QED  BY <2>1, PiecesIn, Zenon DEF EncodePayload
  <1>6. l = h \o f \o p
    BY Zenon DEF EncodeToLabels, HashLabel
  <1> HIDE DEF l
  <1>7. /\ f[1] = Encode32(c.MsgID) /\ f[2] = Encode32(Bytes16(c.ChunkIdx))
        /\ f[3] = Encode32(Bytes16(c.TotalChunks)) /\ f[4] = Encode32(Bytes16(c.Checksum))
    BY Zenon
  <1> HIDE DEF h, f, p
  <1>8. /\ l \in Seq(Seq(Digit)) /\ Len(l) = Len(h) + 4 + Len(p)
        /\ \A i \in 1 .. Len(h) : l[i] = h[i]
        /\ \A i \in 1 .. 4 : l[Len(h) + i] = f[i]
        /\ SubSeq(l, Len(h) + 5, Len(l)) = p
    <2> DEFINE X == Seq(Digit)
    <2>1. h \in Seq(X) /\ f \in Seq(X) /\ Len(f) = 4 /\ p \in Seq(X)
      BY <1>3, <1>4, <1>5
    <2> HIDE DEF X
    <2>2. LaidOut(h \o f \o p, h, f, p, X)
      BY <2>1, Layout, Zenon
    <2> QED  BY <2>2, <1>6, Zenon DEF LaidOut, X
  <1>9. 1 \in 1 .. 4 /\ 2 \in 1 .. 4 /\ 3 \in 1 .. 4 /\ 4 \in 1 .. 4
    OBVIOUS
  <1>10. /\ Len(h) = s /\ s \in 0 .. 1 /\ (s = 1 => c.RecipientHash # <<>>)
         /\ (s = 0 => c.RecipientHash = <<>>)
         /\ s = 1 => l[1] = Encode32(c.RecipientHash)
    <2>1. CASE c.RecipientHash = <<>>
      <3>1. h = <<>>
        BY <2>1, Zenon DEF h, HashLabel
      <3>2. Len(h) = 0
        BY <3>1
      <3>3. l[0 + 1] = f[1]
        BY <1>8, <1>9, <3>2, Zenon
      <3>4. l[1] = Encode32(c.MsgID)
        BY <3>3, <1>7
      <3>5. Len(l[1]) = 13
        <4>1. Len(l[1]) = (8 * 8 + 4) \div 5
          BY <3>4, <1>1, EncodeLen, Zenon
        <4>2. (8 * 8 + 4) \div 5 = 13
          OBVIOUS
        <4> QED  BY <4>1, <4>2, Zenon
      <3>6. s = 0
        BY <3>5 DEF idxStart
      <3> QED  BY <3>2, <3>6, <2>1
    <2>2. CASE Len(c.RecipientHash) = 32
      <3>0. c.RecipientHash # <<>>
        <4>1. \A t : t = <<>> => Len(t) = 0
          OBVIOUS
        <4>2. 0 # 32
          OBVIOUS
        <4> QED  BY <2>2, <4>1, <4>2, Zenon
      <3>1. h = <<Encode32(c.RecipientHash)>>
        BY <3>0, Zenon DEF h, HashLabel
      <3>2. Len(h) = 1 /\ h[1] = Encode32(c.RecipientHash) /\ 1 \in 1 .. 1
        BY <3>1
      <3>3. l[1] = Encode32(c.RecipientHash)
        BY <1>8, <3>2, Zenon
      <3>5. Len(l[1]) = 52
        <4>1. Len(l[1]) = (8 * 32 + 4) \div 5
          BY <3>3, <2>2, <1>1, EncodeLen, Zenon
        <4>2. (8 * 32 + 4) \div 5 = 52
          OBVIOUS
        <4> QED  BY <4>1, <4>2, Zenon
      <3>6. s = 1
        BY <3>5 DEF idxStart
      <3> QED  BY <3>2, <3>3, <3>6, <3>0
    <2> QED  BY <1>1, <2>1, <2>2
  <1>11. l[s + 1] = f[1] /\ l[s + 2] = f[2] /\ l[s + 3] = f[3] /\ l[s + 4] = f[4]
    BY <1>8, <1>9, <1>10, Zenon
  <1>12. Len(l) = s + 4 + Len(p) /\ SubSeq(l, s + 5, Len(l)) = p
    BY <1>8, <1>10, Zenon
  <1> HIDE DEF l, s
  <1>13. Labelled(c, l, s)
    BY <1>5, <1>7, <1>8, <1>10, <1>11, <1>12, Zenon DEF p, Labelled
  <1> QED  BY <1>13, Zenon DEF l, s

\* The fields of such a chunk.
LEMMA SendableFields ==
    ASSUME NEW c, Sendable(c)
    PROVE  /\ c.MsgID \in Seq(Byte) /\ c.ChunkIdx \in Word /\ c.TotalChunks \in Word /\ c.Checksum \in Word
           /\ c.Payload \in Seq(Byte) /\ c.RecipientHash \in Seq(Byte) /\ Len(c.MsgID) = 8
           /\ (c.RecipientHash = <<>> \/ Len(c.RecipientHash) = 32)
           /\ c = [MsgID |-> c.MsgID, ChunkIdx |-> c.ChunkIdx, TotalChunks |-> c.TotalChunks,
                   Checksum |-> c.Checksum, Payload |-> c.Payload, RecipientHash |-> c.RecipientHash]
  BY Zenon DEF Sendable, Chunk

\* The chunk with another payload.
WithPayload(c, p) ==
    [MsgID |-> c.MsgID, ChunkIdx |-> c.ChunkIdx, TotalChunks |-> c.TotalChunks,
     Checksum |-> c.Checksum, Payload |-> p, RecipientHash |-> c.RecipientHash]

\* A number survives its label.
LEMMA NumberDecodes ==
    ASSUME NEW n \in Word, NEW e, e = Encode32(Bytes16(n))
    PROVE  /\ 256 * Decode32(e)[1] + Decode32(e)[2] = n
           /\ Valid32(e) /\ Len(Decode32(e)) = 2
  <1>1. Decode32(e) = Bytes16(n) /\ Valid32(e)
    BY WordBytes, DecodeEncode, EncodeIn, Zenon
  <1> QED  BY <1>1, WordBytes, ZenonT(30)

\* Labels that are those of a chunk as far as the payload decode to the chunk,
\* except for the payload.
LEMMA HeadDecodes ==
    ASSUME NEW c, Sendable(c), NEW m,
           Len(m) = Len(EncodeToLabels(c)), Len(m[1]) = Len(EncodeToLabels(c)[1]),
           \A i \in 1 .. idxStart(EncodeToLabels(c)) + 4 : m[i] = EncodeToLabels(c)[i]
    PROVE  /\ idxStart(m) = idxStart(EncodeToLabels(c))
           /\ Decodes(m) <=> Valid32(PayloadDigits(m))
           /\ DecodeChunkFromLabels(m) = WithPayload(c, Decode32(PayloadDigits(m)))
  <1> DEFINE l == EncodeToLabels(c)  s == idxStart(l)
  <1>0. Labelled(c, l, s)
    BY Labels, Zenon
  <1>2. idxStart(m) = s
    BY Zenon DEF idxStart
  <1> HIDE DEF s, l
  <1>1. /\ s \in 0 .. 1 /\ (s = 1 => c.RecipientHash # <<>>) /\ (s = 0 => c.RecipientHash = <<>>)
        /\ Len(l) = s + 4 + Len(EncodePayload(c.Payload))
        /\ s = 1 => l[1] = Encode32(c.RecipientHash)
        /\ l[s + 1] = Encode32(c.MsgID) /\ l[s + 2] = Encode32(Bytes16(c.ChunkIdx))
        /\ l[s + 3] = Encode32(Bytes16(c.TotalChunks)) /\ l[s + 4] = Encode32(Bytes16(c.Checksum))
        /\ EncodePayload(c.Payload) \in Seq(Seq(Digit))
    BY <1>0, Zenon DEF Labelled
  <1>3. /\ 1 \in 1 .. s + 4 /\ s + 1 \in 1 .. s + 4 /\ s + 2 \in 1 .. s + 4 /\ s + 3 \in 1 .. s + 4
        /\ s + 4 \in 1 .. s + 4
    BY <1>1
  <1>4. /\ m[1] = l[1] /\ m[s + 1] = l[s + 1] /\ m[s + 2] = l[s + 2] /\ m[s + 3] = l[s + 3]
        /\ m[s + 4] = l[s + 4]
    BY <1>3, Zenon DEF s, l
  <1>14. /\ m[s + 1] = Encode32(c.MsgID) /\ m[s + 2] = Encode32(Bytes16(c.ChunkIdx))
         /\ m[s + 3] = Encode32(Bytes16(c.TotalChunks)) /\ m[s + 4] = Encode32(Bytes16(c.Checksum))
    BY <1>1, <1>4, Zenon
  <1>15. /\ c.MsgID \in Seq(Byte) /\ c.ChunkIdx \in Word /\ c.TotalChunks \in Word
         /\ c.Checksum \in Word /\ c.RecipientHash \in Seq(Byte) /\ Len(c.MsgID) = 8
    BY SendableFields, Zenon
  <1>5. Len(m) >= 4 /\ Len(m) - s >= 4
    <2>1. Len(EncodePayload(c.Payload)) \in Nat
      BY <1>1
    <2>2. Len(m) = s + 4 + Len(EncodePayload(c.Payload))
      BY <1>1, Zenon DEF l
    <2> QED  BY <2>1, <2>2, <1>1
  <1>6. /\ Decode32(m[s + 1]) = c.MsgID /\ Valid32(m[s + 1]) /\ Len(Decode32(m[s + 1])) = 8
    BY <1>14, <1>15, DecodeEncode, EncodeIn, Zenon
  <1>7. /\ 256 * Decode32(m[s + 2])[1] + Decode32(m[s + 2])[2] = c.ChunkIdx
        /\ Valid32(m[s + 2]) /\ Len(Decode32(m[s + 2])) = 2
    BY <1>14, <1>15, NumberDecodes, Zenon
  <1>8. /\ 256 * Decode32(m[s + 3])[1] + Decode32(m[s + 3])[2] = c.TotalChunks
        /\ Valid32(m[s + 3]) /\ Len(Decode32(m[s + 3])) = 2
    BY <1>14, <1>15, NumberDecodes, Zenon
  <1>9. /\ 256 * Decode32(m[s + 4])[1] + Decode32(m[s + 4])[2] = c.Checksum
        /\ Valid32(m[s + 4]) /\ Len(Decode32(m[s + 4])) = 2
    BY <1>14, <1>15, NumberDecodes, Zenon
  <1>10. (IF s = 1 THEN Decode32(m[1]) ELSE <<>>) = c.RecipientHash
    <2>1. CASE s = 1
      <3>1. m[1] = Encode32(c.RecipientHash)
        BY <1>1, <1>4, <2>1, Zenon
      <3> QED  BY <2>1, <3>1, <1>15, DecodeEncode, Zenon
    <2>2. CASE s = 0
      <3>1. s # 1
        BY <2>2
      <3> QED  BY <1>1, <2>2, <3>1, Zenon
    <2> QED  BY <1>1, <2>1, <2>2
  <1>11. Decodes(m) <=> Valid32(PayloadDigits(m))
    <2>1. \A i \in 1 .. 4 : i = 1 \/ i = 2 \/ i = 3 \/ i = 4
      OBVIOUS
    <2>2. \A i \in 2 .. 4 : i = 2 \/ i = 3 \/ i = 4
      OBVIOUS
    <2>3. \A i \in 1 .. 4 : Valid32(m[s + i])
      BY <2>1, <1>6, <1>7, <1>8, <1>9, Zenon
    <2>4. \A i \in 2 .. 4 : Len(Decode32(m[s + i])) = 2
      BY <2>2, <1>7, <1>8, <1>9, Zenon
    <2> QED  BY <2>3, <2>4, <1>2, <1>5, <1>6, Zenon DEF Decodes
  <1>12. DecodeChunkFromLabels(m) =
            [MsgID |-> Decode32(m[s + 1]),
             ChunkIdx |-> 256 * Decode32(m[s + 2])[1] + Decode32(m[s + 2])[2],
             TotalChunks |-> 256 * Decode32(m[s + 3])[1] + Decode32(m[s + 3])[2],
             Checksum |-> 256 * Decode32(m[s + 4])[1] + Decode32(m[s + 4])[2],
             Payload |-> Decode32(PayloadDigits(m)),
             RecipientHash |-> IF s = 1 THEN Decode32(m[1]) ELSE <<>>]
    BY <1>2, Zenon DEF DecodeChunkFromLabels
  <1>13. DecodeChunkFromLabels(m) = WithPayload(c, Decode32(PayloadDigits(m)))
    BY <1>6, <1>7, <1>8, <1>9, <1>10, <1>12 DEF WithPayload
  <1> QED  BY <1>2, <1>11, <1>13, Zenon DEF s, l

\* The decoder finds the digits of the payload.
LEMMA DigitsOfPayload ==
    ASSUME NEW c, Sendable(c)
    PROVE  PayloadDigits(EncodeToLabels(c)) = Encode32(c.Payload)
  <1> DEFINE l == EncodeToLabels(c)
  <1>1. PayloadDigits(l) = Join(EncodePayload(c.Payload))
    BY Labels, Zenon DEF PayloadDigits, Labelled
  <1>2. Encode32(c.Payload) \in Seq(Digit)
    BY SendableFields, EncodeIn, Zenon
  <1>3. MaxLabel \in Nat \ {0}
    BY DEF MaxLabel
  <1> QED  BY <1>1, <1>2, <1>3, JoinPieces, Zenon DEF EncodePayload

\* DecodeChunkFromLabels accepts the labels EncodeToLabels makes of a chunk,
\* with or without a recipient hash, and makes of them the same chunk, whatever
\* its number, checksum and payload.
THEOREM LabelsDecode ==
    ASSUME NEW c, Sendable(c)
    PROVE  /\ Decodes(EncodeToLabels(c))
           /\ DecodeChunkFromLabels(EncodeToLabels(c)) = c
  <1>1. c.Payload \in Seq(Byte)
    BY SendableFields, Zenon
  <1>2. Valid32(Encode32(c.Payload)) /\ Decode32(Encode32(c.Payload)) = c.Payload
    BY <1>1, EncodeIn, DecodeEncode, Zenon
  <1>3. /\ Decodes(EncodeToLabels(c)) <=> Valid32(Encode32(c.Payload))
        /\ DecodeChunkFromLabels(EncodeToLabels(c)) = WithPayload(c, Decode32(Encode32(c.Payload)))
    BY HeadDecodes, DigitsOfPayload, Zenon
  <1>4. WithPayload(c, c.Payload) = c
    BY SendableFields, Zenon DEF WithPayload
  <1> QED  BY <1>2, <1>3, <1>4, Zenon

-----------------------------------------------------------------------------
(***************************************************************************)
(* An altered digit.                                                       *)
(***************************************************************************)
\* Digits of which one has changed decode to the same payload, or to one with
\* another checksum.
LEMMA NearDecodes ==
    ASSUME NEW e \in Seq(Digit), NEW f \in Seq(Digit), Near(e, f)
    PROVE  /\ Decode32(f) \in Seq(Byte)
           /\ Decode32(f) = Decode32(e) \/ crc16(Decode32(f)) # crc16(Decode32(e))
  <1> DEFINE n == (5 * Len(e)) \div 8  x == Decode32(e)  y == Decode32(f)
  <1>1. Len(f) = Len(e) /\ n \in Nat /\ Len(e) \in Nat
    BY DEF Near
  <1>2. PICK q \in 1 .. Len(e) : \A i \in 1 .. Len(e) : i # q => f[i] = e[i]
    BY Zenon DEF Near
  <1> DEFINE p == (5 * (q - 1)) \div 8 + 1
  <1>3. x \in Seq(Byte) /\ y \in Seq(Byte) /\ Len(x) = n /\ Len(y) = n
    BY <1>1, DecodeIn, Zenon
  <1>4. p \in Nat /\ 1 <= p /\ (5 * (q - 1)) \div 8 + 2 = p + 1
    BY <1>1
  <1>5. ASSUME NEW j \in 1 .. n, j \notin {p, p + 1}  PROVE y[j] = x[j]
    <2>1. j # (5 * (q - 1)) \div 8 + 1 /\ j # (5 * (q - 1)) \div 8 + 2
      BY <1>4, <1>5, Zenon
    <2> HIDE DEF p
    <2> QED  BY <1>1, <1>2, <2>1, DecodeAltered, Zenon
  <1> HIDE DEF n, x, y, p
  <1>6. CASE p \in 1 .. n
    <2>1. ASSUME y # x  PROVE crc16(y) # crc16(x)
      <3>1. Len(y) = Len(x) /\ p \in 1 .. Len(x) /\ y \in Seq(Byte) /\ x \in Seq(Byte)
        BY <1>3, <1>6, Zenon
      <3>2. \A j \in 1 .. Len(x) : j \notin {p, p + 1} => y[j] = x[j]
        BY <1>3, <1>5, Zenon
      <3> QED  BY <3>1, <3>2, <2>1, ChecksumDetects, Zenon
    <2> QED  BY <1>3, <2>1, Zenon DEF x, y
  <1>7. CASE ~(p \in 1 .. n)
    <2>1. \A j \in 1 .. n : j \notin {p, p + 1}
      BY <1>1, <1>4, <1>7
    <2>2. y = x
      BY <1>3, <1>5, <2>1, SeqEqual, Zenon
    <2> QED  BY <1>3, <2>2, Zenon DEF x, y
  <1> QED  BY <1>6, <1>7

\* What a relay can make of a chunk of which the network has altered a digit:
\* the payload may be another one, but not with the checksum of the chunk.
Variant(c, d) ==
    /\ d = WithPayload(c, d.Payload)
    /\ d.Payload \in Seq(Byte)
    /\ d.Payload = c.Payload \/ crc16(d.Payload) # c.Checksum

\* Labels of a chunk of which the network has altered one digit of the payload
\* still decode, to the chunk with the same payload or with one that the
\* checksum of the chunk does not fit: ReassembleMessage tells them apart.
THEOREM AlteredIsDetected ==
    ASSUME NEW c, Sendable(c), c.Checksum = crc16(c.Payload), NEW m \in Seq(Seq(Digit)),
           Len(m) = Len(EncodeToLabels(c)),
           NEW a \in idxStart(EncodeToLabels(c)) + 5 .. Len(EncodeToLabels(c)),
           Near(EncodeToLabels(c)[a], m[a]),
           \A i \in 1 .. Len(m) : i # a => m[i] = EncodeToLabels(c)[i]
    PROVE  /\ Decodes(m)
           /\ Variant(c, DecodeChunkFromLabels(m))
  <1> DEFINE l == EncodeToLabels(c)  s == idxStart(l)
             u == EncodePayload(c.Payload)  v == SubSeq(m, s + 5, Len(m))
  <1>0. Labelled(c, l, s)
    BY Labels, Zenon
  <1>1. /\ s \in 0 .. 1 /\ l \in Seq(Seq(Digit)) /\ Len(l) = s + 4 + Len(u)
        /\ u = SubSeq(l, s + 5, Len(l)) /\ u \in Seq(Seq(Digit))
    BY <1>0, Zenon DEF Labelled
  <1>2. Len(m) = Len(l) /\ a \in s + 5 .. Len(l) /\ Near(l[a], m[a]) /\ \A i \in 1 .. Len(l) : i # a => m[i] = l[i]
    BY Zenon
  <1> HIDE DEF l, s, u
  <1>3. /\ Len(u) \in Nat /\ Len(l) \in Nat /\ a - s - 4 \in 1 .. Len(u) /\ s + 4 + (a - s - 4) = a
        /\ \A i \in 1 .. Len(u) : s + 4 + i \in 1 .. Len(l)
        /\ \A i \in 1 .. Len(u) : i # a - s - 4 => s + 4 + i # a
        /\ \A i \in 1 .. s + 4 : i \in 1 .. Len(l) /\ i # a
        /\ 1 \in 1 .. s + 4
    <2>1. Len(u) \in Nat /\ Len(l) \in Nat
      <3>1. u \in Seq(Seq(Digit)) /\ l \in Seq(Seq(Digit))
        BY <1>1, Zenon
      <3> QED  BY <3>1
    <2>2. PICK n \in Nat : n = Len(u)
      BY <2>1, Zenon
    <2>3. s \in 0 .. 1 /\ Len(l) = s + 4 + n /\ a \in s + 5 .. s + 4 + n
      BY <1>1, <1>2, <2>2, Zenon
    <2>4. /\ a - s - 4 \in 1 .. n /\ s + 4 + (a - s - 4) = a
          /\ \A i \in 1 .. n : s + 4 + i \in 1 .. s + 4 + n
          /\ \A i \in 1 .. n : i # a - s - 4 => s + 4 + i # a
          /\ \A i \in 1 .. s + 4 : i \in 1 .. s + 4 + n /\ i # a
          /\ 1 \in 1 .. s + 4
      BY <2>3
    <2> QED  BY <2>1, <2>2, <2>3, <2>4, Zenon
  <1>4. /\ v \in Seq(Seq(Digit)) /\ Len(v) = Len(u)
        /\ \A i \in 1 .. Len(u) : v[i] = m[s + 4 + i]
    BY <1>1, <1>2, <1>3, SMTT(20)
  <1>5. \A i \in 1 .. Len(u) : u[i] = l[s + 4 + i]
    <2> DEFINE w == SubSeq(l, s + 5, Len(l))
    <2>0. s \in 0 .. 1 /\ l \in Seq(Seq(Digit)) /\ Len(u) \in Nat /\ Len(l) = s + 4 + Len(u)
      BY <1>1, <1>3, Zenon
    <2>1. \A i \in 1 .. Len(l) - s - 4 : w[i] = l[s + 4 + i]
      BY <2>0
    <2>2. Len(l) - s - 4 = Len(u)
      BY <2>0
    <2> HIDE DEF w
    <2> QED  BY <1>1, <2>1, <2>2, Zenon DEF w
  <1> HIDE DEF v
  <1>6. Near(u[a - s - 4], v[a - s - 4])
    BY <1>2, <1>3, <1>4, <1>5, Zenon
  <1>7. \A i \in 1 .. Len(u) : i # a - s - 4 => v[i] = u[i]
    BY <1>2, <1>3, <1>4, <1>5, Zenon
  <1>8. Join(u) \in Seq(Digit) /\ Join(v) \in Seq(Digit) /\ Near(Join(u), Join(v))
    <2> DEFINE k == a - s - 4
    <2>1. k \in 1 .. Len(u) /\ Near(u[k], v[k]) /\ \A i \in 1 .. Len(u) : i # k => v[i] = u[i]
      BY <1>3, <1>6, <1>7, Zenon
    <2> HIDE DEF k
    <2> QED  BY <1>1, <1>4, <2>1, JoinAltered, Zenon
  <1>9. \A i \in 1 .. s + 4 : m[i] = l[i]
    BY <1>2, <1>3, Zenon
  <1>10. m[1] = l[1]
    BY <1>3, <1>9, Zenon
  <1>11. /\ idxStart(m) = s
         /\ Decodes(m) <=> Valid32(PayloadDigits(m))
         /\ DecodeChunkFromLabels(m) = WithPayload(c, Decode32(PayloadDigits(m)))
    BY <1>2, <1>9, <1>10, HeadDecodes, Zenon DEF l, s
  <1>12. PayloadDigits(m) = Join(v)
    BY <1>11, Zenon DEF PayloadDigits, v
  <1>13. Join(u) = Encode32(c.Payload) /\ c.Payload \in Seq(Byte)
    <2>1. Join(u) = PayloadDigits(l)
      BY <1>1, Zenon DEF PayloadDigits, s
    <2> QED  BY <2>1, DigitsOfPayload, SendableFields, Zenon DEF l
  <1>14. Decode32(Join(u)) = c.Payload /\ Valid32(Join(u))
    BY <1>13, DecodeEncode, EncodeIn, Zenon
  <1>15. Valid32(Join(v))
    BY <1>8, <1>14, Zenon DEF Valid32, Near
  <1>16. /\ Decode32(Join(v)) \in Seq(Byte)
         /\ Decode32(Join(v)) = c.Payload \/ crc16(Decode32(Join(v))) # c.Checksum
    BY <1>8, <1>14, NearDecodes, Zenon
  <1>17. DecodeChunkFromLabels(m).Payload = Decode32(Join(v))
    BY <1>11, <1>12 DEF WithPayload
  <1> QED  BY <1>11, <1>12, <1>15, <1>16, <1>17, Zenon DEF Variant

\* All but the payload is as it was sent; and so is the payload if its checksum
\* fits.
LEMMA VariantFields ==
    ASSUME NEW c, Sendable(c), NEW d, Variant(c, d)
    PROVE  /\ Sendable(d)
           /\ d.ChunkIdx = c.ChunkIdx /\ d.TotalChunks = c.TotalChunks /\ d.Checksum = c.Checksum
           /\ d.Checksum = crc16(d.Payload) => d.Payload = c.Payload /\ d = c
  <1> DEFINE p == d.Payload
  <1>1. p \in Seq(Byte) /\ d = WithPayload(c, p) /\ (p = c.Payload \/ crc16(p) # c.Checksum)
    BY Zenon DEF Variant
  <1> HIDE DEF p
  <1>2. /\ d.ChunkIdx = c.ChunkIdx /\ d.TotalChunks = c.TotalChunks /\ d.Checksum = c.Checksum
        /\ d.Payload = p /\ d.MsgID = c.MsgID /\ d.RecipientHash = c.RecipientHash
    BY <1>1 DEF WithPayload
  <1>3. d \in Chunk
    <2>1. /\ c.MsgID \in Seq(Byte) /\ c.ChunkIdx \in Word /\ c.TotalChunks \in Word /\ c.Checksum \in Word
          /\ c.RecipientHash \in Seq(Byte)
      BY SendableFields, Zenon
    <2> QED  BY <1>1, <2>1 DEF WithPayload, Chunk
  <1>4. Sendable(d)
    BY <1>2, <1>3, Zenon DEF Sendable
  <1>5. ASSUME d.Checksum = crc16(d.Payload)  PROVE d.Payload = c.Payload /\ d = c
    <2>1. p = c.Payload
      BY <1>1, <1>2, <1>5, Zenon
    <2> QED  BY <1>1, <1>2, <2>1, SendableFields, Zenon DEF WithPayload
  <1> QED  BY <1>2, <1>4, <1>5, Zenon

\* A chunk that arrives as it was sent is one of its variants.
LEMMA OwnVariant ==
    ASSUME NEW c, Sendable(c)
    PROVE  Variant(c, c)
  BY SendableFields, Zenon DEF Variant, WithPayload

-----------------------------------------------------------------------------
(***************************************************************************)
(* A message in chunks.                                                    *)
(***************************************************************************)
\* NewChunk makes chunks that can be sent.
LEMMA NewChunkSendable ==
    ASSUME NEW msgID \in Seq(Byte), Len(msgID) = 8, NEW idx \in Nat, NEW total \in Nat,
           NEW payload \in Seq(Byte), NEW hash \in Seq(Byte), hash = <<>> \/ Len(hash) = 32
    PROVE  Sendable(NewChunk(msgID, idx, total, payload, hash))
  <1>1. Wrap(idx) \in Word /\ Wrap(total) \in Word
    BY WrapIn, Zenon
  <1>2. crc16(payload) \in Word
    BY ChecksumIn, Zenon DEF Word
  <1> DEFINE c == NewChunk(msgID, idx, total, payload, hash)
  <1>3. /\ c \in Chunk /\ c.MsgID = msgID /\ c.RecipientHash = hash
    BY <1>1, <1>2, Zenon DEF NewChunk, Chunk
  <1> QED  BY <1>3, Zenon DEF Sendable

\* The chunks are those of the plaintext.
Split(chunks, msgID, plaintext, size, hash) ==
    /\ Len(chunks) = Count(Len(plaintext), size) /\ Len(chunks) \in Nat \ {0}
    /\ DOMAIN chunks = 1 .. Len(chunks)
    /\ Pieces(plaintext, size) \in Seq(Seq(Byte)) /\ Len(Pieces(plaintext, size)) = Len(chunks)
    /\ \A i \in 1 .. Len(chunks) :
          /\ Sendable(chunks[i]) /\ chunks[i].Checksum = crc16(chunks[i].Payload)
          /\ chunks[i].Payload = Pieces(plaintext, size)[i]
          /\ chunks[i].ChunkIdx = Wrap(i - 1) /\ chunks[i].TotalChunks = Wrap(Len(chunks))
    /\ chunks = [i \in 1 .. Len(chunks) |-> chunks[i]]

\* ChunkMessage makes such chunks.
LEMMA ChunksSplit ==
    ASSUME NEW msgID \in Seq(Byte), Len(msgID) = 8, NEW plaintext \in Seq(Byte), plaintext # <<>>,
           NEW size \in Nat \ {0}, NEW hash \in Seq(Byte), Len(hash) = 32
    PROVE  Split(ChunkMessage(msgID, plaintext, size, hash), msgID, plaintext, size, hash)
  <1> DEFINE n == Count(Len(plaintext), size)  pieces == Pieces(plaintext, size)
             chunks == ChunkMessage(msgID, plaintext, size, hash)
  <1>1. pieces \in Seq(Seq(Byte)) /\ Len(pieces) = n
    BY PiecesIn, Zenon
  <1>2. n \in Nat \ {0}
    <2>2. Len(plaintext) \in Nat \ {0} /\ Len(plaintext) \in Nat /\ size \in Nat
      OBVIOUS
    <2>1. n \in Nat /\ Len(plaintext) <= n * size
      BY <2>2, CountBounds, Zenon
    <2>3. n # 0
      <3> HIDE DEF n
      <3> SUFFICES ASSUME n = 0  PROVE FALSE
        BY Zenon
      <3>1. Len(plaintext) <= 0 * size
        BY <2>1, Zenon
      <3> QED  BY <2>2, <3>1
    <2> QED  BY <2>1, <2>3, Zenon
  <1>3. ~(size <= 0)
    OBVIOUS
  <1>4. DOMAIN pieces = 1 .. n
    BY Zenon DEF Pieces
  <1>5. chunks = [i \in 1 .. n |-> NewChunk(msgID, i - 1, n, pieces[i], hash)]
    BY <1>1, <1>3, <1>4, Zenon DEF ChunkMessage
  <1>6. ASSUME NEW i \in 1 .. n
        PROVE  /\ Sendable(chunks[i]) /\ chunks[i].Checksum = crc16(chunks[i].Payload)
               /\ chunks[i].Payload = pieces[i]
               /\ chunks[i].ChunkIdx = Wrap(i - 1) /\ chunks[i].TotalChunks = Wrap(n)
    <2> HIDE DEF n, pieces, chunks
    <2>1. chunks[i] = NewChunk(msgID, i - 1, n, pieces[i], hash)
      BY <1>5, Zenon
    <2>2. i - 1 \in Nat /\ n \in Nat
      BY <1>2
    <2>3. pieces[i] \in Seq(Byte)
      BY <1>1
    <2>4. Sendable(chunks[i])
      BY <2>1, <2>2, <2>3, NewChunkSendable, ZenonT(30)
    <2>5. /\ chunks[i].Checksum = crc16(pieces[i]) /\ chunks[i].Payload = pieces[i]
          /\ chunks[i].ChunkIdx = Wrap(i - 1) /\ chunks[i].TotalChunks = Wrap(n)
      BY <2>1 DEF NewChunk
    <2> QED  BY <2>4, <2>5, Zenon
  <1> HIDE DEF n, pieces, chunks
  <1>7. Len(chunks) = n /\ DOMAIN chunks = 1 .. n
    BY <1>2, <1>5
  <1>8. chunks = [i \in 1 .. n |-> chunks[i]]
    BY <1>5, Zenon
  <1>9. Split(chunks, msgID, plaintext, size, hash)
    BY <1>1, <1>2, <1>6, <1>7, <1>8, Zenon DEF Split, n, pieces
  <1> QED  BY <1>9, Zenon DEF chunks

\* ReassembleMessage accepts the chunks that ChunkMessage makes, if there are
\* fewer than 2^Width: their number and their indexes survive the conversion to
\* uint16.
THEOREM ChunksReassemble ==
    ASSUME NEW chunks, NEW msgID, NEW plaintext, NEW size, NEW hash,
           Split(chunks, msgID, plaintext, size, hash), Len(chunks) < 2^Width
    PROVE  Reassembles(chunks)
  <1> DEFINE n == Len(chunks)
  <1>1. /\ n \in Nat \ {0}
        /\ \A i \in 1 .. n : /\ chunks[i].Checksum = crc16(chunks[i].Payload)
                             /\ chunks[i].ChunkIdx = Wrap(i - 1) /\ chunks[i].TotalChunks = Wrap(n)
    BY Zenon DEF Split
  <1>2. n < 2^Width
    OBVIOUS
  <1> HIDE DEF n
  <1>3. 2^Width \in Nat
    BY EncodingAssumption
  <1>4. Wrap(n) = n /\ 1 \in 1 .. n
    <2>1. n \in Nat /\ 1 \in 1 .. n
      BY <1>1
    <2> QED  BY <2>1, <1>2, WrapIn, Zenon
  <1>5. \A i \in 1 .. n : i - 1 \in 0 .. n - 1 /\ Wrap(i - 1) = i - 1
    <2> TAKE i \in 1 .. n
    <2>1. i - 1 \in Nat /\ i - 1 \in 0 .. n - 1 /\ i - 1 < 2^Width
      <3> DEFINE m == 2^Width
      <3>1. m \in Nat /\ n < m /\ n \in Nat
        BY <1>1, <1>2, <1>3
      <3> HIDE DEF m
      <3>2. i - 1 \in Nat /\ i - 1 \in 0 .. n - 1 /\ i - 1 < m
        BY <3>1
      <3> QED  BY <3>2 DEF m
    <2> QED  BY <2>1, WrapIn, Zenon
  <1>6. \A k \in 0 .. n - 1 : k + 1 \in 1 .. n /\ (k + 1) - 1 = k
    BY <1>1
  <1>7. {chunks[i].ChunkIdx : i \in 1 .. n} = 0 .. n - 1
    <2>1. \A i \in 1 .. n : chunks[i].ChunkIdx = i - 1
      BY <1>1, <1>5, Zenon
    <2>2. \A i \in 1 .. n : chunks[i].ChunkIdx \in 0 .. n - 1
      BY <2>1, <1>5, Zenon
    <2>3. \A k \in 0 .. n - 1 : k + 1 \in 1 .. n /\ chunks[k + 1].ChunkIdx = k
      BY <2>1, <1>6, Zenon
    <2> QED  BY <2>2, <2>3, Zenon
  <1>8. chunks[1].TotalChunks = n
    BY <1>1, <1>4, Zenon
  <1> QED  BY <1>1, <1>7, <1>8, Zenon DEF Reassembles, n

\* Chunks in any order, some of them altered on the way or repeated, that
\* ReassembleMessage accepts give the plaintext that was cut in fewer than
\* 2^Width chunks: none is missing, none is altered, and they are put in order.
THEOREM AcceptedIsTheMessage ==
    ASSUME NEW chunks, NEW msgID, NEW plaintext \in Seq(Byte), NEW size \in Nat \ {0}, NEW hash,
           Split(chunks, msgID, plaintext, size, hash), Len(chunks) < 2^Width,
           NEW got, DOMAIN got = 1 .. Len(got), 1 \in DOMAIN got,
           \A i \in DOMAIN got : \E j \in DOMAIN chunks : Variant(chunks[j], got[i]),
           Reassembles(got)
    PROVE  ReassembleMessage(got) = plaintext
  <1> DEFINE n == Len(chunks)  pieces == Pieces(plaintext, size)
  <1>1. /\ n \in Nat \ {0} /\ DOMAIN chunks = 1 .. n
        /\ pieces \in Seq(Seq(Byte)) /\ Len(pieces) = n
        /\ \A i \in 1 .. n : /\ Sendable(chunks[i]) /\ chunks[i].Payload = pieces[i]
                             /\ chunks[i].ChunkIdx = Wrap(i - 1) /\ chunks[i].TotalChunks = Wrap(n)
    BY Zenon DEF Split
  <1>2. n < 2^Width
    OBVIOUS
  <1> HIDE DEF n, pieces
  <1>3. 2^Width \in Nat
    BY EncodingAssumption
  <1>4. Wrap(n) = n
    <2>1. n \in Nat
      BY <1>1
    <2> QED  BY <2>1, <1>2, WrapIn, Zenon
  <1>5. \A i \in 1 .. n : Wrap(i - 1) = i - 1
    <2> TAKE i \in 1 .. n
    <2>1. i - 1 \in Nat /\ i - 1 < 2^Width
      <3> DEFINE m == 2^Width
      <3>1. m \in Nat /\ n < m /\ n \in Nat
        BY <1>1, <1>2, <1>3
      <3> HIDE DEF m
      <3>2. i - 1 \in Nat /\ i - 1 < m
        BY <3>1
      <3> QED  BY <3>2 DEF m
    <2> QED  BY <2>1, WrapIn, Zenon
  <1>6. \A i \in DOMAIN got : \E j \in 1 .. n : Variant(chunks[j], got[i])
    BY <1>1, Zenon
  <1>7. got[1].TotalChunks = n
    <2>1. PICK j \in 1 .. n : Variant(chunks[j], got[1])
      BY <1>6, Zenon
    <2>2. Sendable(chunks[j])
      BY <1>1, Zenon
    <2>3. got[1].TotalChunks = chunks[j].TotalChunks
      BY <2>1, <2>2, VariantFields, Zenon
    <2> QED  BY <2>3, <1>1, <1>4, Zenon
  <1>8. /\ Len(got) = n /\ {got[i].ChunkIdx : i \in 1 .. n} = 0 .. n - 1
        /\ \A i \in 1 .. n : got[i].Checksum = crc16(got[i].Payload)
    BY <1>7, Zenon DEF Reassembles
  <1>9. DOMAIN got = 1 .. n
    BY <1>8, Zenon
  <1>10. ASSUME NEW k \in 1 .. n
         PROVE  (CHOOSE c \in Range(got) : c.ChunkIdx = k - 1).Payload = pieces[k]
    <2> DEFINE c == CHOOSE c \in Range(got) : c.ChunkIdx = k - 1
    <2>1. k - 1 \in 0 .. n - 1
      BY <1>1
    <2>2. PICK i0 \in 1 .. n : got[i0].ChunkIdx = k - 1
      BY <2>1, <1>8, Zenon
    <2>3. got[i0] \in Range(got)
      BY <1>9, Zenon DEF Range
    <2>4. c \in Range(got) /\ c.ChunkIdx = k - 1
      BY <2>2, <2>3, Zenon
    <2> HIDE DEF c
    <2>5. PICK i \in 1 .. n : c = got[i]
      BY <2>4, <1>9, Zenon DEF Range
    <2>6. PICK j \in 1 .. n : Variant(chunks[j], c)
      BY <2>5, <1>6, <1>9, Zenon
    <2>7. c.Checksum = crc16(c.Payload)
      BY <2>5, <1>8, Zenon
    <2>8. Sendable(chunks[j])
      BY <1>1, Zenon
    <2>9. c.ChunkIdx = chunks[j].ChunkIdx /\ c.Payload = chunks[j].Payload
      BY <2>6, <2>7, <2>8, VariantFields, Zenon
    <2>10. j - 1 = k - 1
      BY <2>4, <2>9, <1>1, <1>5, Zenon
    <2>11. j = k
      BY <2>10, <1>1
    <2> QED  BY <2>9, <2>11, <1>1, Zenon DEF c
  <1>11. [k \in 1 .. Len(got) |-> (CHOOSE c \in Range(got) : c.ChunkIdx = k - 1).Payload]
         = [k \in 1 .. n |-> pieces[k]]
    BY <1>8, <1>10, Zenon
  <1>12. [k \in 1 .. n |-> pieces[k]] = pieces
    BY <1>1
  <1>13. ReassembleMessage(got) = Join(pieces)
    BY <1>11, <1>12, Zenon DEF ReassembleMessage
  <1> QED  BY <1>13, JoinPieces, Zenon DEF pieces
=============================================================================
