--------------------------- MODULE HeapPageProofs ---------------------------
(***************************************************************************)
(* Proofs about HeapPage, for every page size the 16-bit fields can hold   *)
(* and every set of records.                                               *)
(***************************************************************************)
EXTENDS HeapPage, SetFacts, TLAPS

Buffer == [Position -> Byte]

\* A value that fits a 16-bit field.
IsU16(v) == v \in Int /\ 0 <= v /\ v <= 65535

-----------------------------------------------------------------------------
(* 16-bit fields. *)

LEMMA ByteRange == \A x : x \in Byte <=> x \in Int /\ 0 <= x /\ x <= 255
BY DEF Byte

LEMMA Combine ==
  ASSUME NEW x \in Int, NEW y \in Int, 0 <= x, x <= 255, 0 <= y, y <= 255
  PROVE  IsU16(x * 256 + y)
BY DEF IsU16

LEMMA DivMod256 ==
  ASSUME NEW v \in Int
  PROVE  256 * (v \div 256) + (v % 256) = v
OBVIOUS

LEMMA TwoBytes ==
  ASSUME NEW v, IsU16(v)
  PROVE  /\ (v \div 256) % 256 \in Byte
         /\ v % 256 \in Byte
         /\ ((v \div 256) % 256) * 256 + (v % 256) = v
<1> DEFINE q == v \div 256
           r == v % 256
<1>1. v \in Int /\ 256 * q + r = v
  BY DivMod256 DEF IsU16
<1>2. q \in Int /\ 0 <= q /\ q <= 255
  BY DEF IsU16
<1>3. r \in Int /\ 0 <= r /\ r <= 255
  BY DEF IsU16
<1> HIDE DEF q, r
<1>4. q % 256 = q
  BY <1>2
<1>5. q * 256 + r = v
  BY <1>1, <1>2, <1>3
<1>6. q \in Byte /\ r \in Byte
  BY <1>2, <1>3, ByteRange
<1> QED
  BY <1>4, <1>5, <1>6, Zenon DEF q, r

(* A 16-bit field holds a 16-bit value. *)
LEMMA ReadU16Type ==
  ASSUME NEW b \in Buffer, NEW pos \in Position, pos + 1 \in Position
  PROVE  IsU16(readU16(b, pos))
<1>1. b[pos] \in Byte /\ b[pos + 1] \in Byte
  BY DEF Buffer
<1> QED
  BY <1>1, ByteRange, Combine DEF readU16

(* A 16-bit field reads back what was written to it, and no byte elsewhere
   is disturbed. *)
LEMMA WriteU16 ==
  ASSUME NEW b \in Buffer, NEW pos \in Position, pos + 1 \in Position,
         NEW v, IsU16(v)
  PROVE  /\ writeU16(b, pos, v) \in Buffer
         /\ readU16(writeU16(b, pos, v), pos) = v
         /\ \A q \in Position : q # pos /\ q # pos + 1
                                  => writeU16(b, pos, v)[q] = b[q]
<1> DEFINE hi == (v \div 256) % 256
           lo == v % 256
           w == [b EXCEPT ![pos] = hi, ![pos + 1] = lo]
<1>1. hi \in Byte /\ lo \in Byte /\ hi * 256 + lo = v
  BY TwoBytes
<1>2. pos # pos + 1
  BY PageSizeAssumption DEF Position
<1> HIDE DEF hi, lo
<1>3. w \in Buffer /\ w[pos] = hi /\ w[pos + 1] = lo
  BY <1>1, <1>2 DEF Buffer
<1>4. \A q \in Position : q # pos /\ q # pos + 1 => w[q] = b[q]
  BY DEF Buffer
<1>5. writeU16(b, pos, v) = w
  BY DEF writeU16, hi, lo
<1> HIDE DEF w
<1>6. readU16(w, pos) = v
  BY <1>1, <1>3 DEF readU16
<1> QED
  BY <1>3, <1>4, <1>5, <1>6

-----------------------------------------------------------------------------
(* Write. *)

\* What Layout says of a buffer on its own.
WellFormed(b) ==
  /\ b \in Buffer
  /\ Lower(b) = slotPos(Size(b))
  /\ Lower(b) <= Upper(b)
  /\ Upper(b) <= PageSize

(* The header fields are inside the page and hold 16-bit values. *)
LEMMA HeaderFields ==
  ASSUME NEW b \in Buffer
  PROVE  IsU16(Size(b)) /\ IsU16(Lower(b)) /\ IsU16(Upper(b))
<1>1. \A pos \in {4, 6, 8} : pos \in Position /\ pos + 1 \in Position
  BY PageSizeAssumption DEF Position, headerSize
<1> QED
  BY <1>1, ReadU16Type
     DEF Size, Lower, Upper, slotCountOff, lowerBoundOff, upperBoundOff

(* copy fills exactly the bytes of the record. *)
LEMMA CopyTo ==
  ASSUME NEW b \in Buffer, NEW data \in Seq(Byte), NEW at \in Nat,
         at + Len(data) <= PageSize
  PROVE  /\ copyTo(b, at, data) \in Buffer
         /\ \A p \in Position : p < at \/ p >= at + Len(data)
                                  => copyTo(b, at, data)[p] = b[p]
         /\ \A p \in Position : at <= p /\ p < at + Len(data)
                                  => copyTo(b, at, data)[p] = data[p - at + 1]
<1>1. \A j \in 1 .. Len(data) : data[j] \in Byte
  OBVIOUS
<1>2. Len(data) \in Nat
  OBVIOUS
<1> QED
  BY <1>1, <1>2, PageSizeAssumption DEF copyTo, Buffer, Position

(* AddSlot sets its five fields and nothing else. *)
LEMMA AddSlotFields ==
  ASSUME NEW b \in Buffer, NEW n \in Nat, NEW lower \in Nat,
         NEW newUpper \in Nat, NEW length \in Nat,
         lower = slotPos(n), lower + slotSize <= newUpper,
         newUpper + length <= PageSize
  PROVE  LET w == AddSlot(b, n, lower, newUpper, length)
         IN  /\ w \in Buffer
             /\ Size(w) = n + 1
             /\ Lower(w) = lower + slotSize
             /\ Upper(w) = newUpper
             /\ Offset(w, n) = newUpper
             /\ Length(w, n) = length
             /\ \A p \in Position :
                  (p >= headerSize /\ p < lower) \/ p >= lower + slotSize
                    => w[p] = b[p]
<1> DEFINE sp == slotPos(n)
           b1 == writeU16(b, sp, newUpper)
           b2 == writeU16(b1, sp + 2, length)
           b3 == writeU16(b2, slotCountOff, n + 1)
           lo == lower + slotSize
           b4 == writeU16(b3, lowerBoundOff, lo)
           w == writeU16(b4, upperBoundOff, newUpper)
<1>1. /\ sp \in Nat /\ sp = lower /\ sp >= 10 /\ sp = 10 + n * 4
      /\ sp + 4 <= PageSize
  BY PageSizeAssumption DEF slotPos, headerSize, slotSize
<1>2. /\ sp \in Position /\ sp + 1 \in Position
      /\ sp + 2 \in Position /\ (sp + 2) + 1 \in Position
      /\ slotCountOff \in Position /\ slotCountOff + 1 \in Position
      /\ lowerBoundOff \in Position /\ lowerBoundOff + 1 \in Position
      /\ upperBoundOff \in Position /\ upperBoundOff + 1 \in Position
  BY <1>1, PageSizeAssumption
     DEF Position, slotCountOff, lowerBoundOff, upperBoundOff
<1>3. /\ IsU16(newUpper) /\ IsU16(length) /\ IsU16(n + 1)
      /\ IsU16(lo)
  BY <1>1, PageSizeAssumption DEF IsU16, slotSize
<1>4. w = AddSlot(b, n, lower, newUpper, length)
  BY DEF AddSlot
<1> HIDE DEF sp, lo
<1>5. /\ b1 \in Buffer /\ readU16(b1, sp) = newUpper
      /\ \A q \in Position : q # sp /\ q # sp + 1 => b1[q] = b[q]
  BY <1>2, <1>3, WriteU16
<1> HIDE DEF b1
<1>6. /\ b2 \in Buffer /\ readU16(b2, sp + 2) = length
      /\ \A q \in Position : q # sp + 2 /\ q # (sp + 2) + 1 => b2[q] = b1[q]
  BY <1>2, <1>3, <1>5, WriteU16
<1> HIDE DEF b2
<1>7. /\ b3 \in Buffer /\ readU16(b3, slotCountOff) = n + 1
      /\ \A q \in Position : q # slotCountOff /\ q # slotCountOff + 1 => b3[q] = b2[q]
  BY <1>2, <1>3, <1>6, WriteU16
<1> HIDE DEF b3
<1>8. /\ b4 \in Buffer /\ readU16(b4, lowerBoundOff) = lo
      /\ \A q \in Position : q # lowerBoundOff /\ q # lowerBoundOff + 1 => b4[q] = b3[q]
  BY <1>2, <1>3, <1>7, WriteU16
<1> HIDE DEF b4
<1>9. /\ w \in Buffer /\ readU16(w, upperBoundOff) = newUpper
      /\ \A q \in Position : q # upperBoundOff /\ q # upperBoundOff + 1 => w[q] = b4[q]
  BY <1>2, <1>3, <1>8, WriteU16
<1> HIDE DEF w
<1>10. Size(w) = n + 1
  <2>1. /\ w[slotCountOff] = b3[slotCountOff]
        /\ w[slotCountOff + 1] = b3[slotCountOff + 1]
    BY <1>2, <1>8, <1>9 DEF slotCountOff, lowerBoundOff, upperBoundOff
  <2> QED
    BY <2>1, <1>7 DEF Size, readU16
<1>11. Lower(w) = lower + slotSize
  <2>1. /\ w[lowerBoundOff] = b4[lowerBoundOff]
        /\ w[lowerBoundOff + 1] = b4[lowerBoundOff + 1]
    BY <1>2, <1>9 DEF lowerBoundOff, upperBoundOff
  <2> QED
    BY <2>1, <1>8 DEF Lower, readU16, lo
<1>12. Upper(w) = newUpper
  BY <1>9 DEF Upper
<1>13. Offset(w, n) = newUpper
  <2>1. w[sp] = b1[sp] /\ w[sp + 1] = b1[sp + 1]
    BY <1>1, <1>2, <1>6, <1>7, <1>8, <1>9
       DEF slotCountOff, lowerBoundOff, upperBoundOff
  <2> QED
    BY <2>1, <1>5 DEF Offset, readU16, sp
<1>14. Length(w, n) = length
  <2>1. w[sp + 2] = b2[sp + 2] /\ w[(sp + 2) + 1] = b2[(sp + 2) + 1]
    BY <1>1, <1>2, <1>7, <1>8, <1>9
       DEF slotCountOff, lowerBoundOff, upperBoundOff
  <2> QED
    BY <2>1, <1>6 DEF Length, readU16, sp
<1>15. ASSUME NEW p \in Position,
              (p >= headerSize /\ p < lower) \/ p >= lower + slotSize
       PROVE  w[p] = b[p]
  <2>1. /\ p \in Int /\ p >= 10
        /\ p # sp /\ p # sp + 1 /\ p # sp + 2 /\ p # (sp + 2) + 1
    BY <1>1, <1>15 DEF Position, headerSize, slotSize
  <2> QED
    BY <2>1, <1>5, <1>6, <1>7, <1>8, <1>9
       DEF slotCountOff, lowerBoundOff, upperBoundOff
<1> QED
  BY <1>4, <1>9, <1>10, <1>11, <1>12, <1>13, <1>14, <1>15

(* A successful Write adds one slot and one record below the others, and
   leaves every earlier slot and record alone. *)
LEMMA AfterWriteFields ==
  ASSUME NEW b, WellFormed(b), NEW data \in Seq(Byte), Fits(b, data)
  PROVE  LET w == AfterWrite(b, data)
         IN  /\ WellFormed(w)
             /\ Size(w) = Size(b) + 1
             /\ Upper(w) = Upper(b) - Len(data)
             /\ Offset(w, Size(b)) = Upper(b) - Len(data)
             /\ Length(w, Size(b)) = Len(data)
             /\ \A p \in Position :
                  (p >= headerSize /\ p < Lower(b)) \/ p >= Upper(b) => w[p] = b[p]
             /\ \A p \in Position :
                  Upper(w) <= p /\ p < Upper(b) => w[p] = data[p - Upper(w) + 1]
<1> DEFINE nu == Upper(b) - Len(data)
           c == copyTo(b, nu, data)
           w == AddSlot(c, Size(b), Lower(b), nu, Len(data))
<1>1. /\ b \in Buffer /\ Size(b) \in Nat /\ Lower(b) \in Nat /\ Upper(b) \in Nat
      /\ Lower(b) = slotPos(Size(b)) /\ Upper(b) <= PageSize
  BY HeaderFields DEF WellFormed, IsU16
<1>2. Len(data) \in Nat
  OBVIOUS
<1>3. nu \in Nat /\ Lower(b) + slotSize <= nu /\ nu + Len(data) = Upper(b)
  BY <1>1, <1>2 DEF Fits, slotSize
<1>4. w = AfterWrite(b, data)
  BY DEF AfterWrite
<1> HIDE DEF nu
<1>5. /\ c \in Buffer
      /\ \A p \in Position : p < nu \/ p >= Upper(b) => c[p] = b[p]
      /\ \A p \in Position : nu <= p /\ p < Upper(b) => c[p] = data[p - nu + 1]
  BY <1>1, <1>2, <1>3, CopyTo
<1> HIDE DEF c
<1>6. /\ w \in Buffer
      /\ Size(w) = Size(b) + 1
      /\ Lower(w) = Lower(b) + slotSize
      /\ Upper(w) = nu
      /\ Offset(w, Size(b)) = nu
      /\ Length(w, Size(b)) = Len(data)
      /\ \A p \in Position :
           (p >= headerSize /\ p < Lower(b)) \/ p >= Lower(b) + slotSize
             => w[p] = c[p]
  BY <1>1, <1>2, <1>3, <1>5, AddSlotFields
<1> HIDE DEF w
<1>7. \A p \in Position : p \in Int
  BY PageSizeAssumption DEF Position
<1>8. slotSize = 4 /\ headerSize = 10
  BY DEF slotSize, headerSize
<1>9. \A p \in Position :
        (p >= headerSize /\ p < Lower(b)) \/ p >= Upper(b) => w[p] = b[p]
  BY <1>1, <1>2, <1>3, <1>5, <1>6, <1>7, <1>8
<1>10. \A p \in Position : nu <= p /\ p < Upper(b) => w[p] = data[p - nu + 1]
  BY <1>1, <1>2, <1>3, <1>5, <1>6, <1>7, <1>8
<1>11. WellFormed(w)
  <2>1. \A n \in Nat : slotPos(n + 1) = slotPos(n) + slotSize
    BY DEF slotPos, headerSize, slotSize
  <2>2. Lower(w) = slotPos(Size(w))
    BY <1>1, <1>6, <2>1
  <2>3. Lower(w) <= Upper(w) /\ Upper(w) <= PageSize
    BY <1>1, <1>2, <1>3, <1>6, PageSizeAssumption
  <2> QED
    BY <1>6, <2>2, <2>3 DEF WellFormed
<1> QED
  BY <1>4, <1>6, <1>9, <1>10, <1>11 DEF nu

-----------------------------------------------------------------------------
(* The inductive invariant. *)

IndInv ==
  /\ TypeOK
  /\ Layout
  /\ RecordsKept

(* NewHeapPage makes an empty page. *)
LEMMA InitIndInv == Init => IndInv /\ Upper(buf) = PageSize
<1> SUFFICES ASSUME Init PROVE IndInv /\ Upper(buf) = PageSize
  OBVIOUS
<1> DEFINE z == [p \in Position |-> 0]
           z1 == writeU16(z, lowerBoundOff, headerSize)
           z2 == writeU16(z1, upperBoundOff, PageSize)
<1>1. \A pos \in {slotCountOff, lowerBoundOff, upperBoundOff} :
        pos \in Position /\ pos + 1 \in Position
  BY PageSizeAssumption
     DEF Position, headerSize, slotCountOff, lowerBoundOff, upperBoundOff
<1>2. IsU16(headerSize) /\ IsU16(PageSize)
  BY PageSizeAssumption DEF IsU16, headerSize
<1>3. z \in Buffer /\ \A p \in Position : z[p] = 0
  BY ByteRange DEF Buffer
<1> HIDE DEF z
<1>4. /\ z1 \in Buffer /\ readU16(z1, lowerBoundOff) = headerSize
      /\ \A q \in Position :
           q # lowerBoundOff /\ q # lowerBoundOff + 1 => z1[q] = z[q]
  BY <1>1, <1>2, <1>3, WriteU16
<1> HIDE DEF z1
<1>5. /\ z2 \in Buffer /\ readU16(z2, upperBoundOff) = PageSize
      /\ \A q \in Position :
           q # upperBoundOff /\ q # upperBoundOff + 1 => z2[q] = z1[q]
  BY <1>1, <1>2, <1>4, WriteU16
<1>6. buf = z2
  BY DEF Init, initHeaders, z1, z
<1> HIDE DEF z2
<1>7. Size(z2) = 0
  <2>1. z2[slotCountOff] = 0 /\ z2[slotCountOff + 1] = 0
    BY <1>1, <1>3, <1>4, <1>5 DEF slotCountOff, lowerBoundOff, upperBoundOff
  <2> QED
    BY <2>1 DEF Size, readU16
<1>8. Lower(z2) = headerSize
  <2>1. /\ z2[lowerBoundOff] = z1[lowerBoundOff]
        /\ z2[lowerBoundOff + 1] = z1[lowerBoundOff + 1]
    BY <1>1, <1>5 DEF lowerBoundOff, upperBoundOff
  <2> QED
    BY <2>1, <1>4 DEF Lower, readU16
<1>9. Upper(z2) = PageSize
  BY <1>5 DEF Upper
<1>10. Layout
  BY <1>6, <1>7, <1>8, <1>9, PageSizeAssumption
     DEF Init, Layout, slotPos, headerSize, slotSize
<1>11. TypeOK
  BY <1>5, <1>6 DEF Init, TypeOK, Buffer
<1>12. RecordsKept
  BY DEF Init, RecordsKept
<1> QED
  BY <1>6, <1>9, <1>10, <1>11, <1>12 DEF IndInv

(* Write preserves the invariant. *)
LEMMA WriteIndInv ==
  ASSUME IndInv, NEW data \in Records, Write(data)
  PROVE  IndInv'
<1>1. CASE UNCHANGED <<buf, written>> /\ refused' = data
  BY <1>1 DEF IndInv, TypeOK, Layout, RecordsKept
<1>2. CASE /\ Fits(buf, data)
           /\ buf' = AfterWrite(buf, data)
           /\ written' = Append(written, data)
           /\ refused' = <<>>
  <2> DEFINE n == Len(written)
  <2>1. /\ WellFormed(buf) /\ data \in Seq(Byte) /\ Size(buf) = n
        /\ written \in Seq(Records) /\ n \in Nat
    BY RecordsAssumption DEF IndInv, TypeOK, Layout, WellFormed, Buffer
  <2>2. /\ WellFormed(buf')
        /\ Size(buf') = n + 1
        /\ Upper(buf') = Upper(buf) - Len(data)
        /\ Offset(buf', n) = Upper(buf')
        /\ Length(buf', n) = Len(data)
        /\ \A p \in Position :
             (p >= headerSize /\ p < Lower(buf)) \/ p >= Upper(buf)
               => buf'[p] = buf[p]
        /\ \A p \in Position :
             Upper(buf') <= p /\ p < Upper(buf)
               => buf'[p] = data[p - Upper(buf') + 1]
    BY <1>2, <2>1, AfterWriteFields
  <2>3. /\ written' \in Seq(Records) /\ Len(written') = n + 1
        /\ written'[n + 1] = data
        /\ \A i \in 1 .. n : written'[i] = written[i]
    BY <1>2, <2>1
  <2>4. TypeOK' /\ Layout'
    BY <1>2, <2>2, <2>3 DEF TypeOK, Layout, WellFormed, Buffer
  <2>5. /\ Upper(buf) \in Nat /\ Lower(buf) \in Nat /\ Len(data) \in Nat
        /\ Upper(buf) <= PageSize /\ Lower(buf) = slotPos(n) /\ Upper(buf') \in Nat
        /\ Lower(buf) <= Upper(buf)
    BY <2>1, <2>2, HeaderFields DEF WellFormed, IsU16
  <2>6. ASSUME NEW i \in 0 .. n - 1
        PROVE  CanRead(buf', i) /\ Read(buf', i) = written'[i + 1]
    <3>1. /\ slotPos(i) \in Int /\ slotPos(i) >= headerSize
          /\ slotPos(i) + 3 < Lower(buf)
      BY <2>1, <2>5 DEF slotPos, headerSize, slotSize
    <3>2. \A q \in {slotPos(i), slotPos(i) + 1, slotPos(i) + 2, (slotPos(i) + 2) + 1} :
            buf'[q] = buf[q]
      <4>1. ASSUME NEW q \in Int, headerSize <= q, q < Lower(buf)
            PROVE  buf'[q] = buf[q]
        <5>1. q \in Position
          BY <2>5, <4>1, PageSizeAssumption DEF Position, headerSize
        <5> QED
          BY <2>2, <4>1, <5>1
      <4>2. headerSize \in Int /\ Lower(buf) \in Int
        BY <2>5 DEF headerSize
      <4> QED
        BY <3>1, <4>1, <4>2
    <3>3. Offset(buf', i) = Offset(buf, i) /\ Length(buf', i) = Length(buf, i)
      BY <3>2 DEF Offset, Length, readU16
    <3>4. /\ CanRead(buf, i) /\ Read(buf, i) = written[i + 1]
      BY <2>1 DEF IndInv, RecordsKept
    <3>5. IsU16(Offset(buf, i)) /\ IsU16(Length(buf, i))
      <4>1. /\ slotPos(i) \in Position /\ slotPos(i) + 1 \in Position
            /\ slotPos(i) + 2 \in Position /\ (slotPos(i) + 2) + 1 \in Position
        BY <2>5, <3>1, PageSizeAssumption DEF Position, headerSize
      <4> QED
        BY <4>1, <2>1, ReadU16Type DEF Offset, Length, WellFormed
    <3>6. CanRead(buf', i)
      BY <2>1, <2>2, <2>5, <3>3, <3>4, <3>5 DEF CanRead, IsU16
    <3>7. ASSUME NEW j \in 1 .. Length(buf, i)
          PROVE  buf'[Offset(buf, i) + j - 1] = buf[Offset(buf, i) + j - 1]
      <4> DEFINE p == Offset(buf, i) + j - 1
      <4>1. p \in Position /\ p >= Upper(buf)
        BY <2>5, <3>4, <3>5, PageSizeAssumption DEF CanRead, IsU16, Position
      <4> HIDE DEF p
      <4>2. buf'[p] = buf[p]
        BY <4>1, <2>2
      <4> QED
        BY <4>2 DEF p
    <3>8. Read(buf', i) = Read(buf, i)
      BY <3>3, <3>7 DEF Read
    <3>9. written'[i + 1] = written[i + 1]
      BY <2>1, <2>3
    <3> QED
      BY <3>4, <3>6, <3>8, <3>9
  <2>7. CanRead(buf', n) /\ Read(buf', n) = written'[n + 1]
    <3>1. CanRead(buf', n)
      BY <2>1, <2>2, <2>5 DEF CanRead
    <3>2. ASSUME NEW j \in 1 .. Len(data)
          PROVE  buf'[Upper(buf') + j - 1] = data[j]
      <4> DEFINE p == Upper(buf') + j - 1
      <4>1. /\ p \in Position /\ p >= Upper(buf') /\ p < Upper(buf)
            /\ p - Upper(buf') + 1 = j
        <5>1. Upper(buf') = Upper(buf) - Len(data)
          BY <2>2
        <5> QED
          BY <5>1, <2>5, PageSizeAssumption DEF Position
      <4> HIDE DEF p
      <4>2. buf'[p] = data[p - Upper(buf') + 1]
        BY <4>1, <2>2
      <4> QED
        BY <4>1, <4>2 DEF p
    <3>3. Read(buf', n) = [j \in 1 .. Len(data) |-> data[j]]
      BY <2>2, <3>2 DEF Read
    <3>4. data = [j \in 1 .. Len(data) |-> data[j]]
      BY <2>1
    <3> QED
      BY <2>3, <3>1, <3>3, <3>4
  <2>8. RecordsKept'
    <3> SUFFICES ASSUME NEW i \in 0 .. n
                 PROVE  CanRead(buf', i) /\ Read(buf', i) = written'[i + 1]
      BY <2>1, <2>3 DEF RecordsKept
    <3>1. i \in 0 .. n - 1 \/ i = n
      BY <2>1
    <3> QED
      BY <2>6, <2>7, <3>1
  <2> QED
    BY <2>4, <2>8 DEF IndInv
<1> QED
  BY <1>1, <1>2 DEF Write

(* The invariant holds in every reachable state. *)
THEOREM Invariance == Spec => []IndInv
<1>1. IndInv /\ [Next]_vars => IndInv'
  <2>1. IndInv /\ UNCHANGED vars => IndInv'
    BY DEF vars, IndInv, TypeOK, Layout, RecordsKept
  <2> QED
    BY <2>1, WriteIndInv DEF Next
<1> QED
  BY <1>1, InitIndInv, PTL DEF Spec

(* Directory and records never overlap and no 16-bit field overflows, for
   every page size up to 65535. *)
THEOREM LayoutSafe == Spec => []Layout
BY Invariance, PTL DEF IndInv

(* Every accepted record stays readable and unchanged. *)
THEOREM RecordsStay == Spec => []RecordsKept
BY Invariance, PTL DEF IndInv

-----------------------------------------------------------------------------
(* No space is lost.  The records lie one below the other without gaps, so
   the offset in the last slot says how many bytes they take, and the bytes
   between Lower and Upper are all there is left. *)

\* Where the records begin when there are i of them.
Top(b, i) == IF i = 0 THEN PageSize ELSE Offset(b, i - 1)

Packed ==
  /\ Upper(buf) = Top(buf, Len(written))
  /\ \A i \in 1 .. Len(written) : Top(buf, i) = Top(buf, i - 1) - Len(written[i])

\* The page is still as it was when it refused the record.
StillRefused == refused # <<>> => ~Fits(buf, refused)

LEMMA SlotFields ==
  ASSUME NEW b, WellFormed(b), NEW i \in 0 .. Size(b) - 1
  PROVE  /\ Offset(b, i) \in Nat
         /\ \A data \in Seq(Byte) : Fits(b, data) => Offset(AfterWrite(b, data), i) = Offset(b, i)
<1>1. /\ b \in Buffer /\ Size(b) \in Nat /\ Lower(b) \in Nat /\ Upper(b) \in Nat
      /\ Lower(b) = slotPos(Size(b)) /\ Upper(b) <= PageSize /\ Lower(b) <= Upper(b)
  BY HeaderFields DEF WellFormed, IsU16
<1>2. /\ slotPos(i) \in Int /\ slotPos(i) >= headerSize
      /\ slotPos(i) + 3 < Lower(b)
  BY <1>1 DEF slotPos, headerSize, slotSize
<1>3. slotPos(i) \in Position /\ slotPos(i) + 1 \in Position
  BY <1>1, <1>2, PageSizeAssumption DEF Position, headerSize
<1>4. Offset(b, i) \in Nat
  BY <1>1, <1>3, ReadU16Type DEF Offset, IsU16
<1>5. ASSUME NEW data \in Seq(Byte), Fits(b, data)
      PROVE  Offset(AfterWrite(b, data), i) = Offset(b, i)
  <2>1. PICK w : w = AfterWrite(b, data)
    OBVIOUS
  <2>2. \A p \in Position : (p >= headerSize /\ p < Lower(b)) \/ p >= Upper(b) => w[p] = b[p]
    BY <1>5, <2>1, AfterWriteFields
  <2>3. /\ slotPos(i) >= headerSize /\ slotPos(i) < Lower(b)
        /\ slotPos(i) + 1 >= headerSize /\ slotPos(i) + 1 < Lower(b)
    BY <1>1, <1>2 DEF headerSize
  <2>4. w[slotPos(i)] = b[slotPos(i)] /\ w[slotPos(i) + 1] = b[slotPos(i) + 1]
    BY <1>3, <2>2, <2>3
  <2> QED BY <2>1, <2>4 DEF Offset, readU16
<1> QED BY <1>4, <1>5

LEMMA WritePacked ==
  ASSUME IndInv, Packed, StillRefused, NEW data \in Records, Write(data)
  PROVE  Packed' /\ StillRefused'
<1>1. CASE ~Fits(buf, data) /\ UNCHANGED <<buf, written>> /\ refused' = data
  BY <1>1 DEF Packed, StillRefused
<1>2. CASE /\ Fits(buf, data)
           /\ buf' = AfterWrite(buf, data)
           /\ written' = Append(written, data)
           /\ refused' = <<>>
  <2>1. PICK b, w, n : b = buf /\ w = buf' /\ n = Len(written)
    OBVIOUS
  <2>2. /\ WellFormed(b) /\ data \in Seq(Byte) /\ Size(b) = n
        /\ written \in Seq(Records) /\ n \in Nat
        /\ Fits(b, data) /\ w = AfterWrite(b, data)
    BY <1>2, <2>1, RecordsAssumption DEF IndInv, TypeOK, Layout, WellFormed, Buffer
  <2>3. Upper(w) = Upper(b) - Len(data) /\ Offset(w, n) = Upper(w)
    BY <2>2, AfterWriteFields
  <2>4. /\ Len(written') = n + 1 /\ written'[n + 1] = data
        /\ \A i \in 1 .. n : written'[i] = written[i]
    BY <1>2, <2>1, <2>2
  <2>5. ASSUME NEW i \in 0 .. n PROVE Top(w, i) = Top(b, i)
    <3>1. CASE i = 0
      BY <3>1 DEF Top
    <3>2. CASE i # 0
      <4>1. i - 1 \in 0 .. Size(b) - 1
        BY <2>2, <3>2
      <4>2. Offset(w, i - 1) = Offset(b, i - 1)
        BY <2>2, <4>1, SlotFields
      <4> QED BY <3>2, <4>2 DEF Top
    <3> QED BY <3>1, <3>2
  <2>6. Top(w, n + 1) = Upper(w)
    <3>1. n + 1 # 0 /\ (n + 1) - 1 = n
      BY <2>2
    <3> QED BY <2>3, <3>1 DEF Top
  <2>7. ASSUME NEW i \in 1 .. n + 1
        PROVE  Top(w, i) = Top(w, i - 1) - Len(written'[i])
    <3>1. CASE i = n + 1
      <4>1. i - 1 = n /\ n \in 0 .. n
        BY <2>2, <3>1
      <4>2. Top(w, n) = Upper(b)
        BY <2>1, <2>5, <4>1 DEF Packed
      <4> QED BY <2>3, <2>4, <2>6, <3>1, <4>1, <4>2
    <3>2. CASE i # n + 1
      <4>1. i \in 1 .. n /\ i \in 0 .. n /\ i - 1 \in 0 .. n
        BY <2>2, <3>2
      <4>2. Top(b, i) = Top(b, i - 1) - Len(written[i])
        BY <2>1, <4>1 DEF Packed
      <4> QED BY <2>4, <2>5, <4>1, <4>2
    <3> QED BY <3>1, <3>2
  <2>8. Packed'
    BY <2>1, <2>4, <2>6, <2>7 DEF Packed
  <2>9. StillRefused'
    BY <1>2 DEF StillRefused
  <2> QED BY <2>8, <2>9
<1> QED BY <1>1, <1>2 DEF Write

\* What Occupied computes: a function that satisfies its recursion ...
Used(w, f) ==
  f = [i \in 0 .. Len(w) |->
         IF i = 0 THEN headerSize ELSE f[i - 1] + slotSize + Len(w[i])]

\* ... of which there is only one: no least i at which two of them differ.
LEMMA UsedIsUnique ==
  ASSUME NEW S, NEW w \in Seq(S), NEW f, NEW g, Used(w, f), Used(w, g)
  PROVE  \A i \in 0 .. Len(w) : f[i] = g[i]
<1> DEFINE D == {i \in 0 .. Len(w) : f[i] # g[i]}
<1>0. Len(w) \in Nat
  OBVIOUS
<1>1. \A i \in 0 .. Len(w) :
        /\ f[i] = IF i = 0 THEN headerSize ELSE f[i - 1] + slotSize + Len(w[i])
        /\ g[i] = IF i = 0 THEN headerSize ELSE g[i - 1] + slotSize + Len(w[i])
  BY DEF Used
<1>2. ASSUME D # {} PROVE FALSE
  <2>1. D \in SUBSET Nat
    BY <1>0
  <2>2. PICK m \in D : \A n \in D : m <= n
    <3> HIDE DEF D
    <3> QED BY <1>2, <2>1, NatMin
  <2>3. m \in 0 .. Len(w) /\ f[m] # g[m]
    OBVIOUS
  <2>4. m # 0
    BY <1>1, <2>3
  <2>5. m - 1 \in 0 .. Len(w) /\ ~(m <= m - 1)
    BY <1>0, <2>3, <2>4
  <2>6. f[m - 1] = g[m - 1]
    BY <2>2, <2>5
  <2> QED BY <1>1, <2>3, <2>4, <2>6
<1> QED BY <1>2

\* The bytes taken are those outside the free space.
LEMMA OccupiedIs ==
  ASSUME IndInv, Packed
  PROVE  Occupied = Lower(buf) + (PageSize - Upper(buf))
<1>1. PICK w, b, n : w = written /\ b = buf /\ n = Len(written)
  OBVIOUS
<1>2. /\ w \in Seq(Records) /\ n \in Nat /\ n = Len(w) /\ WellFormed(b) /\ Size(b) = n
      /\ Lower(b) = slotPos(n) /\ Upper(b) = Top(b, n)
      /\ \A i \in 1 .. n : Top(b, i) = Top(b, i - 1) - Len(w[i])
  BY <1>1 DEF IndInv, TypeOK, Layout, WellFormed, Buffer, Packed
<1>3. \A i \in 0 .. n : Top(b, i) \in Nat
  <2>1. ASSUME NEW i \in 0 .. n PROVE Top(b, i) \in Nat
    <3>1. CASE i = 0
      BY <3>1, PageSizeAssumption DEF Top
    <3>2. CASE i # 0
      <4>1. i - 1 \in 0 .. Size(b) - 1
        BY <1>2, <3>2
      <4> QED BY <1>2, <3>2, <4>1, SlotFields DEF Top
    <3> QED BY <3>1, <3>2
  <2> QED BY <2>1
<1>4. PICK f : f = [i \in 0 .. n |-> headerSize + i * slotSize + (PageSize - Top(b, i))]
  OBVIOUS
<1>5. Used(w, f)
  <2>1. ASSUME NEW i \in 0 .. n
        PROVE  f[i] = IF i = 0 THEN headerSize ELSE f[i - 1] + slotSize + Len(w[i])
    <3>1. CASE i = 0
      <4>1. f[0] = 10 + 0 * 4 + (PageSize - PageSize)
        BY <1>4, <3>1 DEF Top, headerSize, slotSize
      <4>2. f[0] = headerSize
        BY <4>1, PageSizeAssumption DEF headerSize
      <4> QED BY <3>1, <4>2
    <3>2. CASE i # 0
      <4>1. i \in 1 .. n /\ i - 1 \in 0 .. n /\ i \in Int
        BY <1>2, <3>2
      <4>2. PICK t, u, c : t = Top(b, i) /\ u = Top(b, i - 1) /\ c = Len(w[i])
        OBVIOUS
      <4>3. t \in Int /\ u \in Int /\ t = u - c /\ c \in Int
        <5>1. w[i] \in Seq(Byte)
          BY <1>2, <4>1, RecordsAssumption
        <5> QED BY <1>2, <1>3, <4>1, <4>2, <5>1
      <4>4. f[i] = 10 + i * 4 + (PageSize - t) /\ f[i - 1] = 10 + (i - 1) * 4 + (PageSize - u)
        BY <1>4, <4>1, <4>2 DEF headerSize, slotSize
      <4>5. 10 + i * 4 + (PageSize - t) = (10 + (i - 1) * 4 + (PageSize - u)) + 4 + c
        BY <4>1, <4>3, PageSizeAssumption
      <4>6. f[i] = f[i - 1] + slotSize + Len(w[i])
        BY <4>2, <4>4, <4>5 DEF slotSize
      <4> QED BY <3>2, <4>6
    <3> QED BY <3>1, <3>2
  <2>2. f = [i \in 0 .. n |-> f[i]]
    BY <1>4
  <2>3. f = [i \in 0 .. n |->
               IF i = 0 THEN headerSize ELSE f[i - 1] + slotSize + Len(w[i])]
    BY ONLY <2>1, <2>2
  <2> QED BY <1>2, <2>3 DEF Used
<1>6. PICK g : g = CHOOSE h : Used(w, h)
  OBVIOUS
<1>7. Used(w, g)
  BY <1>5, <1>6
<1>8. Occupied = g[n]
  BY <1>1, <1>6 DEF Occupied, Used
<1>9. g[n] = f[n]
  BY <1>2, <1>5, <1>7, UsedIsUnique
<1>10. f[n] = slotPos(n) + (PageSize - Top(b, n))
  BY <1>2, <1>4 DEF slotPos
<1> QED BY <1>1, <1>2, <1>8, <1>9, <1>10

(* A record is refused with ErrNoSpace only when header, slots and accepted
   records leave no room for it and its slot. *)
THEOREM NoSpaceIsLost == Spec => []RefusedOnlyWhenFull
<1>1. Init => Packed /\ StillRefused
  <2> SUFFICES ASSUME Init PROVE Packed /\ StillRefused
    OBVIOUS
  <2>1. written = <<>> /\ refused = <<>> /\ Len(written) = 0
    BY DEF Init
  <2>2. Upper(buf) = PageSize
    BY InitIndInv
  <2> QED BY <2>1, <2>2 DEF Packed, StillRefused, Top
<1>2. IndInv /\ Packed /\ StillRefused /\ [Next]_vars => Packed' /\ StillRefused'
  <2>1. IndInv /\ Packed /\ StillRefused /\ UNCHANGED vars => Packed' /\ StillRefused'
    BY DEF vars, Packed, StillRefused
  <2> QED BY <2>1, WritePacked DEF Next
<1>3. IndInv /\ Packed /\ StillRefused => RefusedOnlyWhenFull
  <2> SUFFICES ASSUME IndInv, Packed, StillRefused, refused # <<>>
               PROVE  Occupied + slotSize + Len(refused) > PageSize
    BY DEF RefusedOnlyWhenFull
  <2>1. Occupied = Lower(buf) + (PageSize - Upper(buf))
    BY OccupiedIs
  <2>2. Lower(buf) \in Nat /\ Upper(buf) \in Nat
    BY HeaderFields DEF IndInv, TypeOK, Buffer, IsU16
  <2>3. Len(refused) \in Nat
    BY RecordsAssumption DEF IndInv, TypeOK
  <2>4. ~(4 + Len(refused) <= Upper(buf) - Lower(buf))
    BY DEF StillRefused, Fits, slotSize
  <2>5. (Lower(buf) + (PageSize - Upper(buf))) + 4 + Len(refused) > PageSize
    BY <2>2, <2>3, <2>4, PageSizeAssumption
  <2> QED BY <2>1, <2>5 DEF slotSize
<1> QED BY <1>1, <1>2, <1>3, Invariance, PTL DEF Spec
=============================================================================
