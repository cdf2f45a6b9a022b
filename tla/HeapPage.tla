------------------------------ MODULE HeapPage ------------------------------
(***************************************************************************)
(* HeapPage: a slotted page in one buffer of PageSize bytes.  The slot     *)
(* directory grows up from the header, the records grow down from the end. *)
(* All fields are big-endian 16-bit words of the buffer itself, so the     *)
(* model can tell whether a record ever overwrites the directory.          *)
(*                                                                         *)
(* The buffer is a function from byte positions (0-based) to bytes, a      *)
(* record a sequence of bytes.  The signature is left out: every page here *)
(* was made by NewHeapPage, and no record write reaches the header.        *)
(***************************************************************************)
EXTENDS Integers, Sequences

CONSTANTS PageSize,  \* 8192 in the code
          Records    \* the records callers may write (non-nil byte slices)

headerSize == 10
slotSize == 4
slotCountOff == 4
lowerBoundOff == 6
upperBoundOff == 8

Byte == 0 .. 255

\* Offsets and counts must fit the 16-bit fields they are stored in.
ASSUME PageSizeAssumption ==
  PageSize \in Nat /\ PageSize >= headerSize /\ PageSize <= 65535
ASSUME RecordsAssumption == Records \subseteq Seq(Byte)

VARIABLES buf,      \* the bytes of the page
          written,  \* history: the records Write accepted, in order
          refused   \* history: last record refused with ErrNoSpace, or <<>>

vars == <<buf, written, refused>>

Position == 0 .. PageSize - 1

readU16(b, pos) == b[pos] * 256 + b[pos + 1]
writeU16(b, pos, v) ==
  [b EXCEPT ![pos] = (v \div 256) % 256, ![pos + 1] = v % 256]

\* copy(b[at:at+len(data)], data)
copyTo(b, at, data) ==
  [p \in DOMAIN b |->
     IF p \in at .. at + Len(data) - 1 THEN data[p - at + 1] ELSE b[p]]

-----------------------------------------------------------------------------

Size(b) == readU16(b, slotCountOff)
Lower(b) == readU16(b, lowerBoundOff)
Upper(b) == readU16(b, upperBoundOff)

slotPos(i) == headerSize + i * slotSize
Offset(b, i) == readU16(b, slotPos(i))
Length(b, i) == readU16(b, slotPos(i) + 2)

\* Read fails with ErrSlotIndex or ErrCorruptedPage unless ...
CanRead(b, i) ==
  /\ i \in 0 .. Size(b) - 1
  /\ Offset(b, i) + Length(b, i) <= PageSize
  /\ Offset(b, i) >= Upper(b)

\* ... and else returns these bytes.
Read(b, i) == [j \in 1 .. Length(b, i) |-> b[Offset(b, i) + j - 1]]

FitsRecordOnly(b, data) == Len(data) <= Upper(b) - Lower(b)
Fits(b, data) == slotSize + Len(data) <= Upper(b) - Lower(b)

\* The directory entry and the header fields Write sets, in its order.
AddSlotAtOldUpper(b, n, lower, newUpper, length) ==
  LET b1 == writeU16(b, slotPos(n), newUpper + length)
      b2 == writeU16(b1, slotPos(n) + 2, length)
      b3 == writeU16(b2, slotCountOff, n + 1)
      b4 == writeU16(b3, lowerBoundOff, lower + slotSize)
  IN  writeU16(b4, upperBoundOff, newUpper)
AddSlot(b, n, lower, newUpper, length) ==
  LET b1 == writeU16(b, slotPos(n), newUpper)
      b2 == writeU16(b1, slotPos(n) + 2, length)
      b3 == writeU16(b2, slotCountOff, n + 1)
      b4 == writeU16(b3, lowerBoundOff, lower + slotSize)
  IN  writeU16(b4, upperBoundOff, newUpper)

\* The buffer after a successful Write.
AfterWrite(b, data) ==
  LET newUpper == Upper(b) - Len(data)
  IN  AddSlot(copyTo(b, newUpper, data), Size(b), Lower(b), newUpper, Len(data))

-----------------------------------------------------------------------------

\* initHeaders on a zeroed buffer
initHeaders ==
  writeU16(writeU16([p \in Position |-> 0], lowerBoundOff, headerSize),
           upperBoundOff, PageSize)

Init ==
  /\ buf = initHeaders
  /\ written = <<>>
  /\ refused = <<>>

WriteLosesRefusal(data) ==
  \/ /\ Fits(buf, data)
     /\ buf' = AfterWrite(buf, data)
     /\ written' = Append(written, data)
     /\ refused' = <<>>
  \/ /\ slotSize + Len(data) >= Upper(buf) - Lower(buf)
     /\ refused' = data
     /\ UNCHANGED <<buf, written>>
Write(data) ==
  \/ /\ Fits(buf, data)
     /\ buf' = AfterWrite(buf, data)
     /\ written' = Append(written, data)
     /\ refused' = <<>>
  \/ /\ ~Fits(buf, data)
     /\ refused' = data
     /\ UNCHANGED <<buf, written>>

Next == \E data \in Records : Write(data)

Spec == Init /\ [][Next]_vars

-----------------------------------------------------------------------------

(* buf stays an array of PageSize bytes. *)
TypeOK ==
  /\ buf \in [Position -> Byte]
  /\ written \in Seq(Records)
  /\ refused \in Records \cup {<<>>}

(* The two ends of the page never cross, and the header counts what is
   there: nothing is truncated by the 16-bit fields. *)
Layout ==
  /\ Size(buf) = Len(written)
  /\ Lower(buf) = slotPos(Size(buf))
  /\ Lower(buf) <= Upper(buf)
  /\ Upper(buf) <= PageSize

(* Every record Write accepted can be read back unchanged by its index, for
   ever: no later Write overwrites its bytes or its slot, and Read's checks
   never reject it. *)
RecordsKept ==
  \A i \in 0 .. Len(written) - 1 :
    CanRead(buf, i) /\ Read(buf, i) = written[i + 1]

(* No space is lost: the page refuses a record only when header, slots and
   accepted records really leave no room for it and its slot. *)
Occupied ==
  LET used[i \in 0 .. Len(written)] ==
        IF i = 0 THEN headerSize
        ELSE used[i - 1] + slotSize + Len(written[i])
  IN  used[Len(written)]
RefusedOnlyWhenFull ==
  refused # <<>> => Occupied + slotSize + Len(refused) > PageSize
=============================================================================
