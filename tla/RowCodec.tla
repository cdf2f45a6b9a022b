------------------------------ MODULE RowCodec ------------------------------
(***************************************************************************)
(* Rows and the filter on them: HeapTupleSerializer, serializeRow and      *)
(* deserializeRow of TableHeap, and the evaluation of a resolved predicate *)
(* by FilterExecutor.  A value is <<"int64", number>> or                   *)
(* <<"string", characters>>; a byte is a number below ByteBase, where the  *)
(* code has 256, and an INT64 has IntBytes of them, where the code has 8.  *)
(***************************************************************************)
EXTENDS Integers, Sequences

CONSTANTS
  ByteBase,
  IntBytes,
  Chars       \* Chars[b + 1] is the character of byte b

ASSUME ByteBaseAssumption == ByteBase \in Nat \ {0, 1}
ASSUME IntBytesAssumption == IntBytes \in Nat \ {0}
ASSUME CharsAssumption ==
  /\ DOMAIN Chars = 1 .. ByteBase
  /\ \A i, j \in DOMAIN Chars : Chars[i] = Chars[j] => i = j

Words == ByteBase ^ IntBytes
MaxInt == Words \div 2 - 1
MinInt == - (Words \div 2)
maxVarCharLength == ByteBase - 1

Failure(how) == [ok |-> FALSE, how |-> how]
Done(value) == [ok |-> TRUE, val |-> value]

-----------------------------------------------------------------------------
\* []byte(str) and string(payload).
Encode(str) == [i \in DOMAIN str |-> (CHOOSE b \in DOMAIN Chars : Chars[b] = str[i]) - 1]
Decode(bytes) == [i \in DOMAIN bytes |-> Chars[bytes[i] + 1]]

\* uint64(n), big endian.
PutUint(n) ==
  [i \in 1 .. IntBytes |-> ((n % Words) \div ByteBase ^ (IntBytes - i)) % ByteBase]

RECURSIVE Uint(_)
Uint(bytes) ==
  IF bytes = <<>> THEN 0
  ELSE Uint(SubSeq(bytes, 1, Len(bytes) - 1)) * ByteBase + bytes[Len(bytes)]

\* int64(u): the upper half of the range is negative.
Signed(u) == IF u > MaxInt THEN u - Words ELSE u

\* The check of the length comes one too late: byte(len(b)) wraps.
SerializeLate(value, type) ==
  CASE type = "INT64" /\ value[1] = "int64" -> Done(PutUint(value[2]))
    [] type = "VARCHAR" /\ value[1] = "string" ->
         IF Len(value[2]) > maxVarCharLength + 1 THEN Failure("too long")
         ELSE Done(<<Len(value[2]) % ByteBase>> \o Encode(value[2]))
    [] OTHER -> Failure("type mismatch")

Serialize(value, type) ==
  CASE type = "INT64" /\ value[1] = "int64" -> Done(PutUint(value[2]))
    [] type = "VARCHAR" /\ value[1] = "string" ->
         IF Len(value[2]) > maxVarCharLength THEN Failure("too long")
         ELSE Done(<<Len(value[2]) % ByteBase>> \o Encode(value[2]))
    [] OTHER -> Failure("type mismatch")

Deserialize(data, type) ==
  IF type = "INT64"
  THEN IF Len(data) # IntBytes THEN Failure("size") ELSE Done(<<"int64", Signed(Uint(data))>>)
  ELSE IF data = <<>> \/ Len(data) # 1 + data[1] THEN Failure("length")
  ELSE Done(<<"string", Decode(Tail(data))>>)

RECURSIVE serializeRow(_, _)
serializeRow(types, values) ==
  IF types = <<>> THEN Done(<<>>)
  ELSE LET field == Serialize(Head(values), Head(types))
           rest == serializeRow(Tail(types), Tail(values))
       IN  IF ~field.ok THEN field ELSE IF ~rest.ok THEN rest
           ELSE Done(field.val \o rest.val)

\* getFieldLength: data[0] of nothing panics.
getFieldLength(type, data) ==
  IF type = "INT64" THEN IntBytes ELSE 1 + data[1]

\* What is left of data when its columns begin; a slice beyond the end panics.
RECURSIVE deserializeRow(_, _)
deserializeRow(types, data) ==
  IF types = <<>> THEN Done(<<>>)
  ELSE IF (Head(types) = "VARCHAR" /\ data = <<>>)
          \/ getFieldLength(Head(types), data) > Len(data)
  THEN Failure("panic")
  ELSE LET n == getFieldLength(Head(types), data)
           field == Deserialize(SubSeq(data, 1, n), Head(types))
           rest == deserializeRow(Tail(types), SubSeq(data, n + 1, Len(data)))
       IN  IF ~field.ok THEN field ELSE IF ~rest.ok THEN rest
           ELSE Done(<<field.val>> \o rest.val)

-----------------------------------------------------------------------------
\* FilterExecutor.  A result is a value, <<"bool", b>>, or <<"panic">>.
Panic == <<"panic">>

RECURSIVE StringLess(_, _)
StringLess(s, t) ==
  t # <<>> /\ \/ s = <<>>
              \/ Head(s) < Head(t)
              \/ Head(s) = Head(t) /\ StringLess(Tail(s), Tail(t))

compare(a, b) ==
  IF a[1] = "int64"
  THEN IF a[2] < b[2] THEN -1 ELSE IF a[2] > b[2] THEN 1 ELSE 0
  ELSE IF StringLess(Encode(a[2]), Encode(b[2])) THEN -1
  ELSE IF StringLess(Encode(b[2]), Encode(a[2])) THEN 1 ELSE 0

Compares(op, a, b) ==
  CASE op = "LT" -> compare(a, b) < 0 [] op = "LE" -> compare(a, b) <= 0
    [] op = "GT" -> compare(a, b) > 0 [] op = "GE" -> compare(a, b) >= 0

RECURSIVE eval(_, _)

\* evalBool: what is no boolean counts as false.
evalBool(expr, row) ==
  LET v == eval(expr, row) IN
  IF v = Panic \/ v[1] = "bool" THEN v ELSE <<"bool", FALSE>>

\* AND and OR look at their right side only when they have to.
evalLogical(op, left, right, row) ==
  LET l == evalBool(left, row) IN
  IF l = Panic \/ l[2] = (op = "OR") THEN l ELSE evalBool(right, row)

\* compare takes booleans for equal; its type assertion on the right side
\* panics when the types differ.
evalComparison(op, l, r) ==
  CASE Panic \in {l, r} -> Panic
    [] op \in {"EQ", "NE"} -> <<"bool", (l[1] = r[1] /\ l[2] = r[2]) = (op = "EQ")>>
    [] l[1] = "bool" -> <<"bool", op \in {"LE", "GE"}>>
    [] l[1] # r[1] -> Panic
    [] OTHER -> <<"bool", Compares(op, l, r)>>

eval(expr, row) ==
  CASE expr[1] = "position" -> row[expr[2]]
    [] expr[1] \in {"int64", "string"} -> expr
    [] expr[1] \in {"AND", "OR"} -> evalLogical(expr[1], expr[2], expr[3], row)
    [] OTHER -> evalComparison(expr[1], eval(expr[2], row), eval(expr[3], row))
=============================================================================
