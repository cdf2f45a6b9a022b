\* Three typed lines of up to two symbols; WHERE clauses of up to five symbols;
\* bytes of two bits, integers of two bytes.
SPECIFICATION Spec
CONSTANTS
  Lines <- MCLines
  MaxTyped = 3
  MaxWhere = 5
  MaxInt64 = 7
  ByteBase = 4
  IntBytes = 2
  Chars <- MCChars
INVARIANTS LinesBecomeStatements WhereIsExact AcceptedFilterIsSafe
INVARIANTS StatementsReadBack RowsReadBack
CHECK_DEADLOCK FALSE
