\* Every wildcard pattern of up to 5 characters over {a, b, A, *} against
\* every value of up to 5 characters; field and tag selectors outside the
\* cases the violation runs isolate (empty field sets, duplicate operands,
\* upper-case operator keys); problem lists of up to 3 problems, ids
\* differing only in case, equal keys and every sort column the switch
\* orders by, ascending, descending, absent and given twice.
CONSTANTS
  Star = "*"
  Nil = Nil
  LowerChar <- MCLowerChar
  LowerKey <- MCLowerKey
  Letters = {"a", "b", "A"}
  MaxPatternLen = 5
  FieldPatterns <- MCFieldPatterns
  FieldValues <- MCFieldValues
  TagPatterns <- MCTagPatterns
  TagValues <- MCTagValues
  TagKeys = {"and", "or", "xor"}
  MaxOperands = 3
  DistinctOperandsOnly = TRUE
  NonEmptyFieldsOnly = TRUE
  KeyRank <- MCKeyRank
  NoSort = NoSort
  SortKeys = {"a", "A", "b"}
  Times = {0, 1}
  MaxProblems = 3
  SortColumns = {"rule_id", "client_id", "created_at", "resolved_at"}
SPECIFICATION Spec
INVARIANTS
  WildcardMatchesReference
  FieldMatchesReference
  TagsMatchReference
  SortMatchesReference
CHECK_DEADLOCK FALSE
