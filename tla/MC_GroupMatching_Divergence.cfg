\* Field and tag selectors on the inputs the specification covers and the
\* pass run leaves out: an empty field list, an and-list naming an operand
\* twice, and a tag object keyed "AND" (allowedOperator lowers the key).
CONSTANTS
  Star = "*"
  Nil = Nil
  LowerChar <- MCLowerChar
  LowerKey <- MCLowerKey
  Letters = {"a", "b", "A"}
  MaxPatternLen = 2
  FieldPatterns <- MCFieldPatterns
  FieldValues <- MCFieldValues
  TagPatterns <- MCTagPatterns
  TagValues <- MCTagValues
  TagKeys = {"and", "or", "AND"}
  MaxOperands = 2
  DistinctOperandsOnly = FALSE
  NonEmptyFieldsOnly = FALSE
  KeyRank <- MCKeyRank
  NoSort = NoSort
  SortKeys = {"a"}
  Times = {0}
  MaxProblems = 0
  SortColumns = {}
SPECIFICATION Spec
INVARIANT SelectionMatchesReference
CHECK_DEADLOCK FALSE
