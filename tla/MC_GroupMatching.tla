-------------------------- MODULE MC_GroupMatching --------------------------
(***************************************************************************)
(* Checks the matchers of GroupMatching against reference definitions     *)
(* written from the selector semantics the specification states (section *)
(* 4.2), and the problem sorting of ProblemSorting against the order its  *)
(* sort options ask for, over every input in small bounded sets.  The     *)
(* single variable `input` is the call under test, `called` whether it   *)
(* has been made and `result` what it returned.                           *)
(***************************************************************************)
EXTENDS GroupMatching, ProblemSorting

CONSTANTS
  Letters,       \* characters a client value is made of
  MaxPatternLen, \* longest pattern and value enumerated
  FieldPatterns, \* candidate patterns of one group field
  FieldValues,   \* candidate values of one client field
  TagPatterns,   \* candidate operands of a tag expression
  TagValues,     \* candidate client tags
  TagKeys,       \* keys a JSON tag object may carry
  MaxOperands,   \* longest operand list enumerated
  DistinctOperandsOnly, \* restrict operand lists to duplicate-free ones
  NonEmptyFieldsOnly,   \* restrict field pattern sets to non-empty ones
  SortKeys,      \* rule and client ids of a problem
  Times,         \* CreatedAt and ResolvedAt values
  MaxProblems,   \* longest problem list enumerated
  SortColumns    \* columns a sort option names

VARIABLES input, called, result
vars == <<input, called, result>>

Strings(S, n) == UNION {[1..k -> S] : k \in 0..n}

Patterns == Strings(Letters \cup {Star}, MaxPatternLen)
Values   == Strings(Letters, MaxPatternLen)

OperandLists ==
  {ops \in Strings(TagPatterns, MaxOperands) :
     DistinctOperandsOnly => Len(ops) = Cardinality(Range(ops))}

RawTags ==
  [form : {"object"}, key : TagKeys, operands : OperandLists]
  \cup [form : {"list"}, key : {Nil}, operands : OperandLists]
  \cup [form : {"other"}, key : {Nil}, operands : {<<>>}]

FieldSets == {p \in SUBSET FieldPatterns : NonEmptyFieldsOnly => p # {}}

WildcardInputs == [check : {"wildcard"}, p : Patterns, v : Values]
FieldInputs    == [check : {"field"}, p : FieldSets \cup {Nil},
                   values : SUBSET FieldValues]
TagInputs      == [check : {"tags"}, p : RawTags \cup {Nil},
                   values : SUBSET TagValues]

\* Problem lists with distinct ids 1..n, so that a result is checked to be
\* a permutation of its input.  Only the state column reads `active`, so
\* it is left FALSE unless SortColumns names state.
ProblemLists ==
  UNION {[1..n -> [rule : SortKeys, client : SortKeys,
                   active : IF "state" \in SortColumns THEN BOOLEAN ELSE {FALSE},
                   created : Times, resolved : Times]] : n \in 0..MaxProblems}
Numbered(l) == [i \in DOMAIN l |-> l[i] @@ [id |-> i]]

SortOptions == [col : SortColumns, asc : BOOLEAN]
SortInputs ==
  [check : {"sort"}, problems : {Numbered(l) : l \in ProblemLists},
   sorts : {<<>>} \cup {<<o>> : o \in SortOptions} \cup {<<o, o>> : o \in SortOptions}]

-----------------------------------------------------------------------------
(* Constant values for the configurations.                                *)
MCLowerChar == [c \in {"a", "b", "A", "*"} |-> IF c = "A" THEN "a" ELSE c]
MCLowerKey  == [k \in {"and", "or", "AND", "xor"} |-> IF k = "AND" THEN "and" ELSE k]
MCFieldPatterns == {<<"a">>, <<"A", "*">>, <<"*", "b">>}
MCFieldValues   == {<<>>, <<"a", "b">>, <<"b">>}
MCTagPatterns   == {<<"a">>, <<"a", "*">>, <<"*", "b">>, <<"A", "b">>}
MCTagValues     == {<<"a">>, <<"a", "b">>, <<"b">>}
MCKeyRank       == [k \in {"a", "A", "b"} |-> IF k = "b" THEN 2 ELSE 1]

Inputs == WildcardInputs \cup FieldInputs \cup TagInputs \cup SortInputs

Init == input \in Inputs /\ called = FALSE /\ result = FALSE

\* The matcher under test, called on the input.
Matcher(i) ==
  CASE i.check = "wildcard" -> matches(i.p, i.v)
    [] i.check = "field"    -> MatchesOneOf(i.p, i.values)
    [] i.check = "tags"     -> MatchesRawTags(i.p, i.values)
    [] i.check = "sort"     ->
         LET f == SortProblemsFunc(i.sorts)
         IN  IF f.err THEN "400" ELSE ApplySort(f.fn, i.problems, f.desc)

Call ==
  /\ ~called
  /\ called' = TRUE
  /\ result' = Matcher(input)
  /\ UNCHANGED input

Next == Call

Spec == Init /\ [][Next]_vars

-----------------------------------------------------------------------------
(* Reference semantics, from the specification: a pattern with '*'        *)
(* matches a value (case-insensitively) iff the value is the parts of the *)
(* pattern in order with arbitrary text in place of each '*'; without '*' *)
(* it requires equality.                                                  *)
RECURSIVE Glob(_, _)
Glob(pat, s) ==
  IF pat = <<>> THEN s = <<>>
  ELSE IF Head(pat) = Star
       THEN Glob(Tail(pat), s) \/ (s # <<>> /\ Glob(pat, Tail(s)))
       ELSE s # <<>> /\ Head(pat) = Head(s) /\ Glob(Tail(pat), Tail(s))

WildcardRef(p, v) == Glob(ToLower(p), ToLower(v))

\* An absent or empty field matches every client; otherwise some pattern
\* matches some value of the field.
FieldRef(p, values) ==
  p = Nil \/ p = {} \/ \E cp \in p, v \in values : WildcardRef(cp, v)

\* "and": every operand matched by some tag; "or": some operand matched;
\* an absent expression matches everything; an invalid one nothing.
TagRef(p, values) ==
  \/ p = Nil
  \/ LET op    == IF p.form = "list" THEN "or" ELSE LowerKey[p.key]
         hit(o) == \E t \in values : WildcardRef(o, t)
     IN  /\ p.form \in {"object", "list"}
         /\ p.operands # <<>>
         /\ \/ op = "and" /\ \A i \in DOMAIN p.operands : hit(p.operands[i])
            \/ op = "or"  /\ \E i \in DOMAIN p.operands : hit(p.operands[i])

-----------------------------------------------------------------------------
(* Param.matches (the prefix, suffix and left-to-right scan of the parts)  *)
(* decides exactly the wildcard language: no pattern with several '*',    *)
(* overlapping parts or an empty part is matched differently.             *)
WildcardMatchesReference ==
  input.check = "wildcard" /\ called => (result <=> WildcardRef(input.p, input.v))

(* ParamValues.MatchesOneOf selects the clients the specification's field  *)
(* rule selects: OR within a field, an absent or empty field matching all. *)
FieldMatchesReference ==
  input.check = "field" /\ called => (result <=> FieldRef(input.p, input.values))

(* MatchesRawTags (ParseTag and the operand map) selects the clients whose *)
(* tags satisfy the and/or expression, as the specification defines it.   *)
TagsMatchReference ==
  input.check = "tags" /\ called => (result <=> TagRef(input.p, input.values))

(* A group's field and tag selectors together (ClientGroup's Params and    *)
(* Tags) select the clients the specification's rules select, also for    *)
(* the inputs the pass run leaves out: empty field lists, repeated and-    *)
(* operands and operator keys in upper case.                              *)
SelectionMatchesReference == FieldMatchesReference /\ TagsMatchReference

-----------------------------------------------------------------------------
(* Reference order of a problem list: the order asked for is the sort     *)
(* option's column and direction, created_at descending without one.      *)
SortKey(col, p) ==
  CASE col = "rule_id"     -> KeyRank[p.rule]
    [] col = "client_id"   -> KeyRank[p.client]
    [] col = "created_at"  -> p.created
    [] col = "resolved_at" -> p.resolved

OrderedBy(s, col, desc) ==
  \A i, j \in DOMAIN s :
     i < j => IF desc THEN SortKey(col, s[i]) >= SortKey(col, s[j])
                      ELSE SortKey(col, s[i]) <= SortKey(col, s[j])

SameProblems(s, t) == Len(s) = Len(t) /\ Range(s) = Range(t)

(* SortProblemsFunc and the SortProblemsBy* functions it returns leave the *)
(* problems a permutation of themselves in the order the sort option asks *)
(* for, descending ones included, whose comparator `!less` is not strict  *)
(* and swaps equal keys, and refuse more than one option with a 400.      *)
SortMatchesReference ==
  input.check = "sort" /\ called =>
    IF Len(input.sorts) > 1 THEN result = "400"
    ELSE LET col  == IF input.sorts = <<>> THEN "created_at" ELSE input.sorts[1].col
             desc == IF input.sorts = <<>> THEN TRUE ELSE ~input.sorts[1].asc
         IN  SameProblems(result, input.problems) /\ OrderedBy(result, col, desc)

(* Sorting by state (SortProblemsByState) puts the active problems on one *)
(* side and the resolved ones on the other.  Not checked by a run: its    *)
(* comparator `Active == Active` is no ordering, and TLC finds three      *)
(* problems it leaves interleaved (alerts.go:83).                         *)
StateSortGroups ==
  input.check = "sort" /\ called /\ input.sorts # <<>> /\ Len(input.sorts) = 1
    /\ input.sorts[1].col = "state" =>
      ~\E i, j, k \in DOMAIN result :
          i < j /\ j < k /\ result[i].active = result[k].active
                        /\ result[j].active # result[i].active

(* Every sort column SupportedProblemsSorts accepts gets a sort function  *)
(* from SortProblemsFunc.  Not checked by a run: active and client_name   *)
(* fall through the switch and give a nil sortFunc with no error          *)
(* (alerts.go:25-33,122-133).                                             *)
SupportedSortHasFunc ==
  \A col \in SupportedProblemsSorts :
     SortProblemsFunc(<<[col |-> col, asc |-> TRUE]>>).fn # NoSort

=============================================================================
