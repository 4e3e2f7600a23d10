--------------------------- MODULE GroupMatching ---------------------------
(***************************************************************************)
(* The client-group selectors of src/server/cgroups/group.go: wildcard    *)
(* matching of one pattern against one value (Param.matches), a pattern   *)
(* set against a client's values (ParamValues.MatchesOneOf), and the tag  *)
(* expression of a group or a job request (ParseTag, MatchesRawTags), and *)
(* the user-group ACL of a group (UserGroupIsAllowed,                     *)
(* OneOfUserGroupsIsAllowed).                                             *)
(*                                                                         *)
(* A string is a sequence of characters; LowerChar is strings.ToLower on  *)
(* one character.  A raw JSON tag expression is abstracted to the shape   *)
(* json.Unmarshal sees: a one-key object, a list, or anything else.       *)
(***************************************************************************)
EXTENDS Integers, Sequences, SequencesExt, FiniteSets

CONSTANTS
  Star,         \* the character '*'
  LowerChar,    \* strings.ToLower on one character: a function Chars -> Chars
  Nil,          \* a nil pointer (*ParamValues or *json.RawMessage)
  LowerKey      \* strings.ToLower on the keys a JSON tag object may carry

Chars == DOMAIN LowerChar

ASSUME Star \in Chars /\ LowerChar[Star] = Star

-----------------------------------------------------------------------------
(* strings.ToLower, strings.Index and strings.Split on character sequences *)

ToLower(s) == [i \in DOMAIN s |-> LowerChar[s[i]]]

\* strings.Index: the 0-based position of the first occurrence, or -1.
Index(s, sub) ==
  LET at == {i \in 0..(Len(s) - Len(sub)) : SubSeq(s, i + 1, i + Len(sub)) = sub}
  IN  IF at = {} THEN -1 ELSE Min(at)

\* strings.Split(s, sep) for a one-character separator.
RECURSIVE Split(_, _)
Split(s, sep) ==
  IF ~Contains(s, sep) THEN <<s>>
  ELSE LET i == Index(s, <<sep>>) + 1
       IN  <<SubSeq(s, 1, i - 1)>> \o Split(SubSeq(s, i + 1, Len(s)), sep)

-----------------------------------------------------------------------------
(* Param.matches: the loop that consumes every part, left to right, at its *)
(* first occurrence in what is left of the value.                         *)
RECURSIVE ScanParts(_, _)
ScanParts(value, parts) ==
  IF parts = <<>> THEN TRUE
  ELSE LET i == Index(value, Head(parts))
       IN  /\ i # -1
           /\ ScanParts(SubSeq(value, i + Len(Head(parts)) + 1, Len(value)),
                        Tail(parts))

\* Mutant: the HasSuffix check on the last part left out.
matchesNoSuffixCheck(p, v) ==
  LET str   == ToLower(p)
      value == ToLower(v)
      parts == Split(str, Star)
  IN  IF Contains(str, Star)
      THEN IsPrefix(parts[1], value) /\ ScanParts(value, parts)
      ELSE str = value

matches(p, v) ==
  LET str   == ToLower(p)
      value == ToLower(v)
      parts == Split(str, Star)
  IN  IF Contains(str, Star)
      THEN /\ IsPrefix(parts[1], value)
           /\ IsSuffix(parts[Len(parts)], value)
           /\ ScanParts(value, parts)
      ELSE str = value

\* Mutant: patterns compared with == instead of Param.matches.
MatchesOneOfExact(p, values) ==
  \/ p = Nil
  \/ p = {} /\ values = {}
  \/ p # Nil /\ \E curParam \in p, curValue \in values : curParam = curValue

(* ParamValues.MatchesOneOf: p is Nil or the set of patterns of one field; *)
(* values are the client's values of that field.                          *)
MatchesOneOf(p, values) ==
  \/ p = Nil
  \/ p = {} /\ values = {}
  \/ p # Nil /\ \E curParam \in p, curValue \in values : matches(curParam, curValue)

-----------------------------------------------------------------------------
(* A raw tag expression: form "object" is a JSON object with the single   *)
(* key `key`; form "list" a JSON list of strings; form "other" anything   *)
(* json.Unmarshal rejects as both (several keys, non-string elements).    *)
(* operands is the JSON list, in order and with its duplicates.           *)

allowedOperator(op) == LowerKey[op] \in {"and", "or"}

ParseTag(raw) ==
  CASE raw.form = "object" /\ ~allowedOperator(raw.key)
         -> [operator |-> raw.key, operands |-> <<>>, err |-> TRUE]
    [] raw.form = "object" /\ raw.operands = <<>>
         -> [operator |-> raw.key, operands |-> <<>>, err |-> TRUE]
    [] raw.form = "object"
         -> [operator |-> raw.key, operands |-> raw.operands, err |-> FALSE]
    [] raw.form = "list" /\ raw.operands # <<>>
         -> [operator |-> "or", operands |-> raw.operands, err |-> FALSE]
    [] OTHER
         -> [operator |-> "or", operands |-> <<>>, err |-> TRUE]

\* Mutant: the "and" case tests len(matches) > 0 like "or".
MatchesRawTagsAndAsOr(p, values) ==
  \/ p = Nil
  \/ p # Nil /\ p.form = "empty" /\ values = {}
  \/ p # Nil /\
     LET r       == ParseTag(p)
         matched == {o \in Range(r.operands) : \E v \in values : matches(o, v)}
     IN  /\ ~r.err
         /\ Len(r.operands) > 0
         /\ r.operator \in {"and", "or"}
         /\ matched # {}

(* MatchesRawTags: `matched` is the key set of the Go map `matches`: an    *)
(* operand string is put in it once some tag matches it.                  *)
MatchesRawTags(p, values) ==
  \/ p = Nil
  \/ p # Nil /\ p.form = "empty" /\ values = {}
  \/ p # Nil /\
     LET r       == ParseTag(p)
         matched == {o \in Range(r.operands) : \E v \in values : matches(o, v)}
     IN  /\ ~r.err
         /\ Len(r.operands) > 0
         /\ \/ r.operator = "and" /\ Cardinality(matched) = Len(r.operands)
            \/ r.operator = "or"  /\ matched # {}

-----------------------------------------------------------------------------
(* ClientGroup.UserGroupIsAllowed and OneOfUserGroupsIsAllowed.           *)

UserGroupIsAllowed(allowedUserGroups, requiredUserGroup) ==
  requiredUserGroup \in allowedUserGroups

OneOfUserGroupsIsAllowed(allowedUserGroups, userGroups) ==
  \E userGroup \in userGroups : UserGroupIsAllowed(allowedUserGroups, userGroup)

=============================================================================
