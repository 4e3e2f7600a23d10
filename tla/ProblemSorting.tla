--------------------------- MODULE ProblemSorting ---------------------------
(***************************************************************************)
(* The sorting of alert problems in src/server/alerts/alerts.go:           *)
(* SortProblemsFunc picks a comparator from the request's sort options,    *)
(* and each SortProblemsBy* function runs sort.Slice over the problems    *)
(* with it, negating the comparator for a descending sort.                *)
(*                                                                         *)
(* sort.Slice sorts a slice of at most 12 elements by insertion sort      *)
(* (insertionSortLessFunc of the Go library): element i is swapped left   *)
(* while less(data[j], data[j-1]) holds.  The instances checked are that  *)
(* short, so SortSlice is that insertion sort, whatever the comparator    *)
(* is, a non-strict one included.                                         *)
(*                                                                         *)
(* A problem is a record [id, rule, client, active, created, resolved];    *)
(* ids are compared as the rank of their lower-case form, times as       *)
(* naturals (an unresolved problem's ResolvedAt is the zero time, 0).     *)
(***************************************************************************)
EXTENDS Naturals, Sequences

CONSTANTS
  KeyRank,  \* rule or client id -> the rank of strings.ToLower of it
  NoSort    \* the nil sortFunc

\* The columns SortProblemsFunc's switch names.
SwitchColumns == {"rule_id", "client_id", "state", "created_at", "resolved_at"}

\* The sort columns SupportedProblemsSorts allows (its true entries).
SupportedProblemsSorts ==
  {"rule_id", "client_id", "client_name", "active", "created_at", "resolved_at"}

SwapAt(s, j) == [s EXCEPT ![j] = s[j - 1], ![j - 1] = s[j]]

\* sort.Slice(s, less) on a short slice: one insertion pass per element.
SortSlice(Less(_, _), s) ==
  LET RECURSIVE Sink(_, _), Pass(_, _)
      Sink(t, j) == IF j > 1 /\ Less(t[j], t[j - 1]) THEN Sink(SwapAt(t, j), j - 1) ELSE t
      Pass(t, i) == IF i > Len(t) THEN t ELSE Pass(Sink(t, i), i + 1)
  IN  Pass(s, 2)

\* The comparator a SortProblemsBy* function hands sort.Slice.
Directed(desc, less) == IF desc THEN ~less ELSE less

\* Mutant: a comparator that ignores the direction.
SortProblemsByRuleIDAscOnly(ps, desc) ==
  SortSlice(LAMBDA a, b : KeyRank[a.rule] < KeyRank[b.rule], ps)

SortProblemsByRuleID(ps, desc) ==
  SortSlice(LAMBDA a, b : Directed(desc, KeyRank[a.rule] < KeyRank[b.rule]), ps)

SortProblemsByClientID(ps, desc) ==
  SortSlice(LAMBDA a, b : Directed(desc, KeyRank[a.client] < KeyRank[b.client]), ps)

SortProblemsByState(ps, desc) ==
  SortSlice(LAMBDA a, b : Directed(desc, a.active = b.active), ps)

SortProblemsByCreatedAt(ps, desc) ==
  SortSlice(LAMBDA a, b : Directed(desc, a.created < b.created), ps)

SortProblemsByResolvedAt(ps, desc) ==
  SortSlice(LAMBDA a, b : Directed(desc, a.resolved < b.resolved), ps)

(* SortProblemsFunc: no sort option is created_at descending, more than   *)
(* one a 400 error, otherwise the switch's function (nil for a column it  *)
(* does not name) and the option's direction.                             *)
SortProblemsFunc(sorts) ==
  CASE Len(sorts) < 1 -> [fn |-> "created_at", desc |-> TRUE, err |-> FALSE]
    [] Len(sorts) > 1 -> [fn |-> NoSort, desc |-> FALSE, err |-> TRUE]
    [] OTHER -> [fn   |-> IF sorts[1].col \in SwitchColumns THEN sorts[1].col ELSE NoSort,
                 desc |-> ~sorts[1].asc,
                 err  |-> FALSE]

\* Calling the chosen sortFunc on the problems.
ApplySort(fn, ps, desc) ==
  CASE fn = "rule_id"     -> SortProblemsByRuleID(ps, desc)
    [] fn = "client_id"   -> SortProblemsByClientID(ps, desc)
    [] fn = "state"       -> SortProblemsByState(ps, desc)
    [] fn = "created_at"  -> SortProblemsByCreatedAt(ps, desc)
    [] fn = "resolved_at" -> SortProblemsByResolvedAt(ps, desc)

=============================================================================
