------------------------------ MODULE Filters ------------------------------
(***************************************************************************)
(* insights/core/filters.py: the filters plugins add to datasources, and   *)
(* what a datasource is told of them.  A filter is a key, a string that a  *)
(* line has to contain, with the number of lines it may match; the number  *)
(* is 0 for a key that is not a filter.                                    *)
(***************************************************************************)
EXTENDS Integers, FiniteSets

CONSTANTS
  Datasource,   \* the filterable datasources, registry points among them
  Downstream,   \* of a datasource: itself and those that depend on it
  Key,
  MAX_MATCH

ASSUME FiltersAssumption ==
  /\ Downstream \in [Datasource -> SUBSET Datasource]
  /\ \A c \in Datasource : c \in Downstream[c]
  /\ \A c \in Datasource : \A d \in Downstream[c] : Downstream[d] \subseteq Downstream[c]
  /\ MAX_MATCH \in Nat \ {0}

Filter == [Key -> 0 .. MAX_MATCH]
NoFilters == [k \in Key |-> 0]
Keys(f) == {k \in Key : f[k] > 0}

VARIABLES
  FILTERS,   \* Datasource -> the filters added to it
  CACHE,     \* Datasource -> what get_filters answered,
  cached     \* for those of which the answer is remembered

filterVars == <<FILTERS, CACHE, cached>>

FiltersInit ==
  /\ FILTERS = [c \in Datasource |-> NoFilters]
  /\ CACHE = [c \in Datasource |-> NoFilters]
  /\ cached = {}

Larger(a, b) == IF a > b THEN a ELSE b

\* Mutant of AddFilter: what was answered is not forgotten.
AddFilterCached(c, k, m) ==
  /\ FILTERS' = [FILTERS EXCEPT ![c][k] = Larger(@, m)]
  /\ UNCHANGED <<CACHE, cached>>

\* A parser's filter goes to each datasource it depends on in turn.
AddFilter(c, k, m) ==
  /\ FILTERS' = [FILTERS EXCEPT ![c][k] = Larger(@, m)]
  /\ cached' = cached \ {c}
  /\ UNCHANGED CACHE

\* The filters of all that depend on c are added to its own.  The most remote
\* one decides on the number of lines, not the largest.
Answers(c) ==
  { f \in Filter :
      \A k \in Key :
        LET having == {d \in Downstream[c] : FILTERS[d][k] > 0} IN
          IF having = {} THEN f[k] = 0
          ELSE \E d \in having :
                 Downstream[d] \cap having = {d} /\ f[k] = FILTERS[d][k] }

Answer(c, f) ==
  IF c \in cached
    THEN f = CACHE[c] /\ UNCHANGED filterVars
    ELSE /\ f \in Answers(c)
         /\ CACHE' = [CACHE EXCEPT ![c] = f]
         /\ cached' = cached \cup {c}
         /\ UNCHANGED FILTERS

GetFilters(c) == c \notin cached /\ \E f \in Filter : Answer(c, f)

FiltersTypeOK ==
  /\ FILTERS \in [Datasource -> Filter]
  /\ CACHE \in [Datasource -> Filter]
  /\ cached \subseteq Datasource

\* Whatever was asked before, a datasource is told of every filter that was added
\* to itself: an answer that is remembered has all of them.
OwnFiltersCurrent ==
  \A c \in cached : Keys(FILTERS[c]) \subseteq Keys(CACHE[c])
=============================================================================
