----------------------------- MODULE ResultTable -----------------------------
(***************************************************************************)
(* The console table of func and sampling mode (src/func.c, src/sampling.c,*)
(* src/helpers.c): the units are sorted, the first limit of them are       *)
(* copied to a new hash table, and those above the threshold get a row.    *)
(*                                                                         *)
(* The engine's side, taken from how the extension uses it:                *)
(*  - zend_hash_sort moves the elements to some order that the comparison  *)
(*    allows; this comparison says nothing about elements it finds equal.  *)
(*  - zend_hash_init takes a uint32_t, so it drops the upper bits of the   *)
(*    limit; it rounds up to a power of two, refuses more than HT_MAX_SIZE *)
(*    and leaves it to the first insertion to allocate all the slots.      *)
(*  - An allocation beyond the memory limit abandons the report.           *)
(*                                                                         *)
(* A table is the sequence of its elements, [name, value], in their order, *)
(* the value being the wall time or the hits.                              *)
(***************************************************************************)
EXTENDS Integers, SequencesExt

CONSTANTS
  Limits, Thresholds,      \* prof.*_limit and prof.*_threshold
  UintWidth,               \* bits of a uint32_t
  HT_MIN_SIZE, HT_MAX_SIZE,
  MaxSlots                 \* slots that fit into the memory limit

ASSUME ResultTableAssumption ==
  /\ Limits \subseteq Nat \ {0} /\ Thresholds \subseteq Nat
  /\ UintWidth \in Nat /\ HT_MIN_SIZE \in Nat \ {0} /\ HT_MAX_SIZE \in Nat
  /\ MaxSlots \in Nat

VARIABLES
  table_step,        \* "sort", "init", "slice", "rows", "printed" or "bailed"
  limit, threshold,
  units,             \* the table of the mode
  res, size,         \* the slice, and the slots it asks for
  p,                 \* the position in units or in res
  rows               \* the rows of the printed table

tableVars == <<table_step, limit, threshold, units, res, size, p, rows>>

TableInit(table) ==
  /\ table_step = "sort"
  /\ limit \in Limits /\ threshold \in Thresholds
  /\ units = table
  /\ res = << >> /\ size = 0 /\ p = 1 /\ rows = << >>

-----------------------------------------------------------------------------
(***************************************************************************)
(* zend_hash_sort with prof_compare_func_units or                          *)
(* prof_compare_sampling_units.                                            *)
(***************************************************************************)
NotAfter(f, s) == f.value >= s.value
SmallestFirst(f, s) == f.value <= s.value         \* a mutated form

SortTableReversed ==                              \* a mutated form
  /\ table_step = "sort" /\ table_step' = "init"
  /\ units' \in {u \in SetToSeqs(ToSet(units)) : IsSorted(u, SmallestFirst)}
  /\ UNCHANGED <<limit, threshold, res, size, p, rows>>

SortTable ==
  /\ table_step = "sort" /\ table_step' = "init"
  /\ units' \in {u \in SetToSeqs(ToSet(units)) : IsSorted(u, NotAfter)}
  /\ UNCHANGED <<limit, threshold, res, size, p, rows>>

-----------------------------------------------------------------------------
(***************************************************************************)
(* ht_slice.                                                               *)
(***************************************************************************)
Requested == limit % (2 ^ UintWidth)

Rounded(n) ==
  LET sizes == {HT_MIN_SIZE * 2 ^ k : k \in 0..UintWidth}
  IN  CHOOSE s \in sizes : s >= n /\ \A t \in sizes : t >= n => s <= t

InitSlice ==
  /\ table_step = "init"
  /\ IF Requested > HT_MAX_SIZE
     THEN table_step' = "bailed" /\ UNCHANGED size
     ELSE table_step' = "slice" /\ size' = Rounded(Requested)
  /\ UNCHANGED <<limit, threshold, units, res, p, rows>>

Needed == IF Len(res) = size THEN 2 * size ELSE size

SliceStepFromZero ==      \* a mutated form: the loop that follows starts at 0
  /\ table_step = "slice"
  /\ IF p > Len(units) \/ Len(res) >= limit
     THEN table_step' = "rows" /\ p' = 0 /\ UNCHANGED <<res, size>>
     ELSE res' = Append(res, units[p]) /\ p' = p + 1 /\ UNCHANGED <<table_step, size>>
  /\ UNCHANGED <<limit, threshold, units, rows>>

SliceStep ==
  /\ table_step = "slice"
  /\ IF p > Len(units) \/ Len(res) >= limit
     THEN table_step' = "rows" /\ p' = 1 /\ UNCHANGED <<res, size>>
     ELSE IF Needed > MaxSlots
     THEN table_step' = "bailed" /\ UNCHANGED <<p, res, size>>
     ELSE /\ res' = Append(res, units[p])
          /\ size' = Needed /\ p' = p + 1
          /\ UNCHANGED table_step
  /\ UNCHANGED <<limit, threshold, units, rows>>

(***************************************************************************)
(* The loop over the slice that writes the rows.                           *)
(***************************************************************************)
RowStep ==
  /\ table_step = "rows"
  /\ IF p > Len(res)
     THEN table_step' = "printed" /\ UNCHANGED <<p, rows>>
     ELSE /\ rows' = IF res[p].value <= threshold THEN rows ELSE Append(rows, res[p])
          /\ p' = p + 1
          /\ UNCHANGED table_step
  /\ UNCHANGED <<limit, threshold, units, res, size>>

TableNext == SortTable \/ InitSlice \/ SliceStep \/ RowStep

-----------------------------------------------------------------------------
TableTypeOK ==
  /\ table_step \in {"sort", "init", "slice", "rows", "printed", "bailed"}
  /\ limit \in Limits /\ threshold \in Thresholds
  /\ ToSet(res) \subseteq ToSet(units) /\ ToSet(rows) \subseteq ToSet(res)
  /\ size \in Nat /\ p \in Nat \ {0}

(***************************************************************************)
(* A printed table is the top of the profile (readme.md:54-55, 87-88): its *)
(* rows are in order, none is at or below the threshold, there are at most *)
(* limit of them, and a function above the threshold is left out only for  *)
(* limit others that are not below it; also when the limit does not fit    *)
(* into the size that it is passed as.                                     *)
(***************************************************************************)
TopN ==
  table_step = "printed" =>
    /\ IsSorted(rows, NotAfter) /\ IsInjective(rows)
    /\ ToSet(rows) \subseteq {u \in ToSet(units) : u.value > threshold}
    /\ Len(rows) <= limit
    /\ \A u \in ToSet(units) \ ToSet(rows) :
         u.value > threshold =>
           Len(rows) = limit /\ \A i \in DOMAIN rows : rows[i].value >= u.value
=============================================================================
