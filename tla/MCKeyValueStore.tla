--------------------------- MODULE MCKeyValueStore ---------------------------
(***************************************************************************)
(* Small instances of KeyValueStore.  Keys have 3 bytes and values 4 or 0, *)
(* so that a pair takes 8 or 4 bytes after rounding and a page of 64 bytes *)
(* holds two pairs with a value or three without one.                      *)
(***************************************************************************)
EXTENDS KeyValueStore, TLC

CONSTANTS a, b

MCKeySize == [k \in Keys |-> 3]
MCValueSize == [v \in Values |-> IF v = a THEN 4 ELSE 0]

Symmetry == Permutations(Keys)

\* Power may fail anywhere, or only where no data lacks its metadata.
Anywhere == PC
BetweenRecords == PC \ {"commit", "collect_commit"}
=============================================================================
