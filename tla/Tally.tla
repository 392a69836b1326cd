------------------------------- MODULE Tally -------------------------------
(***************************************************************************)
(* Storage maps and their totals.                                          *)
(*                                                                         *)
(* The contract keeps each kind of record under its own family of keys     *)
(* (contracts/src/storage.rs, StorageKey).  A family is a partial function *)
(* here: a key that was never written is outside its domain.               *)
(*                                                                         *)
(* A total counts the units held under all keys: unit i of key k is the    *)
(* pair <<k, i>>.  The community modules' SumFunction is a fold, about     *)
(* which the prover can show nothing; counting units gives the same number *)
(* (an assumption of MC_BillingContract has TLC compare the two) and is    *)
(* within reach of the library's facts on cardinality.                     *)
(***************************************************************************)
EXTENDS Integers, FiniteSets

\* env.storage().persistent().set(key, value)
Put(f, k, v) == [x \in DOMAIN f \cup {k} |-> IF x = k THEN v ELSE f[x]]

\* env.storage().persistent().get(key).unwrap_or(default)
GetOr(f, k, default) == IF k \in DOMAIN f THEN f[k] ELSE default

Units(f) == UNION {{k} \X (1..f[k]) : k \in DOMAIN f}

\* The sum of a map with natural-number values.
Total(f) == Cardinality(Units(f))

============================================================================
