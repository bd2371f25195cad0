------------------------------- MODULE Rollup -------------------------------
(***************************************************************************)
(* shardvault-core/src/rollup.rs: the counters kept for every proper prefix*)
(* of a key.  A key or prefix is the sequence of the parts between its     *)
(* slashes, so "p//b" is <<"p", "", "b">>; empty parts do not count.       *)
(***************************************************************************)
EXTENDS Integers, SequencesExt

CONSTANT U64  \* u64 arithmetic is modulo this (2^64 in the code)

ASSUME U64Assumption == U64 \in Nat \ {0}

Parts(path) == SelectSeq(path, LAMBDA part : part # "")

prefixes_of(key) ==
  {<<>>} \cup {SubSeq(Parts(key), 1, i) : i \in 1..(Len(Parts(key)) - 1)}

EmptyRollup == [aggregates |-> <<>>, sizes |-> <<>>]

NoObjects == [object_count |-> 0, byte_count |-> 0]

\* Seeded fault: an empty object is taken for an absent one.
Delta_ZeroIsAbsent(r, key, len) ==
  IF key \in DOMAIN r.sizes /\ r.sizes[key] > 0
  THEN [object_count |-> 0, byte_count |-> (len - r.sizes[key]) % U64]
  ELSE [object_count |-> 1, byte_count |-> len]

\* What a put of len bytes adds to each of its counters: an overwrite adds no
\* object, and its byte delta wraps around when the object shrinks.
Delta(r, key, len) ==
  IF key \in DOMAIN r.sizes
  THEN [object_count |-> 0, byte_count |-> (len - r.sizes[key]) % U64]
  ELSE [object_count |-> 1, byte_count |-> len]

deltas_for(r, key, len) == [prefix \in prefixes_of(key) |-> Delta(r, key, len)]

\* Rollup::get for a prefix without empty parts.
Get(aggregates, prefix) ==
  IF prefix \in DOMAIN aggregates THEN aggregates[prefix] ELSE NoObjects

\* The counters after the deltas of one put.
Add(aggregates, deltas) ==
  [prefix \in DOMAIN aggregates \cup DOMAIN deltas |->
     LET agg == Get(aggregates, prefix)
         d   == Get(deltas, prefix)
     IN  [object_count |-> agg.object_count + d.object_count,
          byte_count   |-> (agg.byte_count + d.byte_count) % U64]]

\* Rollup::record
Record(r, key, len) ==
  [aggregates |-> Add(r.aggregates, deltas_for(r, key, len)),
   sizes      |-> (key :> len) @@ r.sizes]
=============================================================================
