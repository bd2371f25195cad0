---------------------------- MODULE ReedSolomon ----------------------------
(***************************************************************************)
(* shardvault-ec/src/rs.rs: encoding of k data shards into m parity shards *)
(* and reconstruction of missing ones.  A shard is a sequence of bytes;    *)
(* shards are numbered from 0, data before parity, and an erased one is    *)
(* Missing (None).                                                         *)
(***************************************************************************)
EXTENDS Matrix, Integers, Sequences, FiniteSets, SequencesExt

\* None: no shard is empty, since each one carries at least LEN_PREFIX bytes.
Missing == <<>>

TooFewShards == "TooFewShards"
InconsistentShards == "InconsistentShards"

\* The shard whose byte at each position is the sum over t < k of
\* mat[row, t] times that byte of shards[t].
Combine(mat, row, shards, k) ==
  [pos \in 1..Len(shards[0]) |->
     LET acc[t \in 0..k] ==
           IF t = 0 THEN 0
           ELSE GfAdd(acc[t - 1], GfMul(mat[row, t - 1], shards[t - 1][pos]))
     IN  acc[k]]

\* ReedSolomon::encode, data and parity shards together.
Encode(mat, k, m, data) ==
  [i \in 0..(k + m - 1) |->
     IF i < k THEN data[i] ELSE Combine(mat, i, data, k)]

\* Survivors in ascending order, numbered from 0.
Survivors(shards, n) ==
  LET s == SelectSeq([i \in 1..n |-> i - 1], LAMBDA i : shards[i] # Missing)
  IN  [t \in 0..(Len(s) - 1) |-> s[t + 1]]

\* Each missing shard is the combination of the k survivors used that its row
\* of the encoding matrix times inv gives.
Rebuild(mat, inv, used, shards, k, n) ==
  LET coeffs == MatMul(mat, inv, n, k, k)
  IN  IF inv = Singular THEN [err |-> InconsistentShards]
      ELSE [ok |-> [i \in 0..(n - 1) |->
              IF shards[i] # Missing THEN shards[i]
              ELSE Combine(coeffs, i, used, k)]]

\* The first k survivors, and the inverse of their rows.
RebuildFrom(mat, surv, shards, k, n) ==
  IF Cardinality(DOMAIN surv) < k THEN [err |-> TooFewShards]
  ELSE IF \E r \in 0..(k - 1) : Len(shards[surv[r]]) # Len(shards[surv[0]])
       THEN [err |-> InconsistentShards]
  ELSE Rebuild(mat, Invert([i \in Indices(k, k) |-> mat[surv[i[1]], i[2]]], k),
               [r \in 0..(k - 1) |-> shards[surv[r]]], shards, k, n)

\* ReedSolomon::reconstruct
Reconstruct(mat, k, m, shards) ==
  RebuildFrom(mat, Survivors(shards, k + m), shards, k, k + m)
=============================================================================
