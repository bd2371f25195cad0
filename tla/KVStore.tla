------------------------------ MODULE KVStore ------------------------------
(***************************************************************************)
(* What a ShardVault store promises its readers and writers, without logs, *)
(* segments or compaction: each key reads as one of the puts to it, a read *)
(* never falls back to an older put, not even across a crash, and an       *)
(* acknowledged put can be read.  Puts are numbered in the order in which  *)
(* they are made.                                                          *)
(***************************************************************************)
EXTENDS Naturals

CONSTANT Keys

VARIABLES
  open,   \* the store answers
  kv,     \* per key: the put a read returns, 0 for none
  acked   \* per key: the newest put whose client was told it is durable

kvvars == <<open, kv, acked>>

KVInit ==
  /\ open = FALSE
  /\ kv = [k \in Keys |-> 0]
  /\ acked = [k \in Keys |-> 0]

\* Reads move on to newer puts.
Advance ==
  /\ kv' \in [Keys -> Nat]
  /\ \A k \in Keys : kv[k] <= kv'[k]

\* Puts become visible, or are acknowledged.
Commit ==
  /\ open /\ open'
  /\ Advance
  /\ acked' \in [Keys -> Nat]
  /\ \A k \in Keys : acked[k] <= acked'[k] /\ acked'[k] <= kv'[k]

Crash ==
  /\ open /\ ~open'
  /\ UNCHANGED <<kv, acked>>

\* A commit that was in progress when the store stopped may be found again.
Reopen ==
  /\ ~open /\ open'
  /\ Advance
  /\ UNCHANGED acked

KVSpec == KVInit /\ [][Commit \/ Crash \/ Reopen]_kvvars
=============================================================================
