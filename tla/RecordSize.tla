----------------------------- MODULE RecordSize -----------------------------
(***************************************************************************)
(* How many bytes encode_record of shardvault-core/src/wal.rs gives each   *)
(* record.  A record that does not fit one block is refused.  Keys and     *)
(* prefixes are sequences of path parts, as in Rollup.                     *)
(***************************************************************************)
EXTENDS Rollup

CONSTANTS
  PAYLOAD_MAX,  \* block::PAYLOAD_MAX
  PartLen(_)    \* the length of a path part

ASSUME PayloadAssumption == PAYLOAD_MAX \in Nat /\ PAYLOAD_MAX > 17

\* str::len: the parts and the slashes between them.
StrLen(path) ==
  IF path = <<>> THEN 0 ELSE FoldLeft(LAMBDA n, part : n + 1 + PartLen(part), -1, path)

\* The bytes of one remap entry: key_len, key, lsn, offset and len.
EntrySize(e) == 2 + StrLen(e.key) + 8 + 8 + 4

EntriesSize(entries) == FoldLeft(LAMBDA n, e : n + EntrySize(e), 0, entries)

encode_record(rec) ==
  CASE rec.tag = "put"    -> 1 + 8 + 4 + 2 + StrLen(rec.key)
    [] rec.tag = "commit" -> 1 + 8
    [] rec.tag = "seal"   -> 1 + 8 + 8
    [] rec.tag = "agg"    -> 1 + 2 + MapThenSumSet(LAMBDA p : 2 + StrLen(p) + 8 + 8,
                                                   DOMAIN rec.deltas)
    [] rec.tag = "swap"   -> 1 + 8 + 8
    [] rec.tag = "remap"  -> 1 + 8 + 2 + EntriesSize(rec.entries)

Fits(rec) == encode_record(rec) <= PAYLOAD_MAX
=============================================================================
