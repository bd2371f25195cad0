------------------------------- MODULE Stripe ------------------------------
(***************************************************************************)
(* shardvault-core/src/stripe.rs: one stripe of an object over k + m node  *)
(* directories.  A writer writes the shard files one after the other,      *)
(* block by block, and may stop anywhere; files are lost or damaged; a     *)
(* reader, which may run at the same time, reads the files one by one and  *)
(* reassembles the object.                                                 *)
(*                                                                         *)
(* A stripe id is written once: the writer truncates and rewrites shard    *)
(* files in place, so a read of a half-overwritten stripe may mix two      *)
(* objects (see the README).                                               *)
(***************************************************************************)
EXTENDS ReedSolomon

CONSTANTS
  K, M,         \* shard counts
  LEN_PREFIX,   \* bytes of shard 0 that hold the length
  PAYLOAD_MAX,  \* payload bytes of a block
  Objects,      \* the objects that may be written: sequences of bytes
  MaxFaults     \* bound on lost and damaged files

ASSUME StripeAssumption ==
  /\ K \in Nat \ {0} /\ M \in Nat \ {0} /\ K + M <= 255
  /\ LEN_PREFIX \in Nat \ {0} /\ PAYLOAD_MAX \in Nat \ {0}
  /\ \A o \in Objects : o \in Seq(Byte) /\ Len(o) < 256
  /\ MaxFaults \in Nat

VARIABLES
  files,   \* per node: the blocks of its shard file; <<>> also if it is absent
  writer,  \* [object, node, status]: the node whose file is being written
  faults,  \* nodes whose file has been lost or damaged
  reader   \* [node, shards, began]: the next node to read, what the nodes read
           \* so far gave, and the writer's status when the read began

vars == <<files, writer, faults, reader>>

Nodes == 0..(K + M - 1)
Unread == [node |-> 0, shards |-> [i \in Nodes |-> Missing], began |-> "idle"]

EncodeMatrix == VandermondeSystematic(K, M)
-----------------------------------------------------------------------------
(* StripeWriter *)

DivCeil(a, b) == (a + b - 1) \div b

\* Bytes first+1 .. first+n of the object, zeros behind its end.
Slice(object, first, n) ==
  [i \in 1..n |-> IF first + i <= Len(object) THEN object[first + i] ELSE 0]

\* to_le_bytes of the length; objects are shorter than 256 bytes.
LengthPrefix(object) ==
  [i \in 1..LEN_PREFIX |-> IF i = 1 THEN Len(object) ELSE 0]

\* Seeded fault: shard_len is rounded down.
DataShards_RoundDown(object) ==
  LET shard_len == Len(object) \div K
  IN  [i \in 0..(K - 1) |->
         IF i = 0 THEN LengthPrefix(object) \o Slice(object, 0, shard_len)
         ELSE Slice(object, i * shard_len, shard_len) \o [j \in 1..LEN_PREFIX |-> 0]]

\* The data shards of StripeWriter::write, all shard_len + LEN_PREFIX long:
\* the length and the first part, then the other parts padded with zeros.
DataShards(object) ==
  LET shard_len == DivCeil(Len(object), K)
  IN  [i \in 0..(K - 1) |->
         IF i = 0 THEN LengthPrefix(object) \o Slice(object, 0, shard_len)
         ELSE Slice(object, i * shard_len, shard_len) \o [j \in 1..LEN_PREFIX |-> 0]]

AllShards(object) == Encode(EncodeMatrix, K, M, DataShards(object))

\* shard.chunks(PAYLOAD_MAX), each in a block that passes its CRC.
Blocks(shard) ==
  [b \in 1..DivCeil(Len(shard), PAYLOAD_MAX) |->
     [payload |-> SubSeq(shard, (b - 1) * PAYLOAD_MAX + 1,
                         IF b * PAYLOAD_MAX < Len(shard) THEN b * PAYLOAD_MAX
                         ELSE Len(shard)),
      valid |-> TRUE]]

Init ==
  /\ files = [i \in Nodes |-> <<>>]
  /\ writer = [object |-> <<>>, node |-> 0, status |-> "idle"]
  /\ faults = {}
  /\ reader = Unread

BeginWrite(object) ==
  /\ writer.status = "idle"
  /\ writer' = [object |-> object, node |-> 0, status |-> "writing"]
  /\ UNCHANGED <<files, faults, reader>>

\* One write_all of write_shard.  Behind the last block of a file comes its
\* sync_data, and the next file is opened; the last one completes the stripe.
WriteBlock ==
  LET node   == writer.node
      blocks == Blocks(AllShards(writer.object)[node])
      done   == Len(files[node]) + 1 = Len(blocks)
  IN  /\ writer.status = "writing"
      /\ files' = [files EXCEPT ![node] = Append(@, blocks[Len(@) + 1])]
      /\ writer' =
           IF ~done THEN writer
           ELSE IF node + 1 \in Nodes THEN [writer EXCEPT !.node = @ + 1]
           ELSE [writer EXCEPT !.status = "done"]
      /\ UNCHANGED <<faults, reader>>

TornBlock == [payload |-> <<>>, valid |-> FALSE]

\* The writer crashes or fails: the file it was at keeps the blocks written
\* so far, perhaps with a part of the next one.
WriterStops ==
  /\ writer.status = "writing"
  /\ writer' = [writer EXCEPT !.status = "stopped"]
  /\ \/ UNCHANGED files
     \/ files' = [files EXCEPT ![writer.node] = Append(@, TornBlock)]
  /\ UNCHANGED <<faults, reader>>
-----------------------------------------------------------------------------
(* Faults of the nodes: deleted shard files and blocks that fail their CRC *)

Exposed(i) ==
  /\ Cardinality(faults \cup {i}) <= MaxFaults
  /\ writer.status # "writing" \/ i < writer.node

LoseFile(i) ==
  /\ Exposed(i)
  /\ files[i] # <<>>
  /\ files' = [files EXCEPT ![i] = <<>>]
  /\ faults' = faults \cup {i}
  /\ UNCHANGED <<writer, reader>>

DamageBlock(i, b) ==
  /\ Exposed(i)
  /\ files[i][b].valid
  /\ files' = [files EXCEPT ![i][b].valid = FALSE]
  /\ faults' = faults \cup {i}
  /\ UNCHANGED <<writer, reader>>
-----------------------------------------------------------------------------
(* StripeReader *)

\* Seeded fault: blocks that fail their CRC are skipped.
ReadShard_SkipBadBlocks(blocks) ==
  FlattenSeq([b \in 1..Len(SelectSeq(blocks, LAMBDA x : x.valid)) |->
                SelectSeq(blocks, LAMBDA x : x.valid)[b].payload])

\* read_shard(..).ok(): a missing or empty file, a torn block or a failed
\* CRC make an erased shard.
ReadShard(blocks) ==
  IF \E b \in DOMAIN blocks : ~blocks[b].valid THEN Missing
  ELSE FlattenSeq([b \in DOMAIN blocks |-> blocks[b].payload])

\* The next file; while the writer is at it, a block may be seen torn.
ReadNextShard ==
  LET node == reader.node
  IN  /\ node \in Nodes
      /\ \E shard \in {ReadShard(files[node])}
             \cup (IF writer.status = "writing" /\ writer.node = node
                   THEN {Missing} ELSE {}) :
           reader' = [node |-> node + 1,
                      shards |-> [reader.shards EXCEPT ![node] = shard],
                      began |-> IF node = 0 THEN writer.status ELSE reader.began]
      /\ UNCHANGED <<files, writer, faults>>

\* The object of the data shards: the length from the first one, then its
\* parts without the padding.
Joined(shards) ==
  LET first     == shards[0]
      data_len  == first[1]
      shard_len == Len(first) - LEN_PREFIX
      parts     == [i \in 1..K |->
                      IF i = 1 THEN SubSeq(first, LEN_PREFIX + 1, Len(first))
                      ELSE SubSeq(shards[i - 1], 1, shard_len)]
  IN  IF Len(first) < LEN_PREFIX THEN [err |-> "shard too short"]
      ELSE IF data_len > shard_len * K THEN [err |-> "length out of range"]
      ELSE IF \E i \in 0..(K - 1) : Len(shards[i]) # Len(first)
           THEN [err |-> "shard length mismatch"]
      ELSE [ok |-> SubSeq(FlattenSeq(parts), 1, data_len)]

JoinedUnlessErr(rec) == IF "err" \in DOMAIN rec THEN rec ELSE Joined(rec.ok)

\* StripeReader::read from the shards on.
Reassemble(shards) == JoinedUnlessErr(Reconstruct(EncodeMatrix, K, M, shards))

ReadReturns ==
  /\ reader.node \notin Nodes
  /\ reader' = Unread
  /\ UNCHANGED <<files, writer, faults>>

Next ==
  \/ \E o \in Objects : BeginWrite(o)
  \/ WriteBlock
  \/ WriterStops
  \/ \E i \in Nodes : LoseFile(i)
  \/ \E i \in Nodes : \E b \in DOMAIN files[i] : DamageBlock(i, b)
  \/ ReadNextShard
  \/ ReadReturns

Spec == Init /\ [][Next]_vars
-----------------------------------------------------------------------------
(* Properties *)

\* Types; a shard file never holds more blocks than its shard.
StripeTypeOK ==
  /\ files \in [Nodes -> Seq([payload : Seq(Byte), valid : BOOLEAN])]
  /\ writer.node \in Nodes
  /\ writer.status \in {"idle", "writing", "stopped", "done"}
  /\ faults \subseteq Nodes
  /\ reader.node \in 0..(K + M)
  /\ \A i \in Nodes : Len(files[i]) <= DivCeil(Len(AllShards(writer.object)[i]), PAYLOAD_MAX)

Erased == {i \in Nodes : reader.shards[i] = Missing}

\* DESIGN.md 8 and 11: a read that begins after the write has completed gives
\* the object back exactly when at most m of the files it met were missing or
\* damaged, whichever they are and whenever they were lost, and fails with
\* TooFewShards when there were more.
StripeTransparent ==
  reader.node = K + M /\ reader.began = "done" =>
    Reassemble(reader.shards) =
      IF Cardinality(Erased) <= M THEN [ok |-> writer.object]
      ELSE [err |-> TooFewShards]

\* DESIGN.md 8, "never produce a wrong answer": a read that meets a stripe
\* still being written, or given up by its writer at any block, and any
\* number of lost files, returns the object or an error.
NeverWrong ==
  reader.node = K + M =>
    LET r == Reassemble(reader.shards)
    IN  "ok" \in DOMAIN r => r.ok = writer.object
=============================================================================
