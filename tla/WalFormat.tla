----------------------------- MODULE WalFormat -----------------------------
(***************************************************************************)
(* The write-ahead log file of shardvault-core/src/wal.rs as a sequence of *)
(* blocks, and what a scan and a replay of it return.                      *)
(*                                                                         *)
(* A block is a record with at least a field lsn (the LSN stored in the    *)
(* block header) and a field tag; the tag "commit" marks Record::Commit,   *)
(* whose payload is the field upto.  The tag "torn" stands for bytes that  *)
(* do not decode: a short read, a CRC failure or an unknown record.        *)
(***************************************************************************)
EXTENDS Integers, Sequences

IsCommit(b) == b.tag = "commit"

IsTorn(b) == b.tag = "torn"

Torn == [lsn |-> 0, tag |-> "torn", upto |-> 0]

\* n is the number of leading blocks of f that decode.
IsScanLen(f, n) ==
  /\ \A i \in 1..n : ~IsTorn(f[i])
  /\ n < Len(f) => IsTorn(f[n + 1])

\* Wal::scan: the blocks before the first torn or corrupt one.
Scan(f) == SubSeq(f, 1, CHOOSE n \in 0..Len(f) : IsScanLen(f, n))

\* k is the number of blocks of s up to its last Commit (0 without one).
IsKeep(s, k) ==
  /\ k > 0 => IsCommit(s[k])
  /\ \A i \in (k + 1)..Len(s) : ~IsCommit(s[i])

Keep(s) == CHOOSE k \in 0..Len(s) : IsKeep(s, k)

\* Wal::replay, first component: the scanned blocks up to the last Commit.
Replay(f) == SubSeq(Scan(f), 1, Keep(Scan(f)))

\* Seeded fault: the LSN of the last block is not taken into account.
HighWater_CommitOnly(f) ==
  LET s == Scan(f)
  IN  IF Keep(s) = 0 THEN 0 ELSE s[Keep(s)].upto

\* Wal::replay, second component: the larger of the LSN named by the last
\* Commit and the LSN of the last block that decodes.
HighWater(f) ==
  LET s    == Scan(f)
      last == IF s = <<>> THEN 0 ELSE s[Len(s)].lsn
      upto == IF Keep(s) = 0 THEN 0 ELSE s[Keep(s)].upto
  IN  IF upto > last THEN upto ELSE last

\* What may be on disk when a write of s is cut short after at least lo
\* whole blocks: some prefix, and then perhaps part of the next block.
CutShort(s, lo) ==
  {SubSeq(s, 1, n) : n \in lo..Len(s)}
    \cup {Append(SubSeq(s, 1, n), Torn) : n \in lo..(Len(s) - 1)}
=============================================================================
