-------------------------------- MODULE Wal --------------------------------
(***************************************************************************)
(* struct Wal of shardvault-core/src/wal.rs: the log file, the in-memory   *)
(* buffer of encoded blocks, and the next LSN.  The owner of the log, a    *)
(* leader or a follower, appends records, syncs, and may crash at any      *)
(* moment; Open is Wal::open.                                              *)
(*                                                                         *)
(* Two kinds of crash are told apart.  After a process crash the page      *)
(* cache survives, so every byte handed to write() is still in the file;   *)
(* after a power loss only the fsynced prefix is sure to be there.         *)
(***************************************************************************)
EXTENDS WalFormat

CONSTANTS
  MaxLsn,          \* bound: no LSN above this one is issued
  MaxProcessCrash, \* bound on process crashes
  MaxPowerLoss,    \* bound on power losses
  MaxIoErrors,     \* bound on failed calls of Wal::sync
  ExplicitLsns     \* LSNs a follower may pass to append_at

ASSUME BoundsAssumption ==
  /\ MaxLsn \in Nat
  /\ MaxProcessCrash \in Nat
  /\ MaxPowerLoss \in Nat
  /\ MaxIoErrors \in Nat

ASSUME ExplicitLsnsAssumption == ExplicitLsns \subseteq Nat \ {0}

VARIABLES
  role,      \* whose log it is: "leader" or "follower"
  mode,      \* "up", "syncing" (inside Wal::sync) or "down"
  file,      \* Wal.file: the blocks of wal.log as read() returns them
  synced,    \* length of the prefix of file that sync_data() has covered
  buf,       \* Wal.buf; Wal.dirty is buf # <<>>
  next_lsn,  \* Wal.next_lsn
  crashes,   \* crashes and I/O errors so far
  failed,    \* history: a sync has failed since the log was opened
  acked,     \* history: Commit blocks whose sync returned Ok, none having failed
  issued     \* history: the LSNs issued by append that Wal::sync made durable

vars == <<role, mode, file, synced, buf, next_lsn, crashes, failed, acked, issued>>

Block == [lsn : Nat, tag : {"data", "commit", "torn"}, upto : Nat]

Init ==
  /\ role \in {"leader", "follower"}
  /\ mode = "down"
  /\ file = <<>>
  /\ synced = 0
  /\ buf = <<>>
  /\ next_lsn = 0
  /\ crashes = [process |-> 0, power |-> 0, io |-> 0]
  /\ failed = FALSE
  /\ acked = {}
  /\ issued = <<>>
-----------------------------------------------------------------------------
(* Operations of the owner *)

\* The record bodies a caller can append: a Commit names some earlier LSN.
Bodies(lsn) ==
  {[lsn |-> lsn, tag |-> "data", upto |-> 0]}
    \cup {[lsn |-> lsn, tag |-> "commit", upto |-> u] : u \in 0..(lsn - 1)}

AppendBlock(b) ==
  /\ mode = "up"
  /\ buf' = Append(buf, b)
  /\ next_lsn' = IF next_lsn > b.lsn THEN next_lsn ELSE b.lsn + 1
  /\ UNCHANGED <<mode, file, synced, crashes, failed, acked, issued>>

\* Wal::append, which only the owner of a leader's log calls.
AppendNext ==
  /\ role = "leader"
  /\ next_lsn <= MaxLsn
  /\ \E b \in Bodies(next_lsn) : AppendBlock(b)

\* Wal::append_at, as a follower calls it: for a record above its last
\* Commit block (node.rs apply_loop).
AppendExplicit(lsn) ==
  /\ role = "follower"
  /\ Len(file) + Len(buf) < MaxLsn
  /\ \A i \in 1..Len(file \o buf) :
       IsCommit((file \o buf)[i]) => (file \o buf)[i].lsn < lsn
  /\ \E b \in Bodies(lsn) : AppendBlock(b)

\* The Commit blocks of a sync, which its caller may now acknowledge.  After a
\* failed sync that is not safe until the log is reopened (README, section 6).
AckedBy(s) ==
  {s[i] : i \in {j \in 1..Len(s) : IsCommit(s[j]) /\ ~failed}}

IssuedIn(s) ==
  IF role = "leader" THEN [i \in 1..Len(s) |-> s[i].lsn] ELSE <<>>

\* Wal::sync calls write_all and then sync_data.  It is in the middle of
\* the two while mode = "syncing"; with nothing buffered it returns at once.
SyncBegin ==
  /\ mode = "up"
  /\ buf # <<>>
  /\ mode' = "syncing"
  /\ UNCHANGED <<file, synced, buf, next_lsn, crashes, failed, acked, issued>>

\* Seeded fault: sync_data is left out.
SyncEnd_NoFsync ==
  /\ mode = "syncing"
  /\ mode' = "up"
  /\ file' = file \o buf
  /\ buf' = <<>>
  /\ acked' = acked \cup AckedBy(buf)
  /\ issued' = issued \o IssuedIn(buf)
  /\ UNCHANGED <<synced, next_lsn, crashes, failed>>

\* Seeded fault: the fsync is taken to cover one block more than was written.
SyncEnd_LenOffByOne ==
  /\ mode = "syncing"
  /\ mode' = "up"
  /\ file' = file \o Tail(buf)
  /\ synced' = Len(file) + Len(buf)
  /\ buf' = <<>>
  /\ acked' = acked \cup AckedBy(buf)
  /\ issued' = issued \o IssuedIn(buf)
  /\ UNCHANGED <<next_lsn, crashes, failed>>

SyncEnd ==
  /\ mode = "syncing"
  /\ mode' = "up"
  /\ file' = file \o buf
  /\ synced' = Len(file) + Len(buf)
  /\ buf' = <<>>
  /\ acked' = acked \cup AckedBy(buf)
  /\ issued' = issued \o IssuedIn(buf)
  /\ UNCHANGED <<next_lsn, crashes, failed>>

\* write_all or sync_data fails: the error is returned before buf.clear(),
\* and some prefix of the buffer may have reached the file.
SyncError ==
  /\ mode = "syncing"
  /\ crashes.io < MaxIoErrors
  /\ mode' = "up"
  /\ file' \in CutShort(file \o buf, Len(file))
  /\ crashes' = [crashes EXCEPT !.io = @ + 1]
  /\ failed' = TRUE
  /\ UNCHANGED <<synced, buf, next_lsn, acked, issued>>
-----------------------------------------------------------------------------
(* Crashes and recovery *)

\* What the running process may have written: inside Wal::sync, the buffer.
Written == IF mode = "syncing" THEN file \o buf ELSE file

Stop ==
  /\ mode # "down"
  /\ mode' = "down"
  /\ buf' = <<>>
  /\ next_lsn' = 0
  /\ UNCHANGED <<failed, acked, issued>>

ProcessCrash ==
  /\ crashes.process < MaxProcessCrash
  /\ Stop
  /\ file' \in CutShort(Written, Len(file))
  /\ crashes' = [crashes EXCEPT !.process = @ + 1]
  /\ UNCHANGED synced

PowerLoss ==
  /\ crashes.power < MaxPowerLoss
  /\ Stop
  /\ file' \in CutShort(Written, synced)
  /\ synced' = Len(file')
  /\ crashes' = [crashes EXCEPT !.power = @ + 1]

\* Seeded fault: `keep = i` instead of `keep = i + 1`.
Open_KeepOffByOne ==
  LET n == IF Replay(file) = <<>> THEN 0 ELSE Len(Replay(file)) - 1
  IN  /\ mode = "down"
      /\ mode' = "up"
      /\ file' = SubSeq(file, 1, n)
      /\ synced' = IF synced < n THEN synced ELSE n
      /\ next_lsn' = HighWater(file) + 1
      /\ failed' = FALSE
      /\ UNCHANGED <<buf, crashes, acked, issued>>

\* Wal::open: replay, truncate to the kept blocks, continue past the
\* recovered high-water mark.  Nothing is fsynced.
Open ==
  /\ mode = "down"
  /\ mode' = "up"
  /\ file' = Replay(file)
  /\ synced' = IF synced < Len(Replay(file)) THEN synced ELSE Len(Replay(file))
  /\ next_lsn' = HighWater(file) + 1
  /\ failed' = FALSE
  /\ UNCHANGED <<buf, crashes, acked, issued>>

Next ==
  /\ UNCHANGED role
  /\ \/ AppendNext
     \/ \E lsn \in ExplicitLsns : AppendExplicit(lsn)
     \/ SyncBegin
     \/ SyncEnd
     \/ SyncError
     \/ ProcessCrash
     \/ PowerLoss
     \/ Open

Spec == Init /\ [][Next]_vars
-----------------------------------------------------------------------------
(* Properties *)

\* Types, and an fsynced prefix that lies inside the file.
TypeOK ==
  /\ role \in {"leader", "follower"}
  /\ mode \in {"up", "syncing", "down"}
  /\ file \in Seq(Block)
  /\ synced \in 0..Len(file)
  /\ buf \in Seq(Block)
  /\ next_lsn \in Nat
  /\ crashes \in [process : Nat, power : Nat, io : Nat]
  /\ failed \in BOOLEAN
  /\ acked \subseteq Block
  /\ issued \in Seq(Nat)

\* What a recovery is sure to find: the replay of the fsynced prefix.
DurableLog == Replay(SubSeq(file, 1, synced))

\* "ACK implies durable" (DESIGN.md 4): a Commit block whose Wal::sync
\* returned Ok, no earlier sync having failed since Wal::open, is found by
\* every later recovery, whatever crashes and whatever fails afterwards.
AckedDurable ==
  \A c \in acked : \E i \in 1..Len(DurableLog) : DurableLog[i] = c

\* Along a leader's log, buffer included, LSNs strictly increase, and the next
\* LSN is above them all: truncation and recovery never let Wal::append repeat
\* the LSN of a record that is still in the log.  A failed sync, whose buffer
\* is written again, is excluded.
LogOrdered ==
  LET log == file \o buf
  IN  role = "leader" /\ crashes.io = 0 =>
      /\ \A i, j \in 1..Len(log) :
           i < j /\ ~IsTorn(log[j]) => log[i].lsn < log[j].lsn
      /\ mode # "down" => \A i \in 1..Len(log) : log[i].lsn < next_lsn

\* The durable committed log is only ever extended: no sync, failed sync,
\* crash or Wal::open removes or replaces a record of it.
DurableLogAppendOnly ==
  [][/\ Len(DurableLog) <= Len(DurableLog')
     /\ \A i \in 1..Len(DurableLog) : DurableLog'[i] = DurableLog[i]]_vars

\* wal.rs:26-27: "so LSNs are never reused across recovery".  The LSNs of the
\* records that Wal::sync makes durable increase, restarts included, so no
\* LSN is ever given to two of them.
LsnsNeverReused ==
  \A i, j \in 1..Len(issued) : i < j => issued[i] < issued[j]
=============================================================================
