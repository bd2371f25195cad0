---------------------------- MODULE FollowerStore ---------------------------
(***************************************************************************)
(* The store of a follower, fed with the records of a leader: apply_record *)
(* and sync_all of shardvault-core/src/segment.rs, driven by apply_loop of *)
(* shardvault-node/src/node.rs.                                            *)
(*                                                                         *)
(* The leader is the store of SegmentStore with one client and without     *)
(* crashes, so that a record of its log stands at the position of its LSN. *)
(* The link between the two is reduced to the order in which frames reach  *)
(* the follower: a backfill up to the commit index, closed by one barrier, *)
(* then each later batch with a barrier of its own.  Frames that were on   *)
(* their way when the link was cut are not sent again (Replication models  *)
(* the queue they were popped from).                                       *)
(***************************************************************************)
EXTENDS SegmentStore

CONSTANTS
  MaxRestarts,      \* bound on the follower's crashes
  Orderly           \* TRUE: a follower is back only when the batches it has
                    \* lost are committed on the leader, and no compaction
                    \* follows one that was given up

ASSUME FollowerAssumption == MaxRestarts \in Nat /\ Orderly \in BOOLEAN

VARIABLES
  ends,  \* the last LSNs of the leader's batches
  fo,    \* the follower's Store
  conn,  \* its link to the leader
  cuts   \* restarts so far

fvars == <<ends, fo, conn, cuts>>

NoSwap == [lsn |-> 0, old |-> 0, new |-> 0, file |-> <<>>, entries |-> <<>>]

\* An open Store over recovered memory, log and files.
Opened(in, lg, dk) ==
  [status |-> "up", in |-> in, lg |-> lg, dk |-> dk, snap |-> SnapFrom(in),
   pending_swap |-> NoSwap, retired_segments |-> {}]

\* at: the last LSN that reached the follower; backfill: the end of the
\* backfill on its way, 0 when it is through; lost: the last LSN that was
\* popped from the queue and lost, 0 when a backfill covers it.
Unlinked == [up |-> FALSE, at |-> 0, backfill |-> 0, lost |-> 0,
             barrier |-> FALSE, committed_through |-> 0]

FollowerInit ==
  /\ Init
  /\ ends = {}
  /\ fo = LET r == Recovered(<<>>, disk)
          IN  Opened(r.in, [log EXCEPT !.next_lsn = 1], r.dk)
  /\ conn = Unlinked
  /\ cuts = 0
-----------------------------------------------------------------------------
(* The leader *)

\* The records sent so far: process_compact sends its Commit only after
\* compact_commit.
Shipped ==
  IF \E t \in Threads : pc[t] = "committed" THEN Front(log.file) ELSE log.file

\* Leader.commit_index
CommitIndex == Max({0} \cup {i \in 1..Len(Shipped) : IsCommit(Shipped[i])})

\* sync_wal in one step: only a crash of the leader could fall inside it.
SyncWal(t) ==
  /\ Ready(t, {"staged"})
  /\ log' = LogSynced(log)
  /\ pc' = [pc EXCEPT ![t] = "synced"]
  /\ UNCHANGED <<status, inner, snap, disk, batch, hist, used>>

\* process_put and process_compact: a batch is always synced before it is
\* committed or given up, and the horizon is what the follower has reached.
Leader ==
  /\ \/ OpenWal
     \/ Recover
     \/ \E t \in Threads :
          \/ StagePut(t)
          \/ SyncWal(t)
          \/ pc[t] = "synced" /\ (CommitBegin(t) \/ Abandon(t))
          \/ CommitEnd(t)
          \/ (Orderly => ~hist.dropped) /\ CompactStage(t, conn.committed_through)
          \/ CompactCommit(t)
  /\ ends' = ends \cup {batch'[t].end : t \in Threads}
  /\ UNCHANGED <<fo, conn, cuts>>
-----------------------------------------------------------------------------
(* apply_record *)

\* Wal::append_at
AppendAt(s, rec) ==
  [s EXCEPT !.lg.buf = Append(@, rec), !.lg.next_lsn = Max({@, rec.lsn + 1})]

Ok(s) == [ok |-> TRUE, s |-> s]
Corrupt(s) == [ok |-> FALSE, s |-> s]

\* Seeded fault: the replaced file is removed at once.
FinalizeSwap_RemovesOld(s) ==
  LET w == s.pending_swap
  IN  IF w = NoSwap THEN s
      ELSE [s EXCEPT
              !.pending_swap = NoSwap,
              !.dk = Fsync([@ EXCEPT !.cells[w.new] = w.file,
                                     !.names = (@ \ {w.old}) \cup {w.new}], {w.new}),
              !.in = [Repoint(@, w.entries, w.new) EXCEPT
                        !.segments = (@ \ {w.old}) \cup {w.new},
                        !.sealed = Append(SelectSeq(@, LAMBDA id : id # w.old), w.new)]]

\* finalize_pending_swap: the replacement is fsynced and renamed into place,
\* and the index points at it.  The old file stays for now.
FinalizeSwap(s) ==
  LET w == s.pending_swap
  IN  IF w = NoSwap THEN s
      ELSE [s EXCEPT
              !.pending_swap = NoSwap,
              !.dk = Fsync([@ EXCEPT !.cells[w.new] = w.file, !.names = @ \cup {w.new}],
                           {w.new}),
              !.in = [Repoint(@, w.entries, w.new) EXCEPT
                        !.segments = (@ \ {w.old}) \cup {w.new},
                        !.sealed = Append(SelectSeq(@, LAMBDA id : id # w.old), w.new)],
              !.retired_segments = @ \cup {[lsn |-> w.lsn, old |-> w.old]}]

ApplyPut(s, r, val) ==
  LET w == WriteActive(s, val)
  IN  Ok([AppendAt(w, r) EXCEPT
            !.in = [IndexPut(@, r.lsn, r.key, r.len) EXCEPT
                      !.dirty_segments = @ \cup {w.in.active_id}, !.pending = TRUE]])

\* Seeded fault: the append position of the sealed segment is kept.
ApplySeal_KeepsOffset(s, r) ==
  IF r.seg # s.in.active_id THEN Corrupt(s)
  ELSE Ok([AppendAt(s, r) EXCEPT
             !.in = [@ EXCEPT !.sealed = Append(@, r.seg), !.active_id = r.next,
                              !.pending = TRUE, !.next_free_id = Max({@, r.next + 1})]])

ApplySeal(s, r) ==
  IF r.seg # s.in.active_id THEN Corrupt(s)
  ELSE Ok([AppendAt(s, r) EXCEPT
             !.in = [@ EXCEPT !.sealed = Append(@, r.seg), !.active_id = r.next,
                              !.active_offset = 0, !.pending = TRUE,
                              !.next_free_id = Max({@, r.next + 1})]])

ApplySwap(s, r) ==
  Ok([AppendAt(FinalizeSwap(s), r) EXCEPT
        !.pending_swap = [NoSwap EXCEPT !.lsn = r.lsn, !.old = r.old, !.new = r.new],
        !.in.pending = TRUE])

\* Seeded fault: the copied value is not among the moved entries.
RemapEntry_NotMoved(res, e) ==
  LET s   == res.s
      loc == s.in.put_locations[e.lsn].loc
      val == ReadAt(s.dk.cells[loc.seg], loc.off, loc.len)
  IN  IF ~res.ok \/ e.lsn \notin DOMAIN s.in.put_locations \/ Len(val) < loc.len
      THEN Corrupt(s)
      ELSE Ok([s EXCEPT !.pending_swap.file = WriteAt(@, e.off, val)])

\* One entry of a remap: the value is copied from the follower's own segment
\* into the replacement.  The pending swap is lost with the value of a put
\* that is not there or whose file is not open.
RemapEntry(res, e) ==
  LET s   == res.s
      w   == s.pending_swap
      loc == s.in.put_locations[e.lsn].loc
      val == ReadAt(s.dk.cells[loc.seg], loc.off, loc.len)
  IN  IF ~res.ok THEN res
      ELSE IF e.lsn \notin DOMAIN s.in.put_locations
           THEN Corrupt([s EXCEPT !.pending_swap = NoSwap])
      ELSE IF loc.seg # w.old \/ loc.len # e.len THEN Corrupt(s)
      ELSE IF loc.seg \notin s.in.segments \/ Len(val) < loc.len
           THEN Corrupt([s EXCEPT !.pending_swap = NoSwap])
      ELSE Ok([s EXCEPT !.pending_swap = [@ EXCEPT !.file = WriteAt(@, e.off, val),
                                                   !.entries = Append(@, e)]])

ApplyRemap(s, r) ==
  LET logged == AppendAt(s, r)
      res    == FoldLeft(RemapEntry, Ok(logged), r.entries)
  IN  IF s.pending_swap.new # r.new THEN Corrupt(logged)
      ELSE IF res.ok THEN Ok([res.s EXCEPT !.in.pending = TRUE]) ELSE res

ApplyCommit(s, r) ==
  Ok([AppendAt(s, r) EXCEPT
        !.in = [@ EXCEPT !.committed_lsn = Max({@, r.upto}), !.pending = TRUE,
                         !.last_commit_block = Max({@, r.lsn})]])

\* apply_record: the new state, and whether the call succeeds.
apply_record(s0, r, val) ==
  LET s == [s0 EXCEPT !.in.applied_upto = Max({@, r.lsn})]
  IN  CASE r.tag = "put"    -> ApplyPut(s, r, val)
        [] r.tag = "seal"   -> ApplySeal(s, r)
        [] r.tag = "agg"    -> Ok([AppendAt(s, r) EXCEPT !.in.pending = TRUE])
        [] r.tag = "swap"   -> ApplySwap(s, r)
        [] r.tag = "remap"  -> ApplyRemap(s, r)
        [] r.tag = "commit" -> ApplyCommit(s, r)
-----------------------------------------------------------------------------
(* apply_loop *)

\* The value that goes with a Put: what the client sent, which value_at reads
\* back for a backfill.
ValueOf(lsn) == [c \in 1..hist.put[lsn].len |-> hist.put[lsn].id]

\* A backfill sends what was lost up to the commit index.
NotCovered(lsn) == IF lsn <= CommitIndex THEN 0 ELSE lsn

\* Seeded fault: the backfill starts one record late.
Connect_OneLate ==
  /\ fo.status = "up" /\ ~conn.up
  /\ Orderly => conn.lost <= CommitIndex
  /\ LET from == fo.in.last_commit_block + 2
     IN  conn' = [conn EXCEPT !.up = TRUE, !.at = from - 1, !.lost = NotCovered(@),
                    !.backfill = IF from > CommitIndex THEN 0 ELSE CommitIndex,
                    !.barrier = from > CommitIndex]
  /\ UNCHANGED <<vars, ends, fo, cuts>>

\* The leader dials; apply_loop answers with NeedFrom, and handle_backfill
\* puts the records up to the commit index before what is still queued.
Connect ==
  /\ fo.status = "up" /\ ~conn.up
  /\ Orderly => conn.lost <= CommitIndex
  /\ LET from == fo.in.last_commit_block + 1
     IN  conn' = [conn EXCEPT !.up = TRUE, !.at = from - 1, !.lost = NotCovered(@),
                    !.backfill = IF from > CommitIndex THEN 0 ELSE CommitIndex,
                    !.barrier = from > CommitIndex]
  /\ UNCHANGED <<vars, ends, fo, cuts>>

\* The LSN of the next record on its way: the backfill, then the frames that
\* were not lost.
NextLsn ==
  LET n == conn.at + 1
  IN  IF conn.backfill = 0 /\ n <= conn.lost THEN conn.lost + 1 ELSE n

\* Frame::Append.  After an error the loop leaves the stream, and no other
\* one arrives as long as the leader sees its connection open.
Append1 ==
  LET n   == NextLsn
      r   == Shipped[n]
      res == apply_record(fo, r, IF r.tag = "put" THEN ValueOf(n) ELSE <<>>)
  IN  /\ fo.status = "up" /\ conn.up /\ ~conn.barrier
      /\ n <= Len(Shipped)
      /\ fo' = IF n <= fo.in.last_commit_block THEN fo
               ELSE IF res.ok THEN res.s ELSE [res.s EXCEPT !.status = "stuck"]
      /\ conn' = [conn EXCEPT !.at = n,
                    !.backfill = IF n = @ THEN 0 ELSE @,
                    !.barrier = IF conn.backfill = 0 THEN n \in ends \/ IsCommit(r)
                                ELSE n = conn.backfill]
      /\ UNCHANGED <<vars, ends, cuts>>

\* Frame::SyncBarrier, sync_all up to the write of the WAL.
BarrierBegin ==
  LET s == FinalizeSwap(fo)
  IN  /\ fo.status = "up" /\ conn.up /\ conn.barrier
      /\ fo' = [s EXCEPT !.status = "syncing",
                         !.dk = Fsync(@, s.in.dirty_segments \cap s.in.segments)]
      /\ UNCHANGED <<vars, ends, conn, cuts>>

\* Seeded fault: any acknowledgement moves committed_through.
BarrierEnd_AnyAck ==
  LET in == [fo.in EXCEPT !.dirty_segments = {}]
  IN  /\ fo.status = "syncing"
      /\ fo' = [fo EXCEPT !.status = "up", !.in = in, !.lg = LogSynced(@), !.snap = SnapFrom(in)]
      /\ conn' = [conn EXCEPT !.barrier = FALSE, !.committed_through = CommitIndex]
      /\ UNCHANGED <<vars, ends, cuts>>

\* Seeded fault: the barrier is not answered.
BarrierEnd_Unanswered ==
  LET in == [fo.in EXCEPT !.dirty_segments = {}]
  IN  /\ fo.status = "syncing"
      /\ fo' = [fo EXCEPT !.status = "up", !.in = in, !.lg = LogSynced(@), !.snap = SnapFrom(in)]
      /\ UNCHANGED <<vars, ends, conn, cuts>>

\* The rest of sync_all: replaced segments go once a durable Commit covers
\* their swap.  The acknowledgement moves committed_through on the leader.
BarrierEnd ==
  LET gone == {x \in fo.retired_segments : x.lsn <= fo.in.last_commit_block}
      in   == [fo.in EXCEPT !.dirty_segments = {}]
  IN  /\ fo.status = "syncing"
      /\ fo' = [fo EXCEPT !.status = "up", !.in = in, !.lg = LogSynced(@),
                  !.dk.names = @ \ {x.old : x \in gone},
                  !.retired_segments = @ \ gone, !.snap = SnapFrom(in)]
      /\ conn' = [conn EXCEPT !.barrier = FALSE,
                    !.committed_through =
                       IF fo.in.applied_upto >= CommitIndex THEN CommitIndex ELSE @]
      /\ UNCHANGED <<vars, ends, cuts>>

\* The follower dies and is started again; frames up to some n were popped
\* from the leader's queue and are gone.
Restart(file, synced, dk) ==
  LET records == Replay(file)
      r       == Recovered(records, Remaining(dk))
      lg      == [file |-> records, synced |-> Min({synced, Len(records)}),
                  buf |-> <<>>, next_lsn |-> HighWater(file) + 1]
  IN  /\ cuts' = cuts + 1
      /\ fo' = IF r.ok THEN Opened(r.in, lg, r.dk) ELSE [fo EXCEPT !.status = "corrupt"]
      /\ \E n \in IF conn.up THEN Max({conn.at, conn.lost})..Len(Shipped) ELSE {conn.lost} :
           conn' = [Unlinked EXCEPT !.lost = NotCovered(n),
                                    !.committed_through = conn.committed_through]
      /\ UNCHANGED <<vars, ends>>

FollowerWritten == IF fo.status = "syncing" THEN fo.lg.file \o fo.lg.buf ELSE fo.lg.file

MayStop == cuts < MaxRestarts /\ fo.status \in {"up", "syncing", "stuck"}

FollowerKilled ==
  /\ MayStop
  /\ \E f \in CutShort(FollowerWritten, Len(fo.lg.file)) : Restart(f, fo.lg.synced, fo.dk)

FollowerPowerLoss ==
  /\ MayStop
  /\ \E f \in CutShort(FollowerWritten, fo.lg.synced), d \in PowerImages(fo.dk) :
       Restart(f, Len(f), d)

Follower == Append1 \/ BarrierBegin \/ BarrierEnd

FollowerNext ==
  \/ Leader
  \/ Connect
  \/ Follower
  \/ FollowerKilled
  \/ FollowerPowerLoss

FollowerSpec == FollowerInit /\ [][FollowerNext]_<<vars, fvars>>

\* The dialer reconnects for ever, and apply_loop has a thread of its own.
FollowerFairSpec ==
  FollowerSpec /\ WF_<<vars, fvars>>(Connect) /\ WF_<<vars, fvars>>(Follower)
-----------------------------------------------------------------------------
(* Properties *)

\* Types: the follower's log, positions and files, and the frames' order.
FollowerTypeOK ==
  /\ fo.status \in {"up", "syncing", "stuck", "corrupt"}
  /\ fo.in.index \in [Keys -> Location]
  /\ fo.lg.synced \in 0..Len(fo.lg.file)
  /\ fo.in.last_commit_block <= fo.in.applied_upto
  /\ \A i \in SegIds : fo.dk.synced[i] \in 0..Len(fo.dk.cells[i])
  /\ conn.committed_through <= CommitIndex /\ conn.lost <= Len(log.file)

FollowerLog == fo.lg.file \o fo.lg.buf

\* Follower convergence (DESIGN.md 7): what a follower has logged is the
\* leader's log, record for record and without a gap, through restarts and
\* backfills.
FollowerLogMatches ==
  fo.status # "corrupt" => IsPrefix(FollowerLog, Shipped)

\* A follower that is killed or loses power opens its store again, and
\* apply_record accepts every record sent to it.
FollowerGoesOn == fo.status \notin {"stuck", "corrupt"}

\* Layouts match exactly (segment.rs:662-664): between swaps the follower's
\* index, aggregates, segments and append position are those that replaying
\* the same part of the leader's log gives.
FollowerLayoutMatches ==
  fo.status \in {"up", "syncing"} /\ fo.pending_swap = NoSwap =>
    LET in == Layout(FollowerLog).in
    IN  /\ fo.in.index = in.index
        /\ fo.in.rollup = in.rollup
        /\ ToSet(fo.in.sealed) = ToSet(in.sealed)
        /\ fo.in.active_id = in.active_id
        /\ fo.in.active_offset = in.active_offset

\* Every entry of the follower's index reads the complete value of its put
\* from an open segment of the follower's own, also while a replacement is
\* being built and after a swap that is rolled back by a crash.
FollowerReadable ==
  fo.status \in {"up", "syncing"} =>
    \A k \in Keys :
      LET loc == fo.in.index[k]
      IN  loc.lsn > 0 =>
            /\ loc.seg \in fo.in.segments
            /\ ReadAt(fo.dk.cells[loc.seg], loc.off, loc.len) = ValueOf(loc.lsn)

\* Horizon-gated compaction on real segments: whatever the follower loses in
\* a crash now, value_at on the leader still has every value its backfill
\* would ask for.
BackfillAvailable ==
  LET durable == Replay(SubSeq(fo.lg.file, 1, fo.lg.synced))
      from    == Max({0} \cup {r.lsn : r \in ToSet(durable)}) + 1
  IN  status = "up" =>
        \A l \in from..CommitIndex :
          Shipped[l].tag = "put" =>
            /\ l \in DOMAIN snap.put_locations
            /\ ReadsItsPut(Shipped[l].key, snap.put_locations[l].loc)

\* Catching up (DESIGN.md 7): again and again the follower has every record
\* the leader has sent in its durable log, unless frames it has lost wait
\* for a commit on the leader.
CatchesUp ==
  []<>(\/ fo.lg.synced = Len(fo.lg.file) /\ Len(fo.lg.file) = Len(Shipped)
       \/ conn.lost > CommitIndex)
=============================================================================
