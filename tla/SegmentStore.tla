---------------------------- MODULE SegmentStore ----------------------------
(***************************************************************************)
(* The segment store of shardvault-core/src/segment.rs on one node: puts,  *)
(* the commit protocol, compaction, crashes and recovery.                  *)
(*                                                                         *)
(* Every mutating method takes the store lock for its whole duration, but  *)
(* a PUT or a compaction is several such calls (node.rs process_put and    *)
(* process_compact), so the calls of different client threads interleave.  *)
(* A crash can happen at any moment, also inside a call that waits for the *)
(* disk: sync_wal and commit are split where the WAL file is being written.*)
(*                                                                         *)
(* A value is a run of cells that all carry the number of the put that     *)
(* wrote it, so a read is right exactly when it returns its put's number   *)
(* len times.                                                              *)
(***************************************************************************)
EXTENDS WalFormat, RecordSize

CONSTANTS
  Threads,         \* client threads of the node that owns the store
  Keys,            \* object keys, each a sequence of path parts
  Lens,            \* value lengths, in cells
  SegmentMax,      \* StoreOptions.segment_max_bytes, in cells
  MaxPuts,         \* bound on calls of stage_put
  MaxCompactions,  \* bound on compactions
  MaxProcessCrash, \* bound on process crashes
  MaxPowerLoss     \* bound on power losses

ASSUME KeysAssumption == \A k \in Keys : \A i \in 1..Len(k) : PartLen(k[i]) \in Nat

ASSUME SizesAssumption ==
  /\ Lens \subseteq Nat
  /\ SegmentMax \in Nat \ {0}

ASSUME StoreBoundsAssumption ==
  /\ MaxPuts \in Nat
  /\ MaxCompactions \in Nat
  /\ MaxProcessCrash \in Nat
  /\ MaxPowerLoss \in Nat

VARIABLES
  status,  \* "down", "replayed" (inside open), "up" or "corrupt" (open failed)
  inner,   \* struct Inner, without the WAL
  snap,    \* the published struct Snap
  log,     \* struct Wal: file, its fsynced length, buf and next_lsn
  disk,    \* segment files: cells, fsynced length, which names exist
  pc,      \* per thread: the call it is in, or the one it returned from
  batch,   \* per thread: what it has staged and not yet committed
  hist,    \* history: which put an LSN stands for, what was acknowledged
  used     \* puts, compactions and crashes so far

vars == <<status, inner, snap, log, disk, pc, batch, hist, used>>

\* Segment ids that a bounded run can allocate: two seals per put, one
\* replacement per compaction.
SegIds == 0..(2 * MaxPuts + MaxCompactions)

NoLoc == [seg |-> 0, off |-> 0, len |-> 0, lsn |-> 0]

NoBatch == [kind |-> "none", end |-> 0]

EmptyInner ==
  [index |-> [k \in Keys |-> NoLoc], put_locations |-> <<>>,
   rollup |-> EmptyRollup, segments |-> {}, sealed |-> <<>>,
   active_id |-> 0, active_offset |-> 0, next_free_id |-> 0,
   pending |-> FALSE, dirty_segments |-> {},
   committed_lsn |-> 0, last_commit_block |-> 0, applied_upto |-> 0]

\* Snap::from
SnapFrom(in) ==
  [committed |-> in.committed_lsn, index |-> in.index, files |-> in.segments,
   put_locations |-> in.put_locations, rollup |-> in.rollup]

Init ==
  /\ status = "down"
  /\ inner = EmptyInner
  /\ snap = SnapFrom(EmptyInner)
  /\ log = [file |-> <<>>, synced |-> 0, buf |-> <<>>, next_lsn |-> 0]
  /\ disk = [cells |-> [i \in SegIds |-> <<>>], synced |-> [i \in SegIds |-> 0],
             names |-> {}]
  /\ pc = [t \in Threads |-> "idle"]
  /\ batch = [t \in Threads |-> NoBatch]
  /\ hist = [put |-> <<>>, acked |-> [k \in Keys |-> 0], horizon |-> 0,
             dropped |-> FALSE]
  /\ used = [puts |-> 0, compactions |-> 0, process |-> 0, power |-> 0]
-----------------------------------------------------------------------------
(* Files *)

\* write_at: the cells of a file after val is written at offset off.
WriteAt(cells, off, val) ==
  SubSeq(cells, 1, off) \o val \o SubSeq(cells, off + Len(val) + 1, Len(cells))

\* read_value; a short read returns fewer cells.
ReadAt(cells, off, len) ==
  SubSeq(cells, off + 1, IF off + len > Len(cells) THEN Len(cells) ELSE off + len)

Fsync(d, ids) ==
  [d EXCEPT !.synced = [i \in SegIds |-> IF i \in ids THEN Len(d.cells[i]) ELSE @[i]]]
-----------------------------------------------------------------------------
(* stage_put *)

\* Wal::append of a record that fits its block.
LogAppend(lg, rec) ==
  [lg EXCEPT !.buf = Append(@, rec), !.next_lsn = @ + 1]

\* A call in progress: the store's memory, log and files as it has changed
\* them so far.
Here == [in |-> inner, lg |-> log, dk |-> disk]

\* Seeded fault: the id given to the new active segment is not used up.
SealActive_ReuseId(s) ==
  [s EXCEPT
     !.lg = LogAppend(@, [lsn |-> s.lg.next_lsn, tag |-> "seal",
                          seg |-> s.in.active_id, next |-> s.in.next_free_id]),
     !.in = [@ EXCEPT !.pending = TRUE,
                      !.sealed = Append(@, s.in.active_id),
                      !.active_id = s.in.next_free_id, !.active_offset = 0]]

\* seal_active_record
SealActive(s) ==
  [s EXCEPT
     !.lg = LogAppend(@, [lsn |-> s.lg.next_lsn, tag |-> "seal",
                          seg |-> s.in.active_id, next |-> s.in.next_free_id]),
     !.in = [@ EXCEPT !.next_free_id = @ + 1, !.pending = TRUE,
                      !.sealed = Append(@, s.in.active_id),
                      !.active_id = s.in.next_free_id, !.active_offset = 0]]

SealIf(s, full) == IF full THEN SealActive(s) ELSE s

\* Seeded fault: the value is written at the start of the segment.
WriteActive_AtStart(s, val) ==
  LET id == s.in.active_id
  IN  [s EXCEPT !.in.segments = @ \cup {id},
                !.dk.names = @ \cup {id},
                !.dk.cells[id] = WriteAt(@, 0, val)]

\* open_segment and write_value on the active segment.
WriteActive(s, val) ==
  LET id == s.in.active_id
  IN  [s EXCEPT !.in.segments = @ \cup {id},
                !.dk.names = @ \cup {id},
                !.dk.cells[id] = WriteAt(@, s.in.active_offset, val)]

AppendPut(s, key, len) ==
  [s EXCEPT !.lg = LogAppend(@, [lsn |-> s.lg.next_lsn, tag |-> "put",
                                 key |-> key, len |-> len])]

AppendAgg(s, key, len) ==
  [s EXCEPT !.lg = LogAppend(@, [lsn |-> s.lg.next_lsn, tag |-> "agg",
                                 deltas |-> deltas_for(s.in.rollup, key, len)])]

\* The index, put-location and aggregate updates for a put logged at lsn.
IndexPut(in, lsn, key, len) ==
  LET loc == [seg |-> in.active_id, off |-> in.active_offset, len |-> len, lsn |-> lsn]
  IN  [in EXCEPT !.index[key] = loc,
                 !.put_locations = (lsn :> [key |-> key, loc |-> loc]) @@ @,
                 !.rollup = Record(@, key, len),
                 !.active_offset = @ + len]

\* Seeded fault: the AggDelta is computed after the put is counted.
StagedPut_DeltaAfterRecord(s0, key, val) ==
  LET len == Len(val)
      s1  == SealIf(s0, /\ s0.in.active_offset > 0
                        /\ s0.in.active_offset + len > SegmentMax)
      s2  == WriteActive(s1, val)
      s3  == [AppendPut(s2, key, len) EXCEPT
                !.in = [IndexPut(@, s2.lg.next_lsn, key, len) EXCEPT
                          !.dirty_segments = @ \cup {s2.in.active_id},
                          !.pending = TRUE]]
  IN  [ok |-> Fits(Last(s3.lg.buf)),
       s  |-> IF Fits(Last(s3.lg.buf))
              THEN SealIf(AppendAgg(s3, key, len), len > SegmentMax) ELSE s2]

\* stage_put, inside the lock.
StagedPut(s0, key, val) ==
  LET len == Len(val)
      s1  == SealIf(s0, /\ s0.in.active_offset > 0
                        /\ s0.in.active_offset + len > SegmentMax)
      s2  == WriteActive(s1, val)
      s3  == AppendPut(s2, key, len)
      s4  == [AppendAgg(s3, key, len) EXCEPT
                !.in = [IndexPut(@, s2.lg.next_lsn, key, len) EXCEPT
                          !.dirty_segments = @ \cup {s2.in.active_id},
                          !.pending = TRUE]]
  IN  \* a record that does not fit its block ends the call on the spot
      IF ~Fits(Last(s3.lg.buf)) THEN [ok |-> FALSE, s |-> s2]
      ELSE IF ~Fits(Last(s4.lg.buf)) THEN [ok |-> FALSE, s |-> s3]
      ELSE [ok |-> TRUE, s |-> SealIf(s4, len > SegmentMax)]

Locked == \E t \in Threads : pc[t] \in {"syncing", "committing", "spinning"}

Ready(t, at) == status = "up" /\ ~Locked /\ pc[t] \in at

StagePut(t) ==
  /\ Ready(t, {"idle"})
  /\ used.puts < MaxPuts
  /\ used' = [used EXCEPT !.puts = @ + 1]
  /\ \E key \in Keys, len \in Lens :
       LET id  == used.puts + 1
           res == StagedPut(Here, key, [c \in 1..len |-> id])
           s   == res.s
           at  == Max(DOMAIN s.in.put_locations \cup {0})
       IN  /\ inner' = s.in
           /\ log' = s.lg
           /\ disk' = s.dk
           /\ IF res.ok
              THEN /\ pc' = [pc EXCEPT ![t] = "staged"]
                   /\ batch' = [batch EXCEPT ![t] =
                        [kind |-> "put", key |-> key, lsn |-> at,
                         end |-> s.lg.next_lsn - 1]]
                   /\ hist' = [hist EXCEPT
                        !.put = (at :> [key |-> key, id |-> id, len |-> len]) @@ @]
              ELSE UNCHANGED <<pc, batch, hist>>
  /\ UNCHANGED <<status, snap>>
-----------------------------------------------------------------------------
(* sync_wal and commit *)

\* Wal::sync once write_all and sync_data have returned.
LogSynced(lg) ==
  [lg EXCEPT !.file = @ \o lg.buf, !.synced = Len(lg.file) + Len(lg.buf),
             !.buf = <<>>]

SyncWalBegin(t) ==
  /\ Ready(t, {"staged"})
  /\ pc' = [pc EXCEPT ![t] = "syncing"]
  /\ UNCHANGED <<status, inner, snap, log, disk, batch, hist, used>>

SyncWalEnd(t) ==
  /\ status = "up"
  /\ pc[t] = "syncing"
  /\ log' = LogSynced(log)
  /\ pc' = [pc EXCEPT ![t] = "synced"]
  /\ UNCHANGED <<status, inner, snap, disk, batch, hist, used>>

\* process_put answers the client once its commit has returned Ok.
Acknowledge(b) ==
  IF b.kind = "put" /\ hist.acked[b.key] < b.lsn
  THEN hist' = [hist EXCEPT !.acked[b.key] = b.lsn]
  ELSE UNCHANGED hist

\* What thread t does next when its commit returns Ok.
CommitReturns(t) ==
  /\ pc' = [pc EXCEPT ![t] = IF batch[t].kind = "compact" THEN "committed" ELSE "idle"]
  /\ batch' = [batch EXCEPT ![t] = IF @.kind = "compact" THEN @ ELSE NoBatch]
  /\ Acknowledge(batch[t])

\* commit(lsn) with nothing pending returns at once.
CommitNoop(t) ==
  /\ Ready(t, {"staged", "synced"})
  /\ ~inner.pending
  /\ CommitReturns(t)
  /\ UNCHANGED <<status, inner, snap, log, disk, used>>

\* Seeded fault: the dirty segments are not fsynced.
BeginCommit_NoSegmentFsync(t, lsn) ==
  /\ inner.pending
  /\ log' = LogAppend(log, [lsn |-> log.next_lsn, tag |-> "commit", upto |-> lsn])
  /\ pc' = [pc EXCEPT ![t] = "committing"]
  /\ UNCHANGED <<status, inner, snap, disk, hist, used>>

\* commit(lsn): fsync the dirty segments, append Commit { lsn }, and call
\* Wal::sync, whose write is in progress while pc[t] = "committing".
BeginCommit(t, lsn) ==
  /\ inner.pending
  /\ disk' = Fsync(disk, inner.dirty_segments \cap inner.segments)
  /\ log' = LogAppend(log, [lsn |-> log.next_lsn, tag |-> "commit", upto |-> lsn])
  /\ pc' = [pc EXCEPT ![t] = "committing"]
  /\ UNCHANGED <<status, inner, snap, hist, used>>

CommitBegin(t) ==
  /\ Ready(t, {"staged", "synced"})
  /\ BeginCommit(t, batch[t].end)
  /\ UNCHANGED batch

\* flush, which Drop calls too: commit everything staged so far.
Flush(t) ==
  /\ Ready(t, {"idle"})
  /\ BeginCommit(t, log.next_lsn - 1)
  /\ batch' = [batch EXCEPT ![t] = [kind |-> "flush", end |-> log.next_lsn - 1]]

\* The rest of commit: the WAL is fsynced and a new snapshot published.
CommitEnd(t) ==
  /\ status = "up"
  /\ pc[t] = "committing"
  /\ log' = LogSynced(log)
  /\ inner' = [inner EXCEPT
       !.committed_lsn = Max({@, batch[t].end}),
       !.last_commit_block = Max({@, log.next_lsn - 1}),
       !.applied_upto = Max({@, log.next_lsn - 1}),
       !.pending = FALSE,
       !.dirty_segments = {}]
  /\ snap' = SnapFrom(inner')
  /\ CommitReturns(t)
  /\ UNCHANGED <<status, disk, used>>

\* The quorum is lost (node.rs await_quorum): the thread reports an error and
\* forgets its batch, whose records stay in the log.
Abandon(t) ==
  /\ Ready(t, {"staged", "synced"})
  /\ pc' = [pc EXCEPT ![t] = "idle"]
  /\ batch' = [batch EXCEPT ![t] = NoBatch]
  /\ hist' = [hist EXCEPT !.dropped = @ \/ batch[t].kind = "compact"]
  /\ UNCHANGED <<status, inner, snap, log, disk, used>>
-----------------------------------------------------------------------------
(* Compaction *)

Live(in, sid) ==
  {in.index[k].lsn : k \in {j \in Keys : in.index[j].lsn > 0 /\ in.index[j].seg = sid}}

PutsIn(in, sid) == {l \in DOMAIN in.put_locations : in.put_locations[l].loc.seg = sid}

Reclaimable(in, sid, horizon) ==
  \E l \in PutsIn(in, sid) \ Live(in, sid) :
    l <= horizon /\ in.put_locations[l].loc.len > 0

\* Seeded fault: values above the horizon are dropped too.
Kept_LiveOnly(in, sid, horizon) == PutsIn(in, sid) \cap Live(in, sid)

Kept(in, sid, horizon) ==
  {l \in PutsIn(in, sid) : l \in Live(in, sid) \/ l > horizon}

\* The kept puts in the order of their offsets.
ByOffset(in, lsns) ==
  LET off(l) == in.put_locations[l].loc.off
  IN  SetToSortSeq(lsns, LAMBDA a, b : off(a) < off(b) \/ (off(a) = off(b) /\ a < b))

\* RemapEntry list of the replacement: the kept values back to back.
Entries(in, order) ==
  LET len(i) == in.put_locations[order[i]].loc.len
      off[i \in 1..(Len(order) + 1)] == IF i = 1 THEN 0 ELSE off[i - 1] + len(i - 1)
  IN  [i \in 1..Len(order) |->
         [key |-> in.put_locations[order[i]].key, lsn |-> order[i],
          off |-> off[i], len |-> len(i)]]

\* Seeded fault: the header of a SegmentRemap is left out of the budget.
RemapBudget_NoHeader == PAYLOAD_MAX

RemapBudget == PAYLOAD_MAX - 1 - 8 - 2

\* The entries, as many to a SegmentRemap record as fit the budget.
Chunks(entries) ==
  LET add(chunks, e) ==
        IF chunks # <<>> /\ EntriesSize(Append(Last(chunks), e)) <= RemapBudget
        THEN Append(Front(chunks), Append(Last(chunks), e))
        ELSE Append(chunks, <<e>>)
  IN  FoldLeft(add, <<>>, entries)

RemapRecords(entries, new, lsn) ==
  LET chunks == Chunks(entries)
  IN  [c \in 1..Len(chunks) |->
         [lsn |-> lsn + c - 1, tag |-> "remap", new |-> new, entries |-> chunks[c]]]

\* Seeded fault: a key that was overwritten meanwhile is moved back.
Repoint_Blind(in, entries, new) ==
  LET loc(e) == [seg |-> new, off |-> e.off, len |-> e.len, lsn |-> e.lsn]
      move(st, e) ==
        [st EXCEPT !.index[e.key] = loc(e),
                   !.put_locations = (e.lsn :> [key |-> e.key, loc |-> loc(e)]) @@ @]
  IN  FoldLeft(move, in, entries)

\* Index and put-location map with the entries of a replacement segment.
Repoint(in, entries, new) ==
  LET loc(e) == [seg |-> new, off |-> e.off, len |-> e.len, lsn |-> e.lsn]
      move(st, e) ==
        [st EXCEPT !.index[e.key] = IF @.lsn = e.lsn THEN loc(e) ELSE @,
                   !.put_locations = (e.lsn :> [key |-> e.key, loc |-> loc(e)]) @@ @]
  IN  FoldLeft(move, in, entries)

\* The horizons process_compact can pass: a follower's committed_through is
\* 0 or a commit index the leader had, which is the LSN of a Commit block.
Horizons ==
  {0} \cup {log.file[i].lsn : i \in {j \in 1..Len(log.file) : IsCommit(log.file[j])}}

\* compact_stage: the replacement file is written, fsynced and renamed into
\* place before its records reach the WAL buffer.  A crash before the rename
\* leaves a .tmp file, which recovery deletes.  At an entry that is larger
\* than the budget the loop over the entries makes no progress: the call
\* appends empty records for ever, with the lock held.
CompactStage(t, horizon) ==
  LET at == SelectInSeq(inner.sealed, LAMBDA sid : Reclaimable(inner, sid, horizon))
  IN  /\ Ready(t, {"idle"})
      /\ used.compactions < MaxCompactions
      /\ at > 0
      /\ LET old     == inner.sealed[at]
             new     == inner.next_free_id
             entries == Entries(inner, ByOffset(inner, Kept(inner, old, horizon)))
             values  == [i \in 1..Len(entries) |->
                           LET l == inner.put_locations[entries[i].lsn].loc
                           IN  ReadAt(disk.cells[old], l.off, l.len)]
             wide    == SelectInSeq(entries, LAMBDA e : EntrySize(e) > RemapBudget)
             chunked == IF wide = 0 THEN entries ELSE SubSeq(entries, 1, wide - 1)
             remaps  == RemapRecords(chunked, new, log.next_lsn + 1)
         IN  /\ disk' = Fsync([disk EXCEPT !.cells[new] = FlattenSeq(values),
                                           !.names = @ \cup {new}], {new})
             /\ log' = [log EXCEPT
                  !.buf = @ \o <<[lsn |-> log.next_lsn, tag |-> "swap",
                                  old |-> old, new |-> new]>> \o remaps,
                  !.next_lsn = @ + 1 + Len(remaps)]
             /\ inner' = [inner EXCEPT !.next_free_id = @ + 1, !.pending = TRUE]
             /\ batch' = [batch EXCEPT ![t] =
                  [kind |-> "compact", old |-> old, new |-> new, entries |-> entries,
                   dropped |-> PutsIn(inner, old) \ Kept(inner, old, horizon),
                   end |-> log.next_lsn + Len(remaps)]]
             /\ pc' = [pc EXCEPT ![t] = IF wide = 0 THEN "staged" ELSE "spinning"]
      /\ hist' = [hist EXCEPT !.horizon = Max({@, horizon})]
      /\ used' = [used EXCEPT !.compactions = @ + 1]
      /\ UNCHANGED <<status, snap>>

\* compact_commit
CompactCommit(t) ==
  /\ Ready(t, {"committed"})
  /\ LET b == batch[t]
     IN  /\ inner' = [Repoint(inner, b.entries, b.new) EXCEPT
                        !.put_locations = Restrict(@, DOMAIN @ \ b.dropped),
                        !.segments = (@ \ {b.old}) \cup {b.new},
                        !.sealed = Append(SelectSeq(@, LAMBDA id : id # b.old), b.new)]
         /\ disk' = [disk EXCEPT !.names = @ \ {b.old}]
  /\ snap' = SnapFrom(inner')
  /\ pc' = [pc EXCEPT ![t] = "idle"]
  /\ batch' = [batch EXCEPT ![t] = NoBatch]
  /\ UNCHANGED <<status, log, hist, used>>
-----------------------------------------------------------------------------
(* Crashes *)

\* What the process may have handed to write() on wal.log.
LogWritten == IF Locked THEN log.file \o log.buf ELSE log.file

\* A file whose name was removed is gone with the process, and its id stands
\* for an empty file from here on.
Remaining(d) ==
  [names  |-> d.names,
   cells  |-> [i \in SegIds |-> IF i \in d.names THEN d.cells[i] ELSE <<>>],
   synced |-> [i \in SegIds |-> IF i \in d.names THEN d.synced[i] ELSE 0]]

\* Everything in memory is gone; snap keeps what readers saw last, and nobody
\* looks at it before Recover replaces it.
Stop(d) ==
  /\ status \in {"up", "replayed"}
  /\ status' = "down"
  /\ inner' = EmptyInner
  /\ disk' = Remaining(d)
  /\ pc' = [t \in Threads |-> "idle"]
  /\ batch' = [t \in Threads |-> NoBatch]
  /\ UNCHANGED <<snap, hist>>

\* The process dies; the page cache survives.
ProcessCrash ==
  /\ used.process < MaxProcessCrash
  /\ used' = [used EXCEPT !.process = @ + 1]
  /\ Stop(disk)
  /\ \E f \in CutShort(LogWritten, Len(log.file)) :
       log' = [file |-> f, synced |-> log.synced, buf |-> <<>>, next_lsn |-> 0]

\* Drop flushes and then the process ends: nothing is staged.
Close ==
  /\ \A t \in Threads : Ready(t, {"idle"})
  /\ ~inner.pending
  /\ used.process < MaxProcessCrash
  /\ used' = [used EXCEPT !.process = @ + 1]
  /\ Stop(disk)
  /\ log' = [log EXCEPT !.buf = <<>>, !.next_lsn = 0]

\* The segment files after a power loss: the unsynced end of each is still
\* there, cut off, or present in length only.
PowerImages(d) ==
  LET unsynced == {i \in d.names : d.synced[i] < Len(d.cells[i])}
      image(i, fate) ==
        LET kept == SubSeq(d.cells[i], 1, d.synced[i])
            lost == Len(d.cells[i]) - d.synced[i]
        IN  CASE fate = "kept"  -> d.cells[i]
              [] fate = "cut"   -> kept
              [] fate = "blank" -> kept \o [c \in 1..lost |-> 0]
      after(fates) ==
        LET cells == [i \in SegIds |-> IF i \in unsynced THEN image(i, fates[i])
                                       ELSE d.cells[i]]
        IN  [d EXCEPT !.cells = cells, !.synced = [i \in SegIds |-> Len(cells[i])]]
  IN  {after(fates) : fates \in [unsynced -> {"kept", "cut", "blank"}]}

\* The machine dies: whatever was not fsynced may be lost.
PowerLoss ==
  /\ used.power < MaxPowerLoss
  /\ used' = [used EXCEPT !.power = @ + 1]
  /\ \E d \in PowerImages(disk) : Stop(d)
  /\ \E f \in CutShort(LogWritten, log.synced) :
       log' = [file |-> f, synced |-> Len(f), buf |-> <<>>, next_lsn |-> 0]
-----------------------------------------------------------------------------
(* Recovery *)

\* open_with_options, first part: replay the WAL and Wal::open.
OpenWal ==
  /\ status = "down"
  /\ status' = "replayed"
  /\ log' = [file |-> Replay(log.file),
             synced |-> Min({log.synced, Len(Replay(log.file))}),
             buf |-> <<>>, next_lsn |-> HighWater(log.file) + 1]
  /\ UNCHANGED <<inner, snap, disk, pc, batch, hist, used>>

\* Seeded fault: the append position is not reset.
ReplaySeal_KeepsOffset(st, in, r) ==
  [st EXCEPT !.lens = (r.seg :> in.active_offset) @@ @,
             !.in = [in EXCEPT !.sealed = Append(@, r.seg), !.active_id = r.next]]

\* recover on a SegmentSeal.
ReplaySeal(st, in, r) ==
  [st EXCEPT !.lens = (r.seg :> in.active_offset) @@ @,
             !.in = [in EXCEPT !.sealed = Append(@, r.seg),
                               !.active_id = r.next, !.active_offset = 0]]

\* recover, the loop over the records: lens is its map `committed` from
\* segment ids to committed lengths.
ReplayRecord(st, r) ==
  LET in == [st.in EXCEPT !.applied_upto = Max({@, r.lsn})]
  IN  CASE r.tag = "put" ->
             LET in2 == IndexPut(in, r.lsn, r.key, r.len)
             IN  [st EXCEPT !.in = in2, !.lens = (in.active_id :> in2.active_offset) @@ @]
        [] r.tag = "seal" -> ReplaySeal(st, in, r)
        [] r.tag = "swap" -> [st EXCEPT !.in = in, !.swaps = Append(@, r)]
        [] r.tag = "remap" -> [st EXCEPT !.in = in, !.remaps[r.new] = @ \o r.entries]
        [] r.tag = "commit" ->
             [st EXCEPT !.in = [in EXCEPT !.committed_lsn = Max({@, r.upto}),
                                          !.last_commit_block = Max({@, r.lsn})]]
        [] r.tag = "agg" -> [st EXCEPT !.in = in]

\* recover, the loop over the swaps, after the whole log has been read.
ReplaySwap(st, r) ==
  LET es  == st.remaps[r.new]
      len == Max({0} \cup {es[i].off + es[i].len : i \in 1..Len(es)})
  IN  [st EXCEPT !.in = [Repoint(@, es, r.new) EXCEPT
                           !.sealed = Append(SelectSeq(@, LAMBDA id : id # r.old), r.new)],
                 !.lens = (r.old :> 0) @@ (r.new :> len) @@ @]

Layout(records) ==
  LET st == FoldLeft(ReplayRecord,
                     [in |-> EmptyInner, lens |-> <<>>, swaps |-> <<>>,
                      remaps |-> [i \in SegIds |-> <<>>]], records)
      a  == st.in.active_id
  IN  FoldLeft(ReplaySwap,
               [st EXCEPT !.lens = @ @@ (a :> st.in.active_offset)], st.swaps)

Retired(st) == {st.swaps[i].old : i \in 1..Len(st.swaps)}

\* recover, the part that checks and repairs the segment files d for the
\* records of a replayed log: whether it succeeds, and what it leaves.
Recovered(records, d) ==
  LET st        == Layout(records)
      target(i) == IF i \in DOMAIN st.lens THEN st.lens[i] ELSE 0
      missing   == \E i \in DOMAIN st.lens : st.lens[i] > 0 /\ i \notin d.names
      short     == \E i \in d.names : Len(d.cells[i]) < target(i)
  IN  [ok |-> ~missing /\ ~short,
       in |-> [st.in EXCEPT
                 !.next_free_id = Max({st.in.active_id} \cup DOMAIN st.lens \cup d.names) + 1,
                 !.segments = DOMAIN st.lens],
       dk |-> [names  |-> (d.names \ Retired(st)) \cup DOMAIN st.lens,
               cells  |-> [i \in SegIds |-> SubSeq(d.cells[i], 1, Min({target(i), Len(d.cells[i])}))],
               synced |-> [i \in SegIds |-> Min({d.synced[i], target(i)})]]]

\* open_with_options, the rest.
Recover ==
  LET r == Recovered(log.file, disk)
  IN  /\ status = "replayed"
      /\ IF r.ok
         THEN /\ status' = "up"
              /\ inner' = r.in
              /\ snap' = SnapFrom(r.in)
              /\ disk' = r.dk
         ELSE /\ status' = "corrupt"
              /\ UNCHANGED <<inner, snap, disk>>
      /\ UNCHANGED <<log, pc, batch, hist, used>>

ThreadStep(t) ==
  \/ StagePut(t)
  \/ SyncWalBegin(t)
  \/ SyncWalEnd(t)
  \/ CommitNoop(t)
  \/ CommitBegin(t)
  \/ CommitEnd(t)
  \/ Flush(t)
  \/ Abandon(t)
  \/ \E horizon \in Horizons : CompactStage(t, horizon)
  \/ CompactCommit(t)

Next ==
  \/ \E t \in Threads : ThreadStep(t)
  \/ ProcessCrash
  \/ PowerLoss
  \/ Close
  \/ OpenWal
  \/ Recover

Spec == Init /\ [][Next]_vars
-----------------------------------------------------------------------------
(* Properties *)

Location == [seg : Nat, off : Nat, len : Nat, lsn : Nat]

\* Types of the store's memory, log and files, and a thread that holds the
\* lock alone.
StoreTypeOK ==
  /\ status \in {"down", "replayed", "up", "corrupt"}
  /\ inner.index \in [Keys -> Location]
  /\ \A l \in DOMAIN inner.put_locations :
       inner.put_locations[l].key \in Keys /\ inner.put_locations[l].loc \in Location
  /\ inner.segments \cup inner.dirty_segments \cup ToSet(inner.sealed) \subseteq SegIds
  /\ {inner.active_id, inner.next_free_id} \subseteq Nat
  /\ log.synced \in 0..Len(log.file)
  /\ \A i \in SegIds : disk.synced[i] \in 0..Len(disk.cells[i])
  /\ \A t, u \in Threads :
       {pc[t], pc[u]} \subseteq {"syncing", "committing"} => t = u

\* The location reads back the value of the put that stands at its LSN.
ReadsItsPut(key, loc) ==
  /\ loc.lsn \in DOMAIN hist.put
  /\ loc.seg \in inner.segments
  /\ LET put == hist.put[loc.lsn]
     IN  /\ put.key = key
         /\ ReadAt(disk.cells[loc.seg], loc.off, loc.len) = [c \in 1..put.len |-> put.id]

\* ACK implies durable (DESIGN.md 4): every key whose put was acknowledged
\* reads as that put or a later one whenever the store is open, and the
\* store can be opened.
AckedReadable ==
  \A k \in Keys : hist.acked[k] > 0 =>
    /\ status # "corrupt"
    /\ status = "up" => /\ snap.index[k].lsn >= hist.acked[k]
                        /\ ReadsItsPut(k, snap.index[k])

\* The index always points at complete values of the right put (DESIGN.md
\* 13, 15), staged puts, compactions and recoveries included.
IndexReadable ==
  status = "up" =>
    \A k \in Keys :
      /\ inner.index[k].lsn > 0 => ReadsItsPut(k, inner.index[k])
      /\ snap.index[k].lsn > 0 => ReadsItsPut(k, snap.index[k])

\* value_at can serve a backfill (DESIGN.md, horizon-gated compaction): each
\* committed put above every compaction horizon used so far is still there.
BackfillServable ==
  status = "up" =>
    \A i \in 1..Len(log.file) :
      LET r == log.file[i]
      IN  r.tag = "put" /\ i <= Keep(log.file) /\ r.lsn > hist.horizon =>
            /\ r.lsn \in DOMAIN inner.put_locations
            /\ ReadsItsPut(r.key, inner.put_locations[r.lsn].loc)

\* Store::open never answers Corrupt.
OpenSucceeds == status # "corrupt"

\* Segment id uniqueness (DESIGN.md 14): the allocator is ahead of every id
\* in use, and the active segment is not also a sealed one.
SegmentIdsUnique ==
  status = "up" =>
    /\ \A i \in disk.names \cup inner.segments \cup ToSet(inner.sealed) \cup {inner.active_id} :
         i < inner.next_free_id
    /\ IsInjective(inner.sealed)
    /\ inner.active_id \notin ToSet(inner.sealed)

\* capacity
capacity(prefix) == Get(snap.rollup.aggregates, prefix)

keys_with_prefix(prefix) ==
  {k \in Keys : /\ snap.index[k].lsn > 0 /\ snap.index[k].lsn <= snap.committed
                /\ IsStrictPrefix(Parts(prefix), Parts(k))}

\* Aggregate exactness (DESIGN.md 12): the published counters of every prefix
\* equal a recount of the keys listed under it, live and after recovery and
\* compaction.
AggregateExact ==
  status = "up" =>
    \A prefix \in UNION {prefixes_of(k) \cup {Parts(k)} : k \in Keys} :
      LET listed == keys_with_prefix(prefix)
      IN  capacity(prefix) =
            [object_count |-> Cardinality(listed),
             byte_count |-> MapThenSumSet(LAMBDA k : snap.index[k].len, listed)]

\* The AggDelta records tell the same story as the counters (rollup.rs:62-63):
\* summed over the log of an open store they are its aggregates, after
\* overwrites, batches that were given up, crashes and compactions.
AggDeltasAddUp ==
  LET sum(aggregates, r) == IF r.tag = "agg" THEN Add(aggregates, r.deltas) ELSE aggregates
  IN  status = "up" =>
        FoldLeft(sum, <<>>, log.file \o log.buf) = inner.rollup.aggregates

\* The put get returns for a key, or returned when the store was last open;
\* nothing is read from a store that does not open.
Visible(k) ==
  IF status = "corrupt" \/ (status = "up" /\ ~ReadsItsPut(k, snap.index[k]))
  THEN 0
  ELSE snap.index[k].lsn

KV == INSTANCE KVStore WITH open  <- status = "up",
                            kv    <- [k \in Keys |-> Visible(k)],
                            acked <- hist.acked

\* The store implements KVStore: a value that was read once is not replaced by
\* an older one, whatever the commits, compactions, crashes and recoveries in
\* between.
ImplementsKVStore == KV!KVSpec

\* A record that reaches the WAL buffer fits its block: the budget of the
\* loop over the entries agrees with encode_record, whatever the keys.
RecordsFit == \A r \in ToSet(log.buf) : Fits(r)

\* README.md:79-82: a sealed segment with dead values "is rewritten", so
\* compact_stage returns.  It does not for a kept key that fits a Put record and
\* no SegmentRemap record (4040 to 4057 bytes; README, section 6).
CompactionReturns == \A t \in Threads : pc[t] # "spinning"

\* Recovery reproduces the layout (segment.rs:6-7): with nothing staged, and as
\* long as no compaction has been given up, whose swap would stay in the log,
\* replaying the log on disk rebuilds the index, the aggregates, the set of
\* sealed segments and the append position that the running store has.
RecoveryReproducesState ==
  (/\ status = "up" /\ ~inner.pending /\ log.buf = <<>> /\ ~hist.dropped
   /\ \A t \in Threads : pc[t] = "idle") =>
     LET in == Layout(Replay(log.file)).in
     IN  /\ in.index = inner.index
         /\ in.rollup = inner.rollup
         /\ in.active_id = inner.active_id
         /\ in.active_offset = inner.active_offset
         /\ ToSet(in.sealed) = ToSet(inner.sealed)
         /\ in.committed_lsn = inner.committed_lsn
         /\ in.last_commit_block = inner.last_commit_block

\* Cells of segment i that some put of the running store occupies.
Extent(i) == IF i = inner.active_id THEN inner.active_offset ELSE Len(disk.cells[i])

\* Read isolation (DESIGN.md 15): while the store is open no step changes a
\* cell a published location can cover, so a reader that loaded an older
\* snapshot still reads what was committed.
SegmentsAppendOnly ==
  [][status = "up" /\ status' = "up" =>
       \A i \in inner.segments :
         \A n \in 1..Extent(i) : n <= Len(disk.cells[i]) =>
           n <= Len(disk'.cells[i]) /\ disk'.cells[i][n] = disk.cells[i][n]]_vars
=============================================================================
