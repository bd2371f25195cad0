---------------------------- MODULE Replication ----------------------------
(***************************************************************************)
(* Single-leader replication of shardvault-node/src/node.rs: clients of    *)
(* the leader, the frame queue and connection of every follower, and the   *)
(* followers' apply loops, over stores reduced to their write-ahead logs.  *)
(*                                                                         *)
(* A put is a batch of two records, Put and AggDelta; a compaction is a    *)
(* batch of one record that stands for SegmentSwap and its SegmentRemaps.  *)
(* A frame taken off a queue is seen by nobody but the follower, and an    *)
(* acknowledgement by nobody but the leader, so the bytes in flight are    *)
(* the head of the queue and the field ack of the link; a broken           *)
(* connection loses both.                                                  *)
(***************************************************************************)
EXTENDS WalFormat, FiniteSets, SequencesExt

CONSTANTS
  Clients, Followers, Keys,
  NoKey,                    \* the key of records that have none
  MaxPuts, MaxCompactions,  \* bounds on requests; GETs are not bounded
  Failures,                 \* what may fail: "link", "follower", "leader"
  MaxFailures               \* and how often in all

VARIABLES
  store,     \* the leader's Store: log, buf, next_lsn, pending, snap, dropped
  commit_index,
  link,      \* FollowerLink and the connection, by follower
  replica,   \* the follower's Store: log, buf, last_commit_block, applied_upto
  pc, batch, \* handle_client: what each client waits for, local variables
  acked,     \* history: the LSN of the last put acknowledged, by key
  used       \* history: requests and failures so far

vars == <<store, commit_index, link, replica, pc, batch, acked, used>>

Rec(lsn, tag, key, upto, drop) ==
  [lsn |-> lsn, tag |-> tag, key |-> key, upto |-> upto, drop |-> drop]

Barrier(lsn) == Rec(lsn, "barrier", NoKey, 0, {})

NoBatch == [key |-> NoKey, end |-> 0, records |-> <<>>, drop |-> {}, lsn |-> 0]

\* peers.len().div_ceil(2), where the peers include the leader.
quorum == (Cardinality(Followers) + 2) \div 2

MaxOf(S) == Max(S \cup {0})

PutsOf(log, k) == {b \in ToSet(log) : b.tag = "put" /\ b.key = k}

\* The index after the records of log: the LSN of each key's last put.
Index(log) == [k \in Keys |-> MaxOf({b.lsn : b \in PutsOf(log, k)})]

CommitBlocks(log) == {b.lsn : b \in {x \in ToSet(log) : IsCommit(x)}}

\* Values left out by the compactions of log.
DroppedBy(log) == UNION {b.drop : b \in {x \in ToSet(log) : x.tag = "swap"}}

\* FollowerLink as Leader::new makes it.
NewLink ==
  [match_index |-> 0, committed_through |-> 0, alive |-> FALSE, queue |-> <<>>,
   conn |-> "down", from |-> 0, commit |-> 0, ack |-> 0]

Init ==
  /\ store = [log |-> <<>>, buf |-> <<>>, next_lsn |-> 1, pending |-> FALSE,
              snap |-> Index(<<>>), dropped |-> {}]
  /\ commit_index = 0
  /\ link = [f \in Followers |-> NewLink]
  /\ replica = [f \in Followers |->
       [log |-> <<>>, buf |-> <<>>, last_commit_block |-> 0, applied_upto |-> 0]]
  /\ pc = [c \in Clients |-> "idle"]
  /\ batch = [c \in Clients |-> NoBatch]
  /\ acked = [k \in Keys |-> 0]
  /\ used = [puts |-> 0, compactions |-> 0, failures |-> 0]

Goto(c, from, to) == pc[c] = from /\ pc' = [pc EXCEPT ![c] = to]

Use(what, max) ==
  used[what] < max /\ used' = [used EXCEPT ![what] = @ + 1]

Fail(what) == what \in Failures /\ Use("failures", MaxFailures)

---------------------------------------------------------------------------
(* The leader's client threads: process_put and process_compact.           *)

\* Stage a batch of records under the store lock.
Stage(c, key, records, drop) ==
  /\ Goto(c, "idle", "staged")
  /\ batch' = [batch EXCEPT ![c] =
       [NoBatch EXCEPT !.key = key, !.records = records, !.drop = drop,
                       !.end = records[Len(records)].lsn,
                       !.lsn = records[1].lsn]]
  /\ store' = [store EXCEPT !.buf = @ \o records,
                            !.next_lsn = @ + Len(records), !.pending = TRUE]
  /\ UNCHANGED <<commit_index, link, replica, acked>>

PutStage(c, k) ==
  /\ Use("puts", MaxPuts)
  /\ LET n == store.next_lsn
     IN  Stage(c, k, <<Rec(n, "put", k, 0, {}),
                       Rec(n + 1, "agg", NoKey, 0, {})>>, {})

Horizon == Min({link[f].committed_through : f \in Followers})

\* Seeded fault: the horizon ignores how far the followers are.
Reclaimable_NoHorizon ==
  LET log == store.log \o store.buf
  IN  {b.lsn : b \in {x \in ToSet(log) :
         x.tag = "put" /\ x.lsn <= commit_index /\ x.lsn < Index(log)[x.key]}}
        \ store.dropped

\* The puts compact_stage may leave out: overwritten, and at or below the
\* horizon.  A compaction takes them all, the most a backfill can miss.
Reclaimable ==
  LET log == store.log \o store.buf
  IN  {b.lsn : b \in {x \in ToSet(log) :
         x.tag = "put" /\ x.lsn <= Horizon /\ x.lsn < Index(log)[x.key]}}
        \ store.dropped

CompactStage(c) ==
  /\ Use("compactions", MaxCompactions)
  /\ Reclaimable # {}
  /\ Stage(c, NoKey, <<Rec(store.next_lsn, "swap", NoKey, 0, Reclaimable)>>,
           Reclaimable)

\* store.sync_wal()
SyncWal(c) ==
  /\ Goto(c, "staged", "synced")
  /\ store' = [store EXCEPT !.log = @ \o store.buf, !.buf = <<>>]
  /\ UNCHANGED <<commit_index, link, replica, batch, acked, used>>

\* send_batch: the records and a barrier, to every follower's queue.
send_batch(records, end) ==
  link' = [f \in Followers |->
    [link[f] EXCEPT !.queue = @ \o Append(records, Barrier(end))]]

SendBatch(c) ==
  /\ Goto(c, "synced", "waiting")
  /\ send_batch(batch[c].records, batch[c].end)
  /\ UNCHANGED <<store, commit_index, replica, batch, acked, used>>

Acks(c) == 1 + Cardinality({f \in Followers : link[f].match_index >= batch[c].end})

Reachable == 1 + Cardinality({f \in Followers : link[f].alive})

\* await_quorum returns Ok.
QuorumReached(c) ==
  /\ Acks(c) >= quorum
  /\ Goto(c, "waiting", "quorate")
  /\ UNCHANGED <<store, commit_index, link, replica, batch, acked, used>>

\* await_quorum returns "quorum lost" after the deadline.  The records stay
\* in the log, in the index and in the queues.
QuorumLost(c) ==
  /\ Acks(c) < quorum /\ Reachable < quorum
  /\ Goto(c, "waiting", "idle")
  /\ batch' = [batch EXCEPT ![c] = NoBatch]
  /\ UNCHANGED <<store, commit_index, link, replica, acked, used>>

\* Seeded fault: the Commit stays in the buffer.
Commit_NoSync(c) ==
  /\ Goto(c, "quorate", "committed")
  /\ LET block == Rec(store.next_lsn, "commit", NoKey, batch[c].end, {})
     IN  store' = [store EXCEPT !.buf = Append(@, block), !.next_lsn = @ + 1,
                    !.pending = FALSE, !.snap = Index(store.log \o store.buf)]
  /\ batch' = [batch EXCEPT ![c].lsn = store.next_lsn]
  /\ UNCHANGED <<commit_index, link, replica, acked, used>>

\* store.commit(batch_end), and commit_block, kept in the batch as its lsn.
Commit(c) ==
  /\ Goto(c, "quorate", "committed")
  /\ LET block == Rec(store.next_lsn, "commit", NoKey, batch[c].end, {})
     IN  store' = IF ~store.pending THEN store ELSE
           [store EXCEPT !.log = Append(@ \o store.buf, block), !.buf = <<>>,
              !.next_lsn = @ + 1, !.pending = FALSE,
              !.snap = Index(store.log \o store.buf)]
  /\ batch' = [batch EXCEPT ![c].lsn = store'.next_lsn - 1]
  /\ UNCHANGED <<commit_index, link, replica, acked, used>>

\* compact_commit publishes the replacement and deletes the old segment.
CompactCommit(c) ==
  /\ batch[c].drop # {}
  /\ Goto(c, "committed", "swapped")
  /\ store' = [store EXCEPT !.dropped = @ \cup batch[c].drop,
                            !.snap = Index(store.log \o store.buf)]
  /\ UNCHANGED <<commit_index, link, replica, batch, acked, used>>

\* commit_index.store(commit_block)
StoreCommitIndex(c) ==
  /\ IF batch[c].drop = {} THEN Goto(c, "committed", "indexed")
                           ELSE Goto(c, "swapped", "indexed")
  /\ commit_index' = batch[c].lsn
  /\ UNCHANGED <<store, link, replica, batch, acked, used>>

\* Send the Commit to the followers and Ok to the client.
Reply(c) ==
  /\ Goto(c, "indexed", "idle")
  /\ send_batch(<<Rec(batch[c].lsn, "commit", NoKey, batch[c].end, {})>>,
                batch[c].lsn)
  /\ acked' = [k \in Keys |->
       IF k = batch[c].key /\ batch[c].records[1].lsn > acked[k]
       THEN batch[c].records[1].lsn ELSE acked[k]]
  /\ batch' = [batch EXCEPT ![c] = NoBatch]
  /\ UNCHANGED <<store, commit_index, replica, used>>

\* GetReq, first half: load the commit index, before the store is locked.
GetLoad(c, k) ==
  /\ Goto(c, "idle", "reading")
  /\ batch' = [batch EXCEPT ![c] =
       [NoBatch EXCEPT !.key = k, !.end = commit_index, !.lsn = acked[k]]]
  /\ UNCHANGED <<store, commit_index, link, replica, acked, used>>

\* get_upto: the LSN of the put whose value is returned, 0 for None.
get_upto(k, committed) == IF store.snap[k] > committed THEN 0 ELSE store.snap[k]

GetReply(c) ==
  /\ Goto(c, "reading", "idle")
  /\ batch' = [batch EXCEPT ![c] = NoBatch]
  /\ UNCHANGED <<store, commit_index, link, replica, acked, used>>

---------------------------------------------------------------------------
(* The leader's dialer and writer threads, and the follower's apply loop.  *)

SetLink(f, l) == link' = [link EXCEPT ![f] = l]

\* Hello, NeedFrom, and the load of commit_index that begins handle_backfill.
Dial(f) ==
  /\ link[f].conn = "down"
  /\ SetLink(f, [link[f] EXCEPT !.conn = "dialed", !.commit = commit_index,
                            !.from = replica[f].last_commit_block + 1])
  /\ UNCHANGED <<store, commit_index, replica, pc, batch, acked, used>>

\* The committed records a follower asks for.
BackfillRecords(f) ==
  SelectSeq(Scan(store.log),
            LAMBDA b : link[f].from <= b.lsn /\ b.lsn <= link[f].commit)

\* value_at fails for a record whose value is gone.
ValueMissing(f) ==
  \E b \in ToSet(BackfillRecords(f)) : b.tag = "put" /\ b.lsn \in store.dropped

\* Seeded fault: every queued frame is dropped.
Backfill_ClearsQueue(f) ==
  LET l == link[f]
  IN  /\ l.conn = "dialed"
      /\ SetLink(f, [l EXCEPT !.conn = "up", !.alive = TRUE, !.from = 0, !.commit = 0,
           !.queue = Append(BackfillRecords(f), Barrier(l.commit))])
      /\ UNCHANGED <<store, commit_index, replica, pc, batch, acked, used>>

\* handle_backfill: the records asked for, a barrier, then the queued frames
\* above the commit point.  It gives up when a value is missing; the link is
\* marked alive and its threads start in either case.
Backfill(f) ==
  LET l        == link[f]
      retained == SelectSeq(l.queue, LAMBDA b : b.lsn > l.commit)
  IN  /\ l.conn = "dialed"
      /\ SetLink(f, [l EXCEPT !.conn = "up", !.alive = TRUE, !.from = 0, !.commit = 0,
           !.queue = IF ValueMissing(f) THEN @
                     ELSE Append(BackfillRecords(f), Barrier(l.commit)) \o retained])
      /\ UNCHANGED <<store, commit_index, replica, pc, batch, acked, used>>

\* apply_record, as far as the log and the positions are concerned.
apply_record(r, b) ==
  [r EXCEPT !.buf = Append(@, b),
            !.applied_upto = MaxOf({@, b.lsn}),
            !.last_commit_block = IF IsCommit(b) THEN MaxOf({@, b.lsn}) ELSE @]

\* sync_all
sync_all(r) == [r EXCEPT !.log = @ \o r.buf, !.buf = <<>>]

\* One turn of writer_loop and of apply_loop: a record already covered by a
\* Commit is skipped, any other is applied; a barrier syncs and acknowledges.
Deliver(f) ==
  LET l == link[f]
      b == Head(l.queue)
  IN  /\ l.conn = "up" /\ l.queue # <<>>
      /\ replica' = [replica EXCEPT ![f] =
           IF b.tag = "barrier" THEN sync_all(@)
           ELSE IF b.lsn <= @.last_commit_block THEN @
           ELSE apply_record(@, b)]
      /\ SetLink(f, [l EXCEPT !.queue = Tail(@),
           !.ack = IF b.tag = "barrier" THEN replica[f].applied_upto ELSE @])
      /\ UNCHANGED <<store, commit_index, pc, batch, acked, used>>

\* dialer_loop on SyncAck.
ReceiveAck(f) ==
  LET l == link[f]
  IN  /\ l.conn = "up" /\ l.ack > 0
      /\ SetLink(f, [l EXCEPT !.match_index = MaxOf({@, l.ack}), !.ack = 0,
           !.committed_through = IF l.ack >= commit_index THEN commit_index ELSE @])
      /\ UNCHANGED <<store, commit_index, replica, pc, batch, acked, used>>

---------------------------------------------------------------------------
(* Failures.                                                               *)

\* The link after its connection ended: frames taken off the queue that did
\* not arrive are gone, and so is an acknowledgement on its way.
Broken(l) ==
  {[l EXCEPT !.conn = "down", !.alive = FALSE, !.ack = 0, !.from = 0, !.commit = 0,
             !.queue = SubSeq(@, n + 1, Len(@))] :
     n \in IF l.conn = "up" THEN 0..Len(l.queue) ELSE {0}}

Break(f) ==
  /\ Fail("link")
  /\ link[f].conn # "down"
  /\ \E l \in Broken(link[f]) : SetLink(f, l)
  /\ UNCHANGED <<store, commit_index, replica, pc, batch, acked>>

\* Store::open of a follower's log.
Reopen(file) ==
  LET log == Replay(file)
  IN  [log |-> log, buf |-> <<>>, last_commit_block |-> MaxOf(CommitBlocks(log)),
       applied_upto |-> MaxOf({b.lsn : b \in ToSet(log)})]

\* A follower is killed, perhaps while it writes its log, and restarted.
FollowerCrash(f) ==
  /\ Fail("follower")
  /\ \E l \in Broken(link[f]) : SetLink(f, l)
  /\ \E file \in CutShort(replica[f].log \o replica[f].buf, Len(replica[f].log)) :
       replica' = [replica EXCEPT ![f] = Reopen(file)]
  /\ UNCHANGED <<store, commit_index, pc, batch, acked>>

\* The leader is killed and restarted: Leader::new over the recovered store.
LeaderCrash ==
  /\ Fail("leader")
  /\ \E file \in CutShort(store.log \o store.buf, Len(store.log)) :
       /\ store' = [log |-> Replay(file), buf |-> <<>>,
                    next_lsn |-> HighWater(file) + 1, pending |-> FALSE,
                    snap |-> Index(Replay(file)), dropped |-> DroppedBy(Replay(file))]
       /\ commit_index' = HighWater(file)
  /\ link' = [f \in Followers |-> NewLink]
  /\ pc' = [c \in Clients |-> "idle"]
  /\ batch' = [c \in Clients |-> NoBatch]
  /\ UNCHANGED <<replica, acked>>

---------------------------------------------------------------------------
ClientStep(c) ==
  \/ SyncWal(c) \/ SendBatch(c) \/ QuorumReached(c) \/ QuorumLost(c)
  \/ Commit(c) \/ CompactCommit(c) \/ StoreCommitIndex(c) \/ Reply(c)
  \/ GetReply(c)

LinkStep(f) == Dial(f) \/ Backfill(f) \/ Deliver(f) \/ ReceiveAck(f)

Next ==
  \/ \E c \in Clients : \/ ClientStep(c)
                        \/ CompactStage(c)
                        \/ \E k \in Keys : PutStage(c, k) \/ GetLoad(c, k)
  \/ \E f \in Followers : LinkStep(f) \/ Break(f) \/ FollowerCrash(f)
  \/ LeaderCrash

\* Every thread of a running node keeps running: a client's request goes on,
\* the dialer redials, reader and writer threads serve an open connection.
Fairness ==
  /\ \A c \in Clients : WF_vars(ClientStep(c))
  /\ \A f \in Followers : /\ WF_vars(Dial(f)) /\ WF_vars(Backfill(f))
                          /\ WF_vars(Deliver(f)) /\ WF_vars(ReceiveAck(f))

Spec == Init /\ [][Next]_vars

FairSpec == Spec /\ Fairness

---------------------------------------------------------------------------
Lsns == 0..(store.next_lsn - 1)

Frames(tags) ==
  [lsn : Lsns, tag : tags, key : Keys \cup {NoKey}, upto : Lsns, drop : SUBSET Lsns]

Records == Frames({"put", "agg", "swap", "commit"})

\* The leader and the links hold values of their types, and no position or
\* record of the leader, its queues and its clients is past the log's end.
ReplTypeOK ==
  /\ store.log \o store.buf \in Seq(Records)
  /\ store.pending \in BOOLEAN
  /\ store.snap \in [Keys -> Lsns] /\ store.dropped \subseteq Lsns
  /\ commit_index \in Lsns
  /\ \A f \in Followers :
       /\ link[f].queue \in Seq(Frames({"put", "agg", "swap", "commit", "barrier"}))
       /\ link[f].match_index \in Nat /\ link[f].ack \in Nat
       /\ link[f].committed_through \in Lsns
       /\ link[f].conn \in {"down", "dialed", "up"} /\ link[f].alive \in BOOLEAN
       /\ replica[f].last_commit_block <= replica[f].applied_upto
  /\ pc \in [Clients -> {"idle", "staged", "synced", "waiting", "quorate",
                         "committed", "swapped", "indexed", "reading"}]
  /\ \A c \in Clients : batch[c].end \in Lsns /\ batch[c].lsn \in Lsns
  /\ acked \in [Keys -> Lsns]

\* A put acknowledged by process_put, or a later one to its key, is among the
\* records that the leader's recovery keeps.
AckedOnLeader ==
  \A k \in Keys : acked[k] > 0 =>
    Index(Replay(store.log))[k] >= acked[k]

\* "a GET after an ACKed PUT always observes the new value" (DESIGN.md 6):
\* whenever the second half of a GetReq runs, it returns the put acknowledged
\* before the GET began, or a later one, whatever other clients do meanwhile.
ReadYourWrites ==
  \A c \in Clients : pc[c] = "reading" =>
    get_upto(batch[c].key, batch[c].end) >= batch[c].lsn

\* process_compact: a value is reclaimed only when every follower has a
\* durable Commit block above its put, so that a backfill never asks for it,
\* whatever is lost or restarted afterwards.
ReclaimedNotNeeded ==
  \A f \in Followers, p \in store.dropped :
    p < MaxOf(CommitBlocks(Replay(replica[f].log)))

\* send_batch and Leader::new: leader and followers never hold different
\* records under one LSN, also when the leader restarts with records that
\* only followers kept.
NoConflictingRecords ==
  \A f \in Followers :
    \A a \in ToSet(store.log), b \in ToSet(replica[f].log \o replica[f].buf) :
      a.lsn = b.lsn => a = b

\* await_quorum: a batch is committed only when a majority of the nodes, the
\* leader included, has all of its records on disk.
CommittedOnMajority ==
  \A c \in Clients : pc[c] = "committed" =>
    2 * (1 + Cardinality({f \in Followers :
               ToSet(batch[c].records) \subseteq ToSet(replica[f].log)}))
      > Cardinality(Followers) + 1

\* A put, compaction or GET is answered, Ok or not, although a link, a follower
\* or the leader fails meanwhile.
RequestsAnswered == \A c \in Clients : pc[c] # "idle" ~> pc[c] = "idle"

===========================================================================
