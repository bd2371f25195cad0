----------------------------- MODULE WalProofs -----------------------------
(***************************************************************************)
(* Proofs about the write-ahead log for every bound on LSNs, crashes and   *)
(* I/O errors, and for a leader's and a follower's log alike.              *)
(***************************************************************************)
EXTENDS Wal, WalFormatProofs

\* The fsynced prefix of the file.
Durable == SubSeq(file, 1, synced)

LEMMA TornIsBlock == Torn \in Block
BY DEF Torn, Block

\* Counting one more crash or I/O error.
LEMMA CountersType ==
  ASSUME NEW c \in [process : Nat, power : Nat, io : Nat]
  PROVE  /\ [c EXCEPT !.process = @ + 1] \in [process : Nat, power : Nat, io : Nat]
         /\ [c EXCEPT !.power = @ + 1] \in [process : Nat, power : Nat, io : Nat]
         /\ [c EXCEPT !.io = @ + 1] \in [process : Nat, power : Nat, io : Nat]
OBVIOUS

\* The recovered high-water mark is a natural number.
LEMMA HighWaterType ==
  ASSUME NEW f \in Seq(Block)
  PROVE  HighWater(f) \in Nat
<1> DEFINE s == Scan(f)
<1>1. s \in Seq(Block)
  BY ScanProperties
<1>2. Keep(s) \in 0..Len(s)
  BY <1>1, KeepExists
<1>3. HighWater(f) = LET last == IF s = <<>> THEN 0 ELSE s[Len(s)].lsn
                         upto == IF Keep(s) = 0 THEN 0 ELSE s[Keep(s)].upto
                     IN  IF upto > last THEN upto ELSE last
  BY DEF HighWater
<1> HIDE DEF s
<1>4. Len(s) \in Nat /\ \A i \in 1..Len(s) : s[i] \in Block
  BY <1>1, LenProperties, ElementOfSeq
<1>5. s # <<>> => s[Len(s)].lsn \in Nat
  <2>1. s # <<>> => Len(s) \in 1..Len(s)
    BY <1>1, <1>4, EmptySeq
  <2> QED
    BY <1>4, <2>1 DEF Block
<1>6. Keep(s) # 0 => s[Keep(s)].upto \in Nat
  <2>1. Keep(s) # 0 => Keep(s) \in 1..Len(s)
    BY <1>2, <1>4
  <2> QED
    BY <1>4, <2>1 DEF Block
<1> QED
  BY <1>3, <1>5, <1>6

\* The bodies a caller can append are blocks with the LSN given, not torn.
LEMMA BodiesProperties ==
  ASSUME NEW lsn \in Nat, NEW b \in Bodies(lsn)
  PROVE  b \in Block /\ b.lsn = lsn /\ ~IsTorn(b)
<1>1. CASE b = [lsn |-> lsn, tag |-> "data", upto |-> 0]
  BY <1>1 DEF Block, IsTorn
<1>2. CASE \E u \in 0..(lsn - 1) : b = [lsn |-> lsn, tag |-> "commit", upto |-> u]
  BY <1>2 DEF Block, IsTorn
<1> QED
  BY <1>1, <1>2 DEF Bodies

\* What a process may have written extends its file.
LEMMA WrittenProperties ==
  ASSUME TypeOK
  PROVE  /\ Written \in Seq(Block)
         /\ Len(file) \in 0..Len(Written)
         /\ \A i \in 1..Len(file) : Written[i] = file[i]
<1>1. file \in Seq(Block) /\ buf \in Seq(Block)
  BY DEF TypeOK
<1>2. Len(file) \in Nat /\ Len(buf) \in Nat
  BY <1>1, LenProperties
<1>3. /\ file \o buf \in Seq(Block)
      /\ Len(file \o buf) = Len(file) + Len(buf)
      /\ \A i \in 1..Len(file) + Len(buf) :
           (file \o buf)[i] = IF i <= Len(file) THEN file[i] ELSE buf[i - Len(file)]
  BY <1>1, ConcatProperties
<1>4. CASE mode = "syncing"
  BY <1>2, <1>3, <1>4 DEF Written
<1>5. CASE mode # "syncing"
  BY <1>1, <1>2, <1>5 DEF Written
<1> QED
  BY <1>4, <1>5

LEMMA TypeOKInit == Init => TypeOK
<1> SUFFICES ASSUME Init PROVE TypeOK
  OBVIOUS
<1>1. failed \in BOOLEAN
  BY Zenon DEF Init
<1>2. crashes \in [process : Nat, power : Nat, io : Nat] /\ acked \subseteq Block
  BY DEF Init
<1>3. file \in Seq(Block) /\ buf \in Seq(Block) /\ issued \in Seq(Nat) /\ Len(file) = 0
  BY EmptySeq DEF Init
<1>4. role \in {"leader", "follower"} /\ mode \in {"up", "syncing", "down"}
  BY DEF Init
<1>5. synced \in 0..Len(file) /\ next_lsn \in Nat
  BY <1>3 DEF Init
<1> QED
  BY <1>1, <1>2, <1>3, <1>4, <1>5 DEF TypeOK

\* Every file a step leaves behind is a sequence of blocks whose fsynced
\* prefix lies inside it.
LEMMA TypeOKStep == TypeOK /\ [Next]_vars => TypeOK'
<1> SUFFICES ASSUME TypeOK, [Next]_vars PROVE TypeOK'
  OBVIOUS
<1>0. /\ file \in Seq(Block) /\ buf \in Seq(Block) /\ issued \in Seq(Nat)
      /\ Len(file) \in Nat /\ Len(buf) \in Nat
      /\ synced \in 0..Len(file) /\ next_lsn \in Nat
  BY LenProperties DEF TypeOK
<1>1. /\ file \o buf \in Seq(Block)
      /\ Len(file \o buf) = Len(file) + Len(buf)
  BY <1>0, ConcatProperties
<1>r. role' \in {"leader", "follower"}
  BY DEF Next, vars, TypeOK
<1>2. ASSUME NEW lsn \in Nat, NEW b \in Bodies(lsn), AppendBlock(b) PROVE TypeOK'
  <2>1. b \in Block /\ b.lsn \in Nat
    BY BodiesProperties
  <2>2. buf' \in Seq(Block)
    BY <1>0, <1>2, <2>1, AppendProperties DEF AppendBlock
  <2>3. next_lsn' \in Nat
    BY <1>0, <1>2, <2>1 DEF AppendBlock
  <2> QED
    BY <1>2, <2>2, <2>3, <1>r DEF AppendBlock, TypeOK
<1>3. CASE AppendNext
  BY <1>0, <1>2, <1>3 DEF AppendNext
<1>4. CASE \E lsn \in ExplicitLsns : AppendExplicit(lsn)
  BY <1>2, <1>4, ExplicitLsnsAssumption DEF AppendExplicit
<1>5. CASE SyncBegin
  BY <1>5, <1>r DEF SyncBegin, TypeOK
<1>6. CASE SyncEnd
  <2>1. file' \in Seq(Block) /\ synced' \in 0..Len(file')
    BY <1>0, <1>1, <1>6 DEF SyncEnd
  <2>2. buf' \in Seq(Block)
    BY <1>6, EmptySeq DEF SyncEnd
  <2>3. acked' \subseteq Block
    <3>1. \A i \in 1..Len(buf) : buf[i] \in Block
      BY <1>0, ElementOfSeq
    <3>2. acked \subseteq Block
      BY DEF TypeOK
    <3> QED
      BY <1>6, <3>1, <3>2 DEF SyncEnd, AckedBy
  <2>4. issued' \in Seq(Nat)
    <3>0. \A i \in 1..Len(buf) : buf[i] \in Block
      BY <1>0, ElementOfSeq
    <3>1. \A i \in 1..Len(buf) : buf[i].lsn \in Nat
      BY <3>0 DEF Block
    <3>2. IssuedIn(buf) \in Seq(Nat)
      BY <1>0, <3>1, EmptySeq DEF IssuedIn
    <3> QED
      BY <1>0, <1>6, <3>2, ConcatProperties DEF SyncEnd
  <2> QED
    BY <1>6, <2>1, <2>2, <2>3, <2>4, <1>r DEF SyncEnd, TypeOK
<1>7. CASE SyncError
  <2>1. Len(file) \in 0..Len(file \o buf)
    BY <1>0, <1>1
  <2>2. file' \in Seq(Block) /\ Len(file) <= Len(file')
    BY <1>1, <1>7, <2>1, TornIsBlock, CutShortProperties DEF SyncError
  <2>3. synced' \in 0..Len(file')
    BY <1>0, <1>7, <2>2, LenProperties DEF SyncError
  <2>4. crashes' \in [process : Nat, power : Nat, io : Nat]
    BY <1>7, CountersType DEF SyncError, TypeOK
  <2> QED
    BY <1>7, <2>2, <2>3, <2>4, <1>r DEF SyncError, TypeOK
<1>8. CASE ProcessCrash
  <2>1. file' \in Seq(Block) /\ Len(file) <= Len(file')
    BY <1>8, TornIsBlock, WrittenProperties, CutShortProperties DEF ProcessCrash
  <2>2. synced' \in 0..Len(file')
    BY <1>0, <1>8, <2>1, LenProperties DEF ProcessCrash
  <2>3. crashes' \in [process : Nat, power : Nat, io : Nat]
    BY <1>8, CountersType DEF ProcessCrash, TypeOK
  <2> QED
    BY <1>8, <2>1, <2>2, <2>3, EmptySeq, <1>r DEF ProcessCrash, Stop, TypeOK
<1>9. CASE PowerLoss
  <2>1. synced \in 0..Len(Written)
    BY <1>0, WrittenProperties, LenProperties
  <2>2. file' \in Seq(Block)
    BY <1>9, <2>1, TornIsBlock, WrittenProperties, CutShortProperties DEF PowerLoss
  <2>3. synced' \in 0..Len(file')
    BY <1>9, <2>2, LenProperties DEF PowerLoss
  <2>4. crashes' \in [process : Nat, power : Nat, io : Nat]
    BY <1>9, CountersType DEF PowerLoss, TypeOK
  <2> QED
    BY <1>9, <2>2, <2>3, <2>4, EmptySeq, <1>r DEF PowerLoss, Stop, TypeOK
<1>10. CASE Open
  <2>1. Replay(file) \in Seq(Block) /\ Len(Replay(file)) \in Nat
    BY <1>0, ReplayProperties, LenProperties
  <2>2. next_lsn' \in Nat
    BY <1>0, <1>10, HighWaterType DEF Open
  <2>3. synced' \in 0..Len(file')
    BY <1>0, <1>10, <2>1 DEF Open
  <2> QED
    BY <1>10, <2>1, <2>2, <2>3, <1>r DEF Open, TypeOK
<1>11. CASE UNCHANGED vars
  BY <1>11 DEF vars, TypeOK
<1> QED
  BY <1>3, <1>4, <1>5, <1>6, <1>7, <1>8, <1>9, <1>10, <1>11 DEF Next

\* Every operation, crash and recovery keeps the log well formed, and what
\* counts as fsynced never exceeds what the file holds (wal.rs, struct Wal).
THEOREM TypeCorrect == Spec => []TypeOK
BY TypeOKInit, TypeOKStep, PTL DEF Spec
-----------------------------------------------------------------------------
\* A step that leaves the fsynced prefix in place, and perhaps adds to it,
\* only extends the durable log.
LEMMA DurableLogGrows ==
  ASSUME TypeOK, TypeOK', synced <= synced',
         \A i \in 1..synced : file'[i] = file[i]
  PROVE  Extends(DurableLog', DurableLog)
<1>0. /\ file \in Seq(Block) /\ synced \in 0..Len(file)
      /\ file' \in Seq(Block) /\ synced' \in 0..Len(file')
      /\ Len(file) \in Nat /\ Len(file') \in Nat
  BY LenProperties DEF TypeOK
<1>1. /\ Durable \in Seq(Block)
      /\ Len(Durable) = synced
      /\ \A i \in 1..synced : Durable[i] = file[i]
  BY <1>0, PrefixProperties DEF Durable
<1>2. /\ Durable' \in Seq(Block)
      /\ Len(Durable') = synced'
      /\ \A i \in 1..synced' : Durable'[i] = file'[i]
  BY <1>0, PrefixProperties DEF Durable
<1>3. Extends(Durable', Durable)
  BY <1>0, <1>1, <1>2 DEF Extends
<1>4. Extends(Replay(Durable'), Replay(Durable))
  BY <1>1, <1>2, <1>3, ReplayMonotone
<1> QED
  BY <1>4 DEF DurableLog, Durable

\* Wal::open truncates the file, but only behind the durable log: what the
\* replay of the fsynced prefix keeps, the replay of the whole file keeps.
LEMMA OpenKeepsDurableLog ==
  ASSUME TypeOK, TypeOK', Open
  PROVE  Extends(DurableLog', DurableLog)
<1> DEFINE n == Len(Replay(file))
           m == Len(DurableLog)
<1>0. /\ file \in Seq(Block) /\ synced \in 0..Len(file) /\ Len(file) \in Nat
      /\ file' \in Seq(Block) /\ synced' \in 0..Len(file') /\ Len(file') \in Nat
  BY LenProperties DEF TypeOK
<1>1. /\ Durable \in Seq(Block)
      /\ Len(Durable) = synced
      /\ \A i \in 1..synced : Durable[i] = file[i]
  BY <1>0, PrefixProperties DEF Durable
<1>2. /\ Durable' \in Seq(Block)
      /\ Len(Durable') = synced'
      /\ \A i \in 1..synced' : Durable'[i] = file'[i]
  BY <1>0, PrefixProperties DEF Durable
<1>3. DurableLog = Replay(Durable) /\ DurableLog' = Replay(Durable')
  BY DEF DurableLog, Durable
<1>4. /\ DurableLog \in Seq(Block)
      /\ m \in 0..synced
      /\ Extends(Durable, DurableLog)
      /\ Len(Replay(DurableLog)) = m
      /\ Extends(DurableLog, Replay(DurableLog))
  BY <1>1, <1>3, ReplayProperties, ReplayIdempotent
<1>5. /\ Extends(file, Replay(file))
      /\ n \in 0..Len(file)
  BY <1>0, ReplayProperties
<1>6. m <= n
  <2>1. Extends(file, Durable)
    BY <1>0, <1>1 DEF Extends
  <2> QED
    BY <1>0, <1>1, <1>3, <2>1, ReplayMonotone DEF Extends
<1>7. file' = Replay(file) /\ synced' = IF synced < n THEN synced ELSE n
  BY DEF Open
<1>8. Extends(Durable', DurableLog)
  <2>1. m <= synced' /\ synced' <= n /\ synced' <= synced
    BY <1>0, <1>4, <1>5, <1>6, <1>7
  <2>2. ASSUME NEW i \in 1..m PROVE Durable'[i] = DurableLog[i]
    <3>1. i \in 1..synced' /\ i \in 1..n /\ i \in 1..synced
      BY <1>0, <1>4, <1>5, <2>1
    <3>2. Durable'[i] = file[i]
      BY <1>2, <1>5, <1>7, <3>1 DEF Extends
    <3>3. DurableLog[i] = file[i]
      BY <1>1, <1>4, <3>1 DEF Extends
    <3> QED
      BY <3>2, <3>3
  <2> QED
    BY <1>2, <2>1, <2>2 DEF Extends
<1>9. Extends(Replay(Durable'), Replay(DurableLog))
  BY <1>2, <1>4, <1>8, ReplayMonotone
<1> QED
  <2>1. Len(DurableLog) = Len(Replay(DurableLog))
    BY <1>4
  <2>2. \A i \in 1..m : Replay(DurableLog)[i] = DurableLog[i]
    BY <1>4 DEF Extends
  <2> QED
    BY <1>3, <1>9, <2>1, <2>2 DEF Extends

\* No step of any kind removes or replaces a record of the durable log.
LEMMA DurableLogStep ==
  ASSUME TypeOK, TypeOK', [Next]_vars
  PROVE  Extends(DurableLog', DurableLog)
<1>0. /\ file \in Seq(Block) /\ buf \in Seq(Block)
      /\ Len(file) \in Nat /\ Len(buf) \in Nat
      /\ synced \in 0..Len(file)
  BY LenProperties DEF TypeOK
<1>1. /\ file \o buf \in Seq(Block)
      /\ Len(file \o buf) = Len(file) + Len(buf)
      /\ \A i \in 1..Len(file) : (file \o buf)[i] = file[i]
  BY <1>0, ConcatProperties
<1>2. CASE UNCHANGED <<file, synced>>
  BY <1>0, <1>2, DurableLogGrows
<1>3. CASE SyncEnd
  BY <1>0, <1>1, <1>3, DurableLogGrows DEF SyncEnd
<1>4. CASE SyncError
  <2>1. Len(file) \in 0..Len(file \o buf)
    BY <1>0, <1>1
  <2>2. \A i \in 1..Len(file) : file'[i] = (file \o buf)[i]
    <3> DEFINE w == file \o buf
    <3>1. w \in Seq(Block) /\ Len(file) \in 0..Len(w) /\ file' \in CutShort(w, Len(file))
      BY <1>1, <1>4, <2>1 DEF SyncError
    <3> HIDE DEF w
    <3>2. \A i \in 1..Len(file) : file'[i] = w[i]
      BY <3>1, TornIsBlock, CutShortProperties
    <3> QED
      BY <3>2 DEF w
  <2> QED
    BY <1>0, <1>1, <1>4, <2>2, DurableLogGrows DEF SyncError
<1>5. CASE ProcessCrash
  <2>1. \A i \in 1..Len(file) : file'[i] = Written[i]
    BY <1>5, TornIsBlock, WrittenProperties, CutShortProperties DEF ProcessCrash
  <2> QED
    BY <1>0, <1>5, <2>1, WrittenProperties, DurableLogGrows DEF ProcessCrash
<1>6. CASE PowerLoss
  <2>1. synced \in 0..Len(Written)
    BY <1>0, WrittenProperties, LenProperties
  <2>2. synced <= Len(file') /\ \A i \in 1..synced : file'[i] = Written[i]
    BY <1>6, <2>1, TornIsBlock, WrittenProperties, CutShortProperties DEF PowerLoss
  <2> QED
    BY <1>0, <1>6, <2>2, WrittenProperties, DurableLogGrows DEF PowerLoss
<1>7. CASE Open
  BY <1>7, OpenKeepsDurableLog
<1> QED
  BY <1>2, <1>3, <1>4, <1>5, <1>6, <1>7
     DEF Next, AppendNext, AppendExplicit, AppendBlock, SyncBegin, vars

\* The durable committed log is append-only through every sync, failed sync,
\* crash and recovery, whatever their number (wal.rs sync, scan, open).
THEOREM DurableLogIsAppendOnly == Spec => DurableLogAppendOnly
<1>1. ASSUME TypeOK, TypeOK', [Next]_vars
      PROVE  [/\ Len(DurableLog) <= Len(DurableLog')
              /\ \A i \in 1..Len(DurableLog) : DurableLog'[i] = DurableLog[i]]_vars
  BY <1>1, DurableLogStep DEF Extends
<1> QED
  BY <1>1, TypeCorrect, PTL DEF Spec, DurableLogAppendOnly
-----------------------------------------------------------------------------
\* Until a sync fails no torn block is ever behind the append position of a
\* running log: Wal::open cuts off what a crash or a failed sync left there.
NoTornBlocks ==
  /\ mode # "down" /\ ~failed => \A i \in 1..Len(file) : ~IsTorn(file[i])
  /\ \A i \in 1..Len(buf) : ~IsTorn(buf[i])

LEMMA NoTornBlocksStep ==
  ASSUME TypeOK, NoTornBlocks, [Next]_vars
  PROVE  NoTornBlocks'
<1>0. /\ file \in Seq(Block) /\ buf \in Seq(Block)
      /\ Len(file) \in Nat /\ Len(buf) \in Nat /\ next_lsn \in Nat
  BY LenProperties DEF TypeOK
<1>1. ASSUME NEW lsn \in Nat, NEW b \in Bodies(lsn), AppendBlock(b) PROVE NoTornBlocks'
  <2>1. b \in Block /\ ~IsTorn(b)
    BY BodiesProperties
  <2>2. /\ Len(buf') = Len(buf) + 1
        /\ \A i \in 1..Len(buf) : buf'[i] = buf[i]
        /\ buf'[Len(buf) + 1] = b
    BY <1>0, <1>1, <2>1, AppendProperties DEF AppendBlock
  <2>3. \A i \in 1..Len(buf') : ~IsTorn(buf'[i])
    BY <1>0, <2>1, <2>2 DEF NoTornBlocks
  <2> QED
    BY <1>1, <2>3 DEF AppendBlock, NoTornBlocks
<1>2. CASE AppendNext
  BY <1>0, <1>1, <1>2 DEF AppendNext
<1>3. CASE \E lsn \in ExplicitLsns : AppendExplicit(lsn)
  BY <1>1, <1>3, ExplicitLsnsAssumption DEF AppendExplicit
<1>4. CASE SyncBegin
  BY <1>4 DEF SyncBegin, NoTornBlocks
<1>5. CASE SyncEnd
  <2>1. /\ Len(file') = Len(file) + Len(buf)
        /\ \A i \in 1..Len(file) + Len(buf) :
             file'[i] = IF i <= Len(file) THEN file[i] ELSE buf[i - Len(file)]
    BY <1>0, <1>5, ConcatProperties DEF SyncEnd
  <2>2. ASSUME ~failed' PROVE \A i \in 1..Len(file') : ~IsTorn(file'[i])
    <3>1. \A i \in 1..Len(file) : ~IsTorn(file[i])
      BY <1>5, <2>2 DEF SyncEnd, NoTornBlocks
    <3>2. \A i \in 1..Len(buf) : ~IsTorn(buf[i])
      BY DEF NoTornBlocks
    <3>3. ASSUME NEW i \in 1..Len(file') PROVE ~IsTorn(file'[i])
      <4>1. CASE i <= Len(file)
        BY <1>0, <2>1, <3>1, <4>1
      <4>2. CASE i > Len(file)
        <5>1. i - Len(file) \in 1..Len(buf) /\ file'[i] = buf[i - Len(file)]
          BY <1>0, <2>1, <4>2
        <5> QED
          BY <3>2, <5>1
      <4> QED
        BY <1>0, <2>1, <4>1, <4>2
    <3> QED
      BY <3>3
  <2>3. Len(buf') = 0
    BY <1>5, EmptySeq DEF SyncEnd
  <2> QED
    BY <2>2, <2>3 DEF NoTornBlocks
<1>6. CASE ProcessCrash \/ PowerLoss
  <2>1. mode' = "down" /\ Len(buf') = 0
    BY <1>6, EmptySeq DEF ProcessCrash, PowerLoss, Stop
  <2> QED
    BY <2>1 DEF NoTornBlocks
<1>7. CASE Open
  <2>1. /\ Len(Replay(file)) \in 0..Len(file)
        /\ Extends(file, Replay(file))
        /\ Len(Replay(file)) > 0 => Reached(file, Len(Replay(file)))
    BY <1>0, ReplayProperties
  <2>2. \A i \in 1..Len(Replay(file)) : ~IsTorn(Replay(file)[i])
    BY <1>0, <2>1 DEF Extends, Reached
  <2> QED
    BY <1>7, <2>2 DEF Open, NoTornBlocks
<1>9. CASE SyncError
  BY <1>9 DEF SyncError, NoTornBlocks
<1>8. CASE UNCHANGED vars
  BY <1>8 DEF vars, NoTornBlocks
<1> QED
  BY <1>2, <1>3, <1>4, <1>5, <1>6, <1>7, <1>8, <1>9 DEF Next

\* The Commit blocks that a sync has just written are in the durable log.
LEMMA SyncEndDurable ==
  ASSUME TypeOK, TypeOK', NoTornBlocks, NoTornBlocks', SyncEnd, ~failed,
         NEW j \in 1..Len(buf), IsCommit(buf[j])
  PROVE  \E i \in 1..Len(DurableLog') : DurableLog'[i] = buf[j]
<1>0. /\ file \in Seq(Block) /\ buf \in Seq(Block) /\ file' \in Seq(Block)
      /\ Len(file) \in Nat /\ Len(buf) \in Nat
  BY LenProperties DEF TypeOK
<1>1. /\ Len(file') = Len(file) + Len(buf)
      /\ file'[Len(file) + j] = buf[j]
  BY <1>0, ConcatProperties DEF SyncEnd
<1>2. DurableLog' = Replay(file')
  BY <1>0, <1>1, SubSeqFull DEF SyncEnd, DurableLog
<1>3. Reached(file', Len(file) + j)
  <2>1. \A i \in 1..Len(file') : ~IsTorn(file'[i])
    BY DEF SyncEnd, NoTornBlocks
  <2> QED
    BY <1>0, <1>1, <2>1 DEF Reached
<1>4. /\ Len(file) + j <= Len(Replay(file'))
      /\ Extends(file', Replay(file'))
      /\ Len(Replay(file')) \in 0..Len(file')
  BY <1>0, <1>3, ReplayProperties
<1>5. Len(file) + j \in 1..Len(Replay(file'))
  BY <1>0, <1>1, <1>4
<1>6. Replay(file')[Len(file) + j] = buf[j]
  BY <1>1, <1>4, <1>5 DEF Extends
<1> QED
  BY <1>2, <1>5, <1>6

LEMMA AckedDurableStep ==
  ASSUME TypeOK, TypeOK', NoTornBlocks, NoTornBlocks',
         AckedDurable, [Next]_vars
  PROVE  AckedDurable'
<1>1. Extends(DurableLog', DurableLog)
  BY DurableLogStep
<1>2. DurableLog \in Seq(Block) /\ Len(DurableLog) \in Nat
  <2>1. file \in Seq(Block) /\ synced \in 0..Len(file)
    BY DEF TypeOK
  <2>2. Durable \in Seq(Block)
    BY <2>1, PrefixProperties DEF Durable
  <2> QED
    BY <2>2, ReplayProperties, LenProperties DEF DurableLog, Durable
<1>3. DurableLog' \in Seq(Block) /\ Len(DurableLog') \in Nat
  <2>1. file' \in Seq(Block) /\ synced' \in 0..Len(file')
    BY DEF TypeOK
  <2>2. Durable' \in Seq(Block)
    BY <2>1, PrefixProperties DEF Durable
  <2> QED
    BY <2>2, ReplayProperties, LenProperties DEF DurableLog, Durable
<1>4. ASSUME NEW c \in acked
      PROVE  \E i \in 1..Len(DurableLog') : DurableLog'[i] = c
  <2>1. PICK i \in 1..Len(DurableLog) : DurableLog[i] = c
    BY DEF AckedDurable
  <2> QED
    BY <1>1, <1>2, <1>3, <2>1 DEF Extends
<1>5. CASE acked' = acked
  BY <1>4, <1>5 DEF AckedDurable
<1>6. CASE SyncEnd
  <2>1. ASSUME NEW c \in acked'
        PROVE  \/ c \in acked
               \/ ~failed /\ \E j \in 1..Len(buf) : IsCommit(buf[j]) /\ c = buf[j]
    BY <1>6 DEF SyncEnd, AckedBy
  <2> QED
    BY <1>4, <1>6, <2>1, SyncEndDurable DEF AckedDurable
<1> QED
  BY <1>5, <1>6
     DEF Next, AppendNext, AppendExplicit, AppendBlock, SyncBegin, SyncError, ProcessCrash,
         PowerLoss, Stop, Open, vars

\* ACK implies durable (DESIGN.md 4): a Commit that Wal::sync has reported
\* durable, no sync having failed since Wal::open, is found by every later
\* recovery, after any number of process crashes, power losses and failed syncs.
THEOREM AckImpliesDurable == Spec => []AckedDurable
<1>1. Init => TypeOK /\ NoTornBlocks /\ AckedDurable
  BY TypeOKInit, EmptySeq DEF Init, NoTornBlocks, AckedDurable
<1>2. TypeOK /\ NoTornBlocks /\ AckedDurable /\ [Next]_vars
        => (TypeOK /\ NoTornBlocks /\ AckedDurable)'
  BY TypeOKStep, NoTornBlocksStep, AckedDurableStep
<1> QED
  BY <1>1, <1>2, PTL DEF Spec
-----------------------------------------------------------------------------
\* LSNs strictly increase along a sequence of blocks, torn ones aside.
Ascending(log) ==
  \A i, j \in 1..Len(log) : i < j /\ ~IsTorn(log[j]) => log[i].lsn < log[j].lsn

\* LogOrdered with what Wal::open needs: a stopped log has nothing buffered.
Ordered ==
  /\ Ascending(file \o buf)
  /\ mode # "down" =>
       \A i \in 1..Len(file \o buf) : (file \o buf)[i].lsn < next_lsn
  /\ mode = "down" => buf = <<>>

OrderInv == role = "leader" /\ crashes.io = 0 => Ordered

\* Wal::open continues above every block that a scan reaches.
LEMMA HighWaterAbove ==
  ASSUME NEW f \in Seq(Block), Ascending(f), NEW i \in 1..Len(Replay(f))
  PROVE  Replay(f)[i].lsn < HighWater(f) + 1
<1> DEFINE s == Scan(f)
           n == Len(s)
           last == IF s = <<>> THEN 0 ELSE s[n].lsn
           upto == IF Keep(s) = 0 THEN 0 ELSE s[Keep(s)].upto
<1>1. /\ s \in Seq(Block)
      /\ n \in 0..Len(f)
      /\ IsScanLen(f, n)
      /\ \A k \in 1..n : s[k] = f[k]
  BY ScanProperties
<1>2. Keep(s) \in 0..n
  BY <1>1, KeepExists
<1>3. Len(f) \in Nat /\ n \in Nat /\ HighWater(f) \in Nat
  BY <1>1, LenProperties, HighWaterType
<1>4. i \in 1..n /\ Replay(f)[i] = s[i]
  <2>1. Len(Replay(f)) = Keep(s) /\ \A k \in 1..Keep(s) : Replay(f)[k] = s[k]
    BY <1>1, <1>2, PrefixProperties DEF Replay
  <2> QED
    BY <1>2, <1>3, <2>1
<1>5. n \in 1..n /\ s # <<>>
  BY <1>3, <1>4, EmptySeq
<1>6. s[i] \in Block /\ s[n] \in Block
  BY <1>1, <1>4, <1>5, ElementOfSeq
<1>7. s[i].lsn <= s[n].lsn
  <2>1. s[i].lsn \in Nat /\ s[n].lsn \in Nat
    BY <1>6 DEF Block
  <2>2. CASE i = n
    BY <2>1, <2>2
  <2>3. CASE i < n
    <3>1. i \in 1..Len(f) /\ n \in 1..Len(f) /\ ~IsTorn(f[n])
      BY <1>1, <1>3, <1>4, <1>5 DEF IsScanLen
    <3>2. f[i].lsn < f[n].lsn
      BY <2>3, <3>1 DEF Ascending
    <3> QED
      BY <1>1, <1>4, <1>5, <2>1, <3>2
  <2> QED
    BY <1>3, <1>4, <2>2, <2>3
<1>8. s[n].lsn <= HighWater(f)
  <2>1. HighWater(f) = IF upto > last THEN upto ELSE last
    BY DEF HighWater
  <2>2. last = s[n].lsn /\ last \in Nat
    BY <1>5, <1>6 DEF Block
  <2>3. upto \in Nat
    <3>1. Keep(s) # 0 => Keep(s) \in 1..n
      BY <1>2, <1>3
    <3>2. Keep(s) # 0 => s[Keep(s)] \in Block
      BY <1>1, <3>1, ElementOfSeq
    <3> QED
      BY <3>2 DEF Block
  <2> HIDE DEF upto, last
  <2> QED
    BY <2>1, <2>2, <2>3
<1> QED
  <2>1. s[i].lsn \in Nat /\ s[n].lsn \in Nat
    BY <1>6 DEF Block
  <2> QED
    BY <1>3, <1>4, <1>7, <1>8, <2>1

\* What a crash leaves of an ascending log is ascending.
LEMMA CutShortAscending ==
  ASSUME NEW s \in Seq(Block), Ascending(s), NEW lo \in 0..Len(s),
         NEW f \in CutShort(s, lo)
  PROVE  Ascending(f)
<1>1. /\ f \in Seq(Block)
      /\ \A i \in 1..Len(f) : \/ i <= Len(s) /\ f[i] = s[i]
                              \/ i = Len(f) /\ f[i] = Torn
  BY TornIsBlock, CutShortProperties
<1>2. Len(f) \in Nat /\ Len(s) \in Nat
  BY <1>1, LenProperties
<1>3. ASSUME NEW i \in 1..Len(f), NEW j \in 1..Len(f), i < j, ~IsTorn(f[j])
      PROVE  f[i].lsn < f[j].lsn
  <2>1. f[j] # Torn
    BY <1>3 DEF IsTorn, Torn
  <2>2. j <= Len(s) /\ f[j] = s[j] /\ i <= Len(s) /\ f[i] = s[i]
    BY <1>1, <1>2, <1>3, <2>1
  <2>3. i \in 1..Len(s) /\ j \in 1..Len(s) /\ ~IsTorn(s[j])
    BY <1>2, <1>3, <2>2
  <2> QED
    BY <1>3, <2>2, <2>3 DEF Ascending
<1> QED
  BY <1>3 DEF Ascending

LEMMA OrderInvStep ==
  ASSUME TypeOK, TypeOK', OrderInv, [Next]_vars
  PROVE  OrderInv'
<1> SUFFICES ASSUME role' = "leader", crashes'.io = 0 PROVE Ordered'
  BY DEF OrderInv
<1>s. ~SyncError /\ crashes.io = 0
  <2>1. crashes.io \in Nat /\ crashes \in [process : Nat, power : Nat, io : Nat]
    BY DEF TypeOK
  <2>2. ~SyncError
    BY <2>1 DEF SyncError
  <2>3. crashes'.io = crashes.io
    BY <2>1, <2>2 DEF Next, AppendNext, AppendExplicit, AppendBlock, SyncBegin,
                      SyncEnd, ProcessCrash, PowerLoss, Open, vars
  <2> QED
    BY <2>2, <2>3
<1>l. role = "leader" /\ Ordered
  BY <1>s DEF OrderInv, Next, vars
<1> DEFINE log == file \o buf
<1>0. /\ file \in Seq(Block) /\ buf \in Seq(Block) /\ file' \in Seq(Block)
      /\ Len(file) \in Nat /\ Len(buf) \in Nat /\ next_lsn \in Nat
  BY LenProperties DEF TypeOK
<1>1. /\ log \in Seq(Block)
      /\ Len(log) = Len(file) + Len(buf)
      /\ \A i \in 1..Len(file) + Len(buf) :
           log[i] = IF i <= Len(file) THEN file[i] ELSE buf[i - Len(file)]
  BY <1>0, ConcatProperties
<1>2. /\ Ascending(log)
      /\ mode # "down" => \A i \in 1..Len(log) : log[i].lsn < next_lsn
  BY <1>l DEF Ordered
<1>4. CASE AppendNext
  <2>1. PICK b \in Bodies(next_lsn) : AppendBlock(b)
    BY <1>4 DEF AppendNext
  <2>2. b \in Block /\ b.lsn = next_lsn
    BY <1>0, BodiesProperties
  <2>3. /\ mode = "up" /\ mode' = "up" /\ file' = file /\ buf' = Append(buf, b)
        /\ next_lsn' = next_lsn + 1
    BY <1>0, <2>1, <2>2 DEF AppendBlock
  <2>4. log' = Append(log, b)
    BY <1>0, <2>2, <2>3, AppendIsConcat, ConcatProperties
  <2> HIDE DEF log
  <2>5. /\ Len(log') = Len(log) + 1
        /\ \A i \in 1..Len(log) : log'[i] = log[i]
        /\ log'[Len(log) + 1] = b
    BY <1>1, <2>2, <2>4, AppendProperties
  <2>6. Len(log) \in Nat /\ \A i \in 1..Len(log) : log[i].lsn \in Nat
    <3>1. Len(log) \in Nat /\ \A i \in 1..Len(log) : log[i] \in Block
      BY <1>1, LenProperties, ElementOfSeq
    <3> QED
      BY <3>1 DEF Block
  <2>7. \A i \in 1..Len(log) : log[i].lsn < next_lsn
    BY <1>2, <2>3
  <2>8. Ascending(log')
    BY <1>2, <2>2, <2>5, <2>6, <2>7 DEF Ascending
  <2>9. \A i \in 1..Len(log') : log'[i].lsn < next_lsn'
    BY <1>0, <2>2, <2>3, <2>5, <2>6, <2>7
  <2> QED
    BY <2>3, <2>8, <2>9 DEF Ordered, log
<1>5. CASE SyncBegin \/ SyncEnd
  <2>1. mode # "down" /\ mode' # "down" /\ next_lsn' = next_lsn
    BY <1>5 DEF SyncBegin, SyncEnd
  <2>2. log' = log
    BY <1>0, <1>1, <1>5, ConcatEmptySeq DEF SyncBegin, SyncEnd
  <2> QED
    BY <1>2, <2>1, <2>2 DEF Ordered
<1>6. CASE ProcessCrash \/ PowerLoss
  <2>1. mode' = "down" /\ buf' = <<>>
    BY <1>6 DEF ProcessCrash, PowerLoss, Stop
  <2>2. log' = file'
    BY <1>0, <2>1, ConcatEmptySeq
  <2>3. Ascending(Written)
    <3>1. CASE mode = "syncing"
      BY <1>2, <3>1 DEF Written
    <3>2. CASE mode # "syncing"
      <4>1. \A i \in 1..Len(file) : i \in 1..Len(log) /\ log[i] = file[i]
        BY <1>0, <1>1
      <4>2. Ascending(file)
        <5> HIDE DEF log
        <5> QED
          BY <1>2, <4>1 DEF Ascending
      <4> QED
        BY <3>2, <4>2 DEF Written
    <3> QED
      BY <3>1, <3>2
  <2>4. Written \in Seq(Block) /\ Len(file) \in 0..Len(Written) /\ synced \in 0..Len(Written)
    BY WrittenProperties, LenProperties DEF TypeOK
  <2>5. Ascending(file')
    BY <1>6, <2>3, <2>4, CutShortAscending DEF ProcessCrash, PowerLoss
  <2> QED
    BY <2>1, <2>2, <2>5 DEF Ordered
<1>7. CASE Open
  <2>1. buf = <<>> /\ buf' = <<>> /\ mode' = "up"
    BY <1>7, <1>l DEF Open, Ordered
  <2>2. log = file /\ log' = file'
    BY <1>0, <2>1, ConcatEmptySeq
  <2>3. Ascending(file)
    BY <1>2, <2>2
  <2>4. /\ Len(Replay(file)) \in 0..Len(file)
        /\ \A i \in 1..Len(Replay(file)) : file[i] = Replay(file)[i]
    BY <1>0, ReplayProperties DEF Extends
  <2>5. Ascending(file')
    BY <1>0, <1>7, <2>3, <2>4 DEF Open, Ascending
  <2>6. \A i \in 1..Len(file') : file'[i].lsn < next_lsn'
    BY <1>0, <1>7, <2>3, HighWaterAbove DEF Open
  <2> QED
    BY <2>1, <2>2, <2>5, <2>6 DEF Ordered
<1>8. CASE UNCHANGED vars
  BY <1>l, <1>8 DEF vars, Ordered
<1> QED
  BY <1>4, <1>5, <1>6, <1>7, <1>8, <1>s, <1>l DEF Next, AppendExplicit

\* On a leader whose syncs have not failed, LSNs increase strictly along the
\* log and Wal::append continues above them all, after any number of crashes and
\* recoveries (wal.rs append, open and the high-water mark of scan).
THEOREM LeaderLogOrdered == Spec => []LogOrdered
<1>1. Init => TypeOK /\ OrderInv
  <2>1. ASSUME Init PROVE Len(file \o buf) = 0
    BY <2>1, EmptySeq, ConcatEmptySeq DEF Init
  <2> QED
    BY <2>1, TypeOKInit, EmptySeq DEF Init, OrderInv, Ordered, Ascending
<1>2. TypeOK /\ OrderInv /\ [Next]_vars => (TypeOK /\ OrderInv)'
  BY TypeOKStep, OrderInvStep
<1>3. OrderInv => LogOrdered
  BY DEF OrderInv, Ordered, LogOrdered, Ascending
<1> QED
  BY <1>1, <1>2, <1>3, PTL DEF Spec
=============================================================================
