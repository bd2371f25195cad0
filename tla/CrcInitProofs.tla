---------------------------- MODULE CrcInitProofs --------------------------
(***************************************************************************)
(* The CRC tables for any number of threads: one builder, and no checksum  *)
(* is computed with rows that another thread may still be writing.         *)
(***************************************************************************)
EXTENDS CrcInit, TLAPS

\* TablesPublished needs the types and the lock to be inductive.
CrcInv ==
  /\ CrcInitTypeOK
  /\ OneTableBuilder
  /\ TablesPublished
  /\ TablesCompleteWhenUsed

\* The static initialisers of block.c establish the invariant.
LEMMA CrcInitEstablishes == CrcInitInit => CrcInv
  BY DEF CrcInitInit, CrcInv, CrcInitTypeOK, OneTableBuilder, TablesPublished,
         TablesCompleteWhenUsed, Rows, PCs

\* Every step of a thread through sv_crc32c_ensure_tables keeps the invariant.
LEMMA CrcStepKeeps == CrcInv /\ [CrcInitNext]_cvars => CrcInv'
<1> SUFFICES ASSUME CrcInv, [CrcInitNext]_cvars PROVE CrcInv'
  OBVIOUS
<1> USE ThreadsAssumption DEF CrcInv, CrcInitTypeOK, OneTableBuilder, TablesPublished,
        TablesCompleteWhenUsed, PCs, Goto
<1>1. ASSUME NEW t \in Threads, LoadReady(t) PROVE CrcInv'
  BY <1>1 DEF LoadReady
<1>2. ASSUME NEW t \in Threads, TestAndSet(t) PROVE CrcInv'
  BY <1>2 DEF TestAndSet
<1>3. ASSUME NEW t \in Threads, Recheck(t) PROVE CrcInv'
  BY <1>3 DEF Recheck
<1>4. ASSUME NEW t \in Threads, FillRow(t) PROVE CrcInv'
  <2>1. PICK k \in Rows : /\ pc[t] = "fill"
                          /\ tables = 0..(k - 1)
                          /\ tables' = 0..k
                          /\ visible' = [visible EXCEPT ![t] = @ \cup {k}]
                          /\ IF k = 7 THEN Goto(t, "store") ELSE UNCHANGED pc
                          /\ UNCHANGED <<ready, lock>>
    BY <1>4 DEF FillRow
  <2>2. tables' \subseteq Rows /\ tables' = tables \cup {k} /\ (k = 7 => tables' = Rows)
    BY <2>1 DEF Rows
  <2>3. visible'[t] = tables' /\ visible' \in [Threads -> SUBSET Rows]
    BY <2>1, <2>2
  <2>4. pc' \in [Threads -> PCs] /\ pc'[t] \in {"fill", "store"}
    BY <2>1
  <2>5. \A u \in Threads \ {t} : /\ pc'[u] = pc[u] /\ visible'[u] = visible[u]
                                 /\ pc[u] \notin {"recheck", "fill", "store", "unlock"}
    BY <2>1
  <2>6. CASE k = 7
    BY <2>1, <2>2, <2>3, <2>4, <2>5, <2>6
  <2>7. CASE k # 7
    BY <2>1, <2>2, <2>3, <2>4, <2>5, <2>7
  <2> QED
    BY <2>6, <2>7
<1>5. ASSUME NEW t \in Threads, StoreReady(t) PROVE CrcInv'
  BY <1>5 DEF StoreReady
<1>6. ASSUME NEW t \in Threads, ClearLock(t) PROVE CrcInv'
  BY <1>6 DEF ClearLock
<1>7. ASSUME NEW t \in Threads, UseTables(t) PROVE CrcInv'
  BY <1>7 DEF UseTables
<1>8. CASE UNCHANGED cvars
  BY <1>8 DEF cvars
<1> QED
  BY <1>1, <1>2, <1>3, <1>4, <1>5, <1>6, <1>7, <1>8 DEF CrcInitNext, ThreadStep

\* For any set of threads, a thread that computes a checksum sees all eight
\* rows, and at most one thread builds them.
THEOREM CrcTablesSafe ==
  CrcInitSpec => [](TablesCompleteWhenUsed /\ OneTableBuilder)
<1>1. CrcInv => TablesCompleteWhenUsed /\ OneTableBuilder
  BY DEF CrcInv
<1> QED
  BY CrcInitEstablishes, CrcStepKeeps, <1>1, PTL DEF CrcInitSpec

\* For any set of threads, no row is written once the flag is set.
THEOREM CrcTablesFrozen == CrcInitSpec => TablesFrozenWhenReady
<1>1. CrcInv /\ [CrcInitNext]_cvars => [ready.value = 1 => tables' = tables]_cvars
  <2> SUFFICES ASSUME CrcInv, CrcInitNext, ready.value = 1 PROVE tables' = tables
    BY DEF cvars
  <2>1. PICK t \in Threads : ThreadStep(t)
    BY DEF CrcInitNext
  <2>2. pc[t] # "fill"
    BY DEF CrcInv, TablesPublished
  <2> QED
    BY <2>1, <2>2 DEF ThreadStep, LoadReady, TestAndSet, Recheck, FillRow,
                      StoreReady, ClearLock, UseTables
<1> QED
  BY CrcInitEstablishes, CrcStepKeeps, <1>1, PTL DEF CrcInitSpec, TablesFrozenWhenReady
=============================================================================
