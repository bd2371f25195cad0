------------------------------ MODULE CrcInit ------------------------------
(***************************************************************************)
(* sv_crc32c_ensure_tables of csrc/block.c: threads that need the CRC      *)
(* tables build them once, under a spin lock, and publish them through an  *)
(* atomic flag.                                                            *)
(*                                                                         *)
(* The C11 memory order is modelled by what each thread is sure to see:    *)
(* visible[t] is the set of rows whose writes happen before t's next step. *)
(* A release store passes the storing thread's set on, an acquire load     *)
(* takes it over, a relaxed load does not.  Reading a row that is not      *)
(* visible is a data race.                                                 *)
(***************************************************************************)
EXTENDS Integers

CONSTANTS Threads, NoThread

ASSUME ThreadsAssumption == NoThread \notin Threads

VARIABLES
  ready,     \* [value, rows]: sv_crc_tables_ready and what its store released
  lock,      \* [holder, rows]: sv_crc_tables_lock and what its clear released
  tables,    \* the rows of sv_crc_tables that hold their final values
  visible,   \* per thread, the rows whose writes it is sure to see
  pc

cvars == <<ready, lock, tables, visible, pc>>

Rows == 0..7
PCs == {"start", "spin", "recheck", "fill", "store", "unlock", "use"}

CrcInitInit ==
  /\ ready = [value |-> 0, rows |-> {}]
  /\ lock = [holder |-> NoThread, rows |-> {}]
  /\ tables = {}
  /\ visible = [t \in Threads |-> {}]
  /\ pc = [t \in Threads |-> "start"]

Goto(t, l) == pc' = [pc EXCEPT ![t] = l]

\* Seeded fault: the first load is relaxed.
LoadReady_Relaxed(t) ==
  /\ pc[t] = "start"
  /\ IF ready.value = 1 THEN Goto(t, "use") ELSE Goto(t, "spin")
  /\ UNCHANGED <<ready, lock, tables, visible>>

\* The fast path: an acquire load of the flag.  A thread that nothing has
\* told of the store yet may still read the old 0.
LoadReady(t) ==
  /\ pc[t] = "start"
  /\ \/ /\ ready.value = 1
        /\ visible' = [visible EXCEPT ![t] = @ \cup ready.rows]
        /\ Goto(t, "use")
     \/ /\ ready.value = 1 => visible[t] = {}
        /\ Goto(t, "spin")
        /\ UNCHANGED visible
  /\ UNCHANGED <<ready, lock, tables>>

\* The test_and_set that finds the flag clear; one that does not changes
\* nothing and is tried again.
TestAndSet(t) ==
  /\ pc[t] = "spin"
  /\ lock.holder = NoThread
  /\ lock' = [lock EXCEPT !.holder = t]
  /\ visible' = [visible EXCEPT ![t] = @ \cup lock.rows]
  /\ Goto(t, "recheck")
  /\ UNCHANGED <<ready, tables>>

\* Seeded fault: the flag is not looked at again under the lock.
Recheck_Skipped(t) ==
  /\ pc[t] = "recheck"
  /\ Goto(t, "fill")
  /\ tables' = {}
  /\ UNCHANGED <<ready, lock, visible>>

\* The second load, relaxed: stores of the flag are made under the lock, so
\* the holder reads the last one.
Recheck(t) ==
  /\ pc[t] = "recheck"
  /\ Goto(t, IF ready.value = 1 THEN "unlock" ELSE "fill")
  /\ UNCHANGED <<ready, lock, tables, visible>>

\* One row, which reads row 0 and the row before it.
FillRow(t) ==
  \E k \in Rows :
    /\ pc[t] = "fill"
    /\ tables = 0..(k - 1)
    /\ tables' = 0..k
    /\ visible' = [visible EXCEPT ![t] = @ \cup {k}]
    /\ IF k = 7 THEN Goto(t, "store") ELSE UNCHANGED pc
    /\ UNCHANGED <<ready, lock>>

StoreReady(t) ==
  /\ pc[t] = "store"
  /\ ready' = [value |-> 1, rows |-> visible[t]]
  /\ Goto(t, "unlock")
  /\ UNCHANGED <<lock, tables, visible>>

\* Seeded fault: the lock is not cleared.
ClearLock_Missing(t) ==
  /\ pc[t] = "unlock"
  /\ Goto(t, "use")
  /\ UNCHANGED <<ready, lock, tables, visible>>

ClearLock(t) ==
  /\ pc[t] = "unlock"
  /\ lock' = [holder |-> NoThread, rows |-> visible[t]]
  /\ Goto(t, "use")
  /\ UNCHANGED <<ready, tables, visible>>

\* The caller computes its checksum, and will call again.
UseTables(t) ==
  /\ pc[t] = "use"
  /\ Goto(t, "start")
  /\ UNCHANGED <<ready, lock, tables, visible>>

ThreadStep(t) ==
  \/ LoadReady(t)
  \/ TestAndSet(t)
  \/ Recheck(t)
  \/ FillRow(t)
  \/ StoreReady(t)
  \/ ClearLock(t)
  \/ UseTables(t)

CrcInitNext == \E t \in Threads : ThreadStep(t)

CrcInitSpec == CrcInitInit /\ [][CrcInitNext]_cvars
-----------------------------------------------------------------------------
(* Properties *)

\* Types of the flag, the lock and the threads.
CrcInitTypeOK ==
  /\ ready \in [value : {0, 1}, rows : SUBSET Rows]
  /\ lock \in [holder : Threads \cup {NoThread}, rows : SUBSET Rows]
  /\ tables \subseteq Rows
  /\ visible \in [Threads -> SUBSET Rows]
  /\ pc \in [Threads -> PCs]

\* A thread that computes a checksum sees every row of the tables, on the
\* fast path without the lock too: no checksum reads a table that another
\* thread is still writing.
TablesCompleteWhenUsed ==
  \A t \in Threads : pc[t] = "use" => visible[t] = Rows

\* At most one thread is between test_and_set and clear, and it is the one
\* that holds the lock.
OneTableBuilder ==
  \A t \in Threads :
    pc[t] \in {"recheck", "fill", "store", "unlock"} => lock.holder = t

\* Why the three others hold.  What a thread is sure to see follows from how
\* far the tables are and from what the flag and the lock released: rows exist
\* before the flag is set only while their builder holds the lock, and from
\* then on every release passes all of them on.
TablesPublished ==
  /\ ready.value = 1 => /\ tables = Rows
                        /\ ready.rows = Rows
                        /\ lock.holder = NoThread => lock.rows = Rows
  /\ ready.value = 0 => /\ lock.rows = {}
                        /\ \/ tables = {}
                           \/ \E t \in Threads : pc[t] \in {"fill", "store"}
  /\ \A t \in Threads :
       /\ pc[t] = "recheck" /\ ready.value = 1 => visible[t] = Rows
       /\ pc[t] = "fill" => ready.value = 0 /\ visible[t] = tables
       /\ pc[t] = "store" => ready.value = 0 /\ tables = Rows /\ visible[t] = Rows
       /\ pc[t] = "unlock" => ready.value = 1 /\ visible[t] = Rows
       /\ ready.value = 0 /\ pc[t] \notin {"fill", "store"} => visible[t] = {}

\* Once the flag is set no row is written again, so readers that never take
\* the lock cannot meet a write.
TablesFrozenWhenReady == [][ready.value = 1 => tables' = tables]_cvars

\* A thread that spins gets the tables: the lock is taken finitely often,
\* since every thread that comes later finds the flag set.
SpinningEnds == \A t \in Threads : pc[t] = "spin" ~> pc[t] = "use"
=============================================================================
