------------------------------- MODULE MCBlock -----------------------------
(***************************************************************************)
(* The block codec for TLC: threads build the CRC tables; when they are    *)
(* all through, a block is written, damaged and decoded with them.         *)
(***************************************************************************)
EXTENDS Block, CrcInit

\* No payload; one shorter than eight bytes; one of full length with bytes
\* behind the last multiple of eight; one that is too long.
MCContents ==
  {[lsn |-> <<1, 0, 0, 0, 0, 0, 0, 0>>, flags |-> 0, payload |-> <<>>],
   [lsn |-> <<255, 1, 0, 0, 0, 0, 0, 128>>, flags |-> 1, payload |-> <<0, 0, 200>>],
   [lsn |-> <<7, 0, 0, 0, 0, 0, 0, 0>>, flags |-> 0,
    payload |-> [i \in 1..PAYLOAD_MAX |-> 16 * i]],
   [lsn |-> <<8, 0, 0, 0, 0, 0, 0, 0>>, flags |-> 0,
    payload |-> [i \in 1..(PAYLOAD_MAX + 1) |-> i]]}

MCInit == BlockInit /\ CrcInitInit

MCNext ==
  \/ CrcInitNext /\ BlockInit /\ UNCHANGED bvars
  \/ BlockNext /\ (\A t \in Threads : pc[t] = "use") /\ UNCHANGED cvars

\* Threads are scheduled by the operating system: none is starved for ever.
MCSpec ==
  /\ MCInit
  /\ [][MCNext]_<<bvars, cvars>>
  /\ \A t \in Threads : WF_cvars(ThreadStep(t) /\ BlockInit /\ UNCHANGED bvars)
=============================================================================
