---------------------------- MODULE ThreadShares ----------------------------
(***************************************************************************)
(* How the load managers spread a total (a concurrency level, a request    *)
(* count) over the worker threads: the floor of the quotient each, and one *)
(* more for the first (total % threads) of them.  Threads are numbered     *)
(* from 0, as in the code.                                                 *)
(*                                                                         *)
(* The code accumulates the offset of a thread's first sequence status in  *)
(* a running sum; SeqStatIndexOffset is that sum in closed form, which     *)
(* LoadWorkerProofs shows to satisfy the recurrence of the loop.           *)
(***************************************************************************)
EXTENDS Integers

\* avg + (i < add_one ? 1 : 0)
Share(total, threads, i) ==
    (total \div threads) + (IF i < total % threads THEN 1 ELSE 0)

\* The running sum of the shares of the threads before thread i.
SeqStatIndexOffset(total, threads, i) ==
    i * (total \div threads)
        + (IF i < total % threads THEN i ELSE total % threads)
=============================================================================
