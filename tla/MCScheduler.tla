----------------------------- MODULE MCScheduler -----------------------------
(* A small instance of the scheduler: one job over three minutes.           *)
EXTENDS Scheduler, TLC

CONSTANTS j1, t1, t2

\* A job due once and a job due every minute.
const_Crons == {{1}, 0..MaxMinute}

\* Ticks differ in nothing but what they have read.
symmetry == Permutations(Ticks)
==============================================================================
