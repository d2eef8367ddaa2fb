---------------------------- MODULE MCEtlWorker ----------------------------
(***************************************************************************)
(* EtlWorker for TLC.  Thread ids are interchangeable.                     *)
(***************************************************************************)
EXTENDS EtlWorker, TLC

ThreadSymmetry == Permutations(Threads)
=============================================================================
