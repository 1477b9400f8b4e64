---------------------------- MODULE MCApplyQueue ----------------------------
(* The miner, whose second forge follows a failed first one, and a reorg that an *)
(* adapter awaits, for a shorter time than the job lives.                        *)
EXTENDS ApplyQueue, TLC

CONSTANTS forge, empty, reorg, none

MCJobs   == {reorg, forge, empty}
MCKind   == reorg :> "REORG_AND_IMPORT" @@ forge :> "FORGE" @@ empty :> "FORGE"
MCFollow == reorg :> none @@ forge :> empty @@ empty :> none
=============================================================================
