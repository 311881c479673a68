---------------------------- MODULE RangeConnect ----------------------------
(***************************************************************************)
(* What BulkConnectBlocks and ParallelConnectBlocks promise resyncIndex:   *)
(* the blocks Lower..Higher are connected one after the other, and nil is  *)
(* returned only when all of them are, unless the process is stopping.     *)
(***************************************************************************)
EXTENDS Integers

CONSTANTS Lower, Higher

Errors == {"resync", "error", "interrupted"}

VARIABLES
  lastBlock,  \* the highest block connected
  result,     \* what the call returned, "running" before that
  signal      \* chanOsSignal is closed

rangeVars == <<lastBlock, result, signal>>

RangeInit ==
  /\ lastBlock = Lower - 1
  /\ result = "running"
  /\ signal = FALSE

Connect ==
  /\ result = "running" /\ lastBlock < Higher
  /\ lastBlock' = lastBlock + 1
  /\ UNCHANGED <<result, signal>>

Return ==
  /\ result = "running"
  /\ \/ result' = "nil" /\ (lastBlock = Higher \/ signal)
     \/ result' \in Errors
  /\ UNCHANGED <<lastBlock, signal>>

Stop == signal' = TRUE /\ UNCHANGED <<lastBlock, result>>

RangeNext == Connect \/ Return \/ Stop

RangeSpec == RangeInit /\ [][RangeNext]_rangeVars
=============================================================================
