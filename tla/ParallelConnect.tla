--------------------------- MODULE ParallelConnect ---------------------------
(***************************************************************************)
(* The goroutines of BulkConnectBlocks and ParallelConnectBlocks           *)
(* (db/sync.go): a coordinator queues the hashes of the heights            *)
(* Lower..Higher, workers fetch the blocks, one writer connects them in    *)
(* order.  hch is a buffered channel of hashes, bch one unbuffered channel *)
(* per worker, abortCh a buffered channel of one error, terminating and    *)
(* chanOsSignal are closed to stop everybody.                              *)
(*                                                                         *)
(* A select is a choice among the cases that are ready; one with a default *)
(* takes the default only when no case is.                                 *)
(***************************************************************************)
EXTENDS Integers, Sequences

CONSTANTS
  Lower, Higher,  \* the range, lower and higher
  Workers,        \* syncWorkers
  MaxFaults,      \* bound: failed RPCs
  MaxReorgs,      \* bound: reorganisations of the backend
  MaxSignals      \* 1: the process may be asked to stop

\* resyncIndex starts a parallel round only when the backend is not below startHeight.
ASSUME RoundAssumption ==
  /\ Lower \in Nat /\ Higher \in Nat /\ Lower <= Higher
  /\ Workers \in Nat \ {0}
  /\ MaxFaults \in Nat /\ MaxReorgs \in Nat /\ MaxSignals \in Nat

Worker == 0..(Workers - 1)
Height == Lower..Higher

VARIABLES
  co,          \* where the coordinator is
  h,           \* the next height to queue
  err,         \* its variable err
  hch,         \* the queued heights
  hchClosed,   \* the channel hch is closed
  tail,        \* the atomic hchClosed, stored after the channel is closed
  terminating, \* closed by terminate
  abortCh,     \* the buffered error, "none" when empty
  wpc, hh,     \* per worker: where it is, and the height it took
  writer,      \* "run", "done", or "fatal": writeBlockWorker skipped block
  bchClosed,   \* the channels bch are closed
  lastBlock,   \* the last block the writer connected
  signal,      \* chanOsSignal is closed
  gone,        \* queued heights whose hash left the best chain
  spent        \* how much of the bounds is used

coVars == <<co, h, err, hch, hchClosed, tail, terminating, bchClosed>>
workerVars == <<wpc, hh>>
writerVars == <<writer, lastBlock>>
envVars == <<signal, gone, spent>>
vars == <<coVars, abortCh, workerVars, writerVars, envVars>>

Init ==
  /\ co = "loop" /\ h = Lower /\ err = "none"
  /\ hch = <<>> /\ hchClosed = FALSE /\ tail = FALSE
  /\ terminating = FALSE /\ abortCh = "none" /\ bchClosed = FALSE
  /\ wpc = [i \in Worker |-> "recv"] /\ hh = [i \in Worker |-> Lower]
  /\ writer = "run" /\ lastBlock = Lower - 1
  /\ signal = FALSE /\ gone = {}
  /\ spent = [faults |-> 0, reorgs |-> 0]

-----------------------------------------------------------------------------
\* The environment.

\* A queued hash, and those above it, leave the best chain.
Reorg ==
  /\ spent.reorgs < MaxReorgs
  /\ \E l \in Lower..(h - 1) : gone' = gone \cup l..(h - 1)
  /\ spent' = [spent EXCEPT !.reorgs = @ + 1]
  /\ UNCHANGED <<coVars, abortCh, workerVars, writerVars, signal>>

\* The process is asked to stop: chanOsSignal is closed.
Signal ==
  /\ MaxSignals > 0 /\ ~signal
  /\ signal' = TRUE
  /\ UNCHANGED <<coVars, abortCh, workerVars, writerVars, gone, spent>>

Fault ==
  /\ spent.faults < MaxFaults
  /\ spent' = [spent EXCEPT !.faults = @ + 1]

-----------------------------------------------------------------------------
\* The coordinator: ConnectLoop.

\* An error from abortCh ends the loop.
CoAbort ==
  /\ co \in {"loop", "send"} /\ abortCh # "none"
  /\ err' = abortCh /\ abortCh' = "none"
  /\ terminating' = TRUE
  /\ co' = "close"
  /\ UNCHANGED <<h, hch, hchClosed, tail, bchClosed, workerVars, writerVars, envVars>>

\* Mutant: the workers and the writer are not told to stop.
MutCoInterrupted ==
  /\ co \in {"loop", "send"} /\ signal
  /\ err' = "interrupted"
  /\ co' = "close"
  /\ UNCHANGED <<h, hch, hchClosed, tail, terminating, bchClosed, abortCh, workerVars,
                 writerVars, envVars>>

CoInterrupted ==
  /\ co \in {"loop", "send"} /\ signal
  /\ err' = "interrupted"
  /\ terminating' = TRUE
  /\ co' = "close"
  /\ UNCHANGED <<h, hch, hchClosed, tail, bchClosed, abortCh, workerVars, writerVars,
                 envVars>>

\* GetBlockHash(h) answers.
CoHash ==
  /\ co = "loop" /\ abortCh = "none" /\ ~signal
  /\ co' = "send"
  /\ UNCHANGED <<h, err, hch, hchClosed, tail, terminating, bchClosed, abortCh,
                 workerVars, writerVars, envVars>>

\* GetBlockHash fails: sleep and try again.
CoHashError ==
  /\ co = "loop" /\ abortCh = "none" /\ ~signal
  /\ Fault
  /\ UNCHANGED <<coVars, abortCh, workerVars, writerVars, signal, gone>>

\* sendHashHeight finds room in hch.
CoSend ==
  /\ co = "send" /\ Len(hch) < Workers
  /\ hch' = Append(hch, h)
  /\ h' = h + 1
  /\ co' = IF h < Higher THEN "loop" ELSE "close"
  /\ UNCHANGED <<err, hchClosed, tail, terminating, bchClosed, abortCh, workerVars,
                 writerVars, envVars>>

CoCloseHch ==
  /\ co = "close"
  /\ hchClosed' = TRUE /\ co' = "store"
  /\ UNCHANGED <<h, err, hch, tail, terminating, bchClosed, abortCh, workerVars,
                 writerVars, envVars>>

CoStoreTail ==
  /\ co = "store"
  /\ tail' = TRUE /\ co' = "wait"
  /\ UNCHANGED <<h, err, hch, hchClosed, terminating, bchClosed, abortCh, workerVars,
                 writerVars, envVars>>

\* waitWorkersOrAbort: the workers exited, or one of them reports an error.
WorkersDone == \A i \in Worker : wpc[i] = "exit"

CoWorkersDone ==
  /\ co \in {"wait", "abortWait"} /\ WorkersDone
  /\ co' = "drain"
  /\ UNCHANGED <<h, err, hch, hchClosed, tail, terminating, bchClosed, abortCh,
                 workerVars, writerVars, envVars>>

CoWaitAbort ==
  /\ co = "wait" /\ abortCh # "none"
  /\ err' = IF err = "none" THEN abortCh ELSE err
  /\ abortCh' = "none"
  /\ terminating' = TRUE /\ co' = "abortWait"
  /\ UNCHANGED <<h, hch, hchClosed, tail, bchClosed, workerVars, writerVars, envVars>>

\* Mutant: a late worker error is not drained.
MutCoDrain ==
  /\ co = "drain"
  /\ bchClosed' = TRUE /\ co' = "writer"
  /\ UNCHANGED <<h, hch, err, abortCh, hchClosed, tail, terminating, workerVars,
                 writerVars, envVars>>

\* A late worker error is picked up, then bch is closed for the writer.
CoDrain ==
  /\ co = "drain"
  /\ err' = IF err = "none" THEN abortCh ELSE err
  /\ abortCh' = "none"
  /\ bchClosed' = TRUE /\ co' = "writer"
  /\ UNCHANGED <<h, hch, hchClosed, tail, terminating, workerVars, writerVars, envVars>>

CoReturn ==
  /\ co = "writer" /\ writer = "done"
  /\ co' = "returned"
  /\ UNCHANGED <<h, err, hch, hchClosed, tail, terminating, bchClosed, abortCh,
                 workerVars, writerVars, envVars>>

Coordinator ==
  \/ CoAbort \/ CoInterrupted \/ CoHash \/ CoHashError \/ CoSend
  \/ CoCloseHch \/ CoStoreTail \/ CoWorkersDone \/ CoWaitAbort \/ CoDrain \/ CoReturn

-----------------------------------------------------------------------------
\* getBlockWorker.

Goto(i, p) == wpc' = [wpc EXCEPT ![i] = p]

\* A worker reports without blocking: a second report is dropped.
Report(e) == abortCh' = IF abortCh = "none" THEN e ELSE abortCh

Receive(i) ==
  /\ wpc[i] = "recv" /\ hch # <<>>
  /\ hh' = [hh EXCEPT ![i] = Head(hch)]
  /\ hch' = Tail(hch)
  /\ Goto(i, "fetch")
  /\ UNCHANGED <<co, h, err, hchClosed, tail, terminating, bchClosed, abortCh,
                 writerVars, envVars>>

ReceiveClosed(i) ==
  /\ wpc[i] = "recv" /\ hch = <<>> /\ hchClosed
  /\ Goto(i, "exit")
  /\ UNCHANGED <<coVars, abortCh, hh, writerVars, envVars>>

\* The retry loop looks at terminating and chanOsSignal before every fetch and
\* while it sleeps.
WorkerStop(i) ==
  /\ wpc[i] \in {"fetch", "sleep"} /\ (terminating \/ signal)
  /\ Goto(i, "exit")
  /\ UNCHANGED <<coVars, abortCh, hh, writerVars, envVars>>

Fetching(i) == wpc[i] = "fetch" /\ ~terminating /\ ~signal

GetBlock(i) ==
  /\ Fetching(i)
  /\ Goto(i, "send")
  /\ UNCHANGED <<coVars, abortCh, hh, writerVars, envVars>>

\* GetBlock answers with a retryable error.
Missed(i) == Fetching(i) /\ ((hh[i] \in gone /\ UNCHANGED spent) \/ Fault)

\* The block is retried after RetryDelay.
GetBlockMiss(i) ==
  /\ Missed(i)
  /\ Goto(i, "sleep")
  /\ UNCHANGED <<coVars, abortCh, hh, writerVars, signal, gone>>

Wake(i) ==
  /\ wpc[i] = "sleep"
  /\ Goto(i, "fetch")
  /\ UNCHANGED <<coVars, abortCh, hh, writerVars, envVars>>

\* The hash is no longer on the chain, or MaxStallDuration is over.
GetBlockResync(i) ==
  /\ Missed(i)
  /\ Report("resync")
  /\ Goto(i, "exit")
  /\ UNCHANGED <<coVars, hh, writerVars, signal, gone>>

\* An error that is not retryable is retried until the queue is closed; the
\* third failed probe of the chain state in a row ends the worker at any time.
GetBlockError(i) ==
  /\ Fetching(i) /\ Fault
  /\ \/ Report("error") /\ Goto(i, "exit")
     \/ ~tail /\ Goto(i, "sleep") /\ UNCHANGED abortCh
  /\ UNCHANGED <<coVars, hh, writerVars, signal, gone>>

\* The worker waits to hand its block over, and gives up on terminating only.
SendStop(i) ==
  /\ wpc[i] = "send" /\ terminating
  /\ Goto(i, "exit")
  /\ UNCHANGED <<coVars, abortCh, hh, writerVars, envVars>>

-----------------------------------------------------------------------------
\* writeBlockWorker.

Channel(n) == n % Workers

\* Mutant: a worker sends on a channel of its own.
MutHandOver(i) ==
  /\ wpc[i] = "send" /\ writer = "run"
  /\ IF hh[i] = lastBlock + 1
     THEN lastBlock' = hh[i] /\ UNCHANGED writer
     ELSE writer' = "fatal" /\ UNCHANGED lastBlock
  /\ Goto(i, "recv")
  /\ UNCHANGED <<coVars, abortCh, hh, envVars>>

\* A worker sends on the channel of its height, the writer receives from the
\* channel of the height it expects, and dies of any other block.
HandOver(i) ==
  /\ wpc[i] = "send" /\ writer = "run"
  /\ Channel(hh[i]) = Channel(lastBlock + 1)
  /\ IF hh[i] = lastBlock + 1
     THEN lastBlock' = hh[i] /\ UNCHANGED writer
     ELSE writer' = "fatal" /\ UNCHANGED lastBlock
  /\ Goto(i, "recv")
  /\ UNCHANGED <<coVars, abortCh, hh, envVars>>

WriterDone ==
  /\ writer = "run" /\ (terminating \/ bchClosed)
  /\ writer' = "done"
  /\ UNCHANGED <<coVars, abortCh, workerVars, lastBlock, envVars>>

WorkerStep(i) ==
  \/ Receive(i) \/ ReceiveClosed(i) \/ WorkerStop(i) \/ GetBlock(i)
  \/ GetBlockMiss(i) \/ Wake(i) \/ GetBlockResync(i) \/ GetBlockError(i)
  \/ SendStop(i) \/ HandOver(i)

\* The call has returned.
Returned == co = "returned" /\ UNCHANGED vars

Next ==
  \/ Reorg \/ Signal \/ Coordinator \/ WriterDone \/ Returned
  \/ \E i \in Worker : WorkerStep(i)

Spec == Init /\ [][Next]_vars

Overdue(i) == hh[i] \in gone /\ GetBlockResync(i)

\* Every goroutine runs, and the retry loop of a worker over a
\* block that left the chain comes to its threshold or deadline.
FairSpec ==
  /\ Spec
  /\ WF_vars(Coordinator) /\ WF_vars(WriterDone)
  /\ \A i \in Worker : WF_vars(WorkerStep(i)) /\ SF_vars(Overdue(i))

-----------------------------------------------------------------------------
\* The values the variables take.
TypeOK ==
  /\ co \in {"loop", "send", "close", "store", "wait", "abortWait", "drain",
             "writer", "returned"}
  /\ h \in Lower..(Higher + 1)
  /\ err \in {"none", "resync", "error", "interrupted"}
  /\ hch \in Seq(Height) /\ Len(hch) <= Workers
  /\ hchClosed \in BOOLEAN /\ tail \in BOOLEAN /\ terminating \in BOOLEAN
  /\ abortCh \in {"none", "resync", "error"}
  /\ wpc \in [Worker -> {"recv", "fetch", "sleep", "send", "exit"}]
  /\ hh \in [Worker -> Height]
  /\ writer \in {"run", "done", "fatal"} /\ bchClosed \in BOOLEAN
  /\ lastBlock \in (Lower - 1)..Higher
  /\ signal \in BOOLEAN /\ gone \subseteq Height
  /\ spent \in [faults : 0..MaxFaults, reorgs : 0..MaxReorgs]

\* The writer never meets a block it did not expect ("writeBlockWorker skipped
\* block", glog.Fatal at db/sync.go:690 and 944), although the block that is
\* Workers heights further uses the same channel.
NeverSkips == writer # "fatal"

\* The call returns: no combination of full and empty channels, of workers
\* that gave up and of blocks that left the chain parks everybody.
Terminates == <>(co = "returned")

\* The same of a process nobody asks to stop.
Returns == <>(co = "returned" \/ signal)

\* A stop request ends the call while there are heights left to queue: the
\* coordinator sees chanOsSignal at the next turn of ConnectLoop, and its close of
\* terminating reaches the workers parked on bch and the writer.
StopEndsRound ==
  (signal /\ (co = "loop" \/ (co = "send" /\ h < Higher))) ~> (co = "returned")

\* The goroutines implement the promise resyncIndex relies on.
Promise == INSTANCE RangeConnect WITH
  result <- IF co # "returned" THEN "running" ELSE IF err = "none" THEN "nil" ELSE err
ImplementsRange == Promise!RangeSpec
=============================================================================
