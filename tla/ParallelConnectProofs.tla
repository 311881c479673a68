------------------------ MODULE ParallelConnectProofs ------------------------
(***************************************************************************)
(* Theorems about ParallelConnect, for every range, every number of        *)
(* workers and every number of failed RPCs and reorganisations: the writer *)
(* never dies of a block it did not expect, and the goroutines implement   *)
(* RangeConnect.                                                           *)
(*                                                                         *)
(* The writer listens on the channel of the height it expects, which it    *)
(* shares with the heights Workers, 2 * Workers, ... above.  What keeps    *)
(* those away is that hashes are taken in order and that a height which    *)
(* was taken and is not connected occupies a worker: one that still holds  *)
(* it, or one that gave it up and exited (Covered).  So at most Workers    *)
(* heights above the last block are taken, and no two of them share a      *)
(* channel.  A worker exits only when the queue is closed and empty, or    *)
(* with an excuse the coordinator returns or the process is stopping for.  *)
(***************************************************************************)
EXTENDS ParallelConnect, FiniteSetTheorems, TLAPS

\* The next height a worker takes.
Taken == h - Len(hch)

Held(i) == wpc[i] \in {"fetch", "sleep", "send"}

\* There is an error to return, or the process is stopping.
Excused == err # "none" \/ abortCh # "none" \/ signal

\* The queue holds the heights from Taken up to the next one to queue.
Queued ==
  /\ Lower <= Taken /\ lastBlock < Taken
  /\ \A k \in 1..Len(hch) : hch[k] = Taken + k - 1

\* Workers hold different heights between the last block and Taken.
Apart ==
  /\ \A i \in Worker : Held(i) => lastBlock < hh[i] /\ hh[i] < Taken
  /\ \A i, j \in Worker : Held(i) /\ Held(j) /\ hh[i] = hh[j] => i = j

\* A height that was taken and is not connected occupies a worker.
Covered ==
  \A n \in (lastBlock + 1)..(Taken - 1) :
    \E i \in Worker : hh[i] = n /\ (Held(i) \/ (wpc[i] = "exit" /\ Excused))

\* How the coordinator and the workers come to their ends.
Ends ==
  /\ co \in {"loop", "send"} => h <= Higher /\ ~hchClosed
  /\ co \notin {"loop", "send"} => err # "none" \/ h = Higher + 1
  /\ terminating => err # "none"
  /\ \A i \in Worker : wpc[i] = "exit" => Excused \/ (hchClosed /\ hch = <<>>)
  /\ co \in {"drain", "writer", "returned"} => WorkersDone
  /\ co \in {"writer", "returned"} => abortCh = "none"
  /\ co = "returned" => writer = "done"

IInv == TypeOK /\ Queued /\ Apart /\ Covered /\ Ends /\ NeverSkips

-----------------------------------------------------------------------------
\* Two heights less than Workers apart that share a channel of writeBlockWorker are
\* the same.
LEMMA OneChannel ==
  ASSUME NEW m \in Nat, NEW n \in Nat, m <= n, n < m + Workers, Channel(n) = Channel(m)
  PROVE  n = m
<1>1. Workers \in Nat /\ Workers > 0
  BY RoundAssumption
<1> DEFINE a == m \div Workers
           b == n \div Workers
<1>2. a \in Int /\ m = Workers * a + (m % Workers)
  BY <1>1
<1>3. b \in Int /\ n = Workers * b + (n % Workers)
  BY <1>1
<1> HIDE DEF a, b
<1>4. m % Workers = n % Workers /\ m % Workers \in 0..(Workers - 1)
  BY <1>1 DEF Channel
<1>5. ASSUME NEW d \in Nat PROVE Workers * (d + 1) >= Workers
  BY <1>1
<1>6. CASE b > a
  <2> DEFINE d == b - a - 1
  <2>1. d \in Nat /\ b = a + (d + 1)
    BY <1>2, <1>3, <1>6
  <2> HIDE DEF d
  <2>2. Workers * b = Workers * a + Workers * (d + 1)
    BY <1>1, <1>2, <2>1
  <2>3. Workers * a \in Int /\ Workers * (d + 1) \in Int /\ Workers * (d + 1) >= Workers
    BY <1>1, <1>2, <1>5, <2>1
  <2> QED BY <1>1, <1>2, <1>3, <1>4, <2>2, <2>3
<1>7. CASE b < a
  <2> DEFINE d == a - b - 1
  <2>1. d \in Nat /\ a = b + (d + 1)
    BY <1>2, <1>3, <1>7
  <2> HIDE DEF d
  <2>2. Workers * a = Workers * b + Workers * (d + 1)
    BY <1>1, <1>3, <2>1
  <2>3. Workers * b \in Int /\ Workers * (d + 1) \in Int /\ Workers * (d + 1) >= Workers
    BY <1>1, <1>3, <1>5, <2>1
  <2> QED BY <1>1, <1>2, <1>3, <1>4, <2>2, <2>3
<1>8. CASE a = b
  BY <1>2, <1>3, <1>4, <1>8
<1> QED BY <1>2, <1>3, <1>6, <1>7, <1>8

\* The bounds on failed RPCs and reorganisations are kept by a step that uses one up.
LEMMA BoundsKept ==
  ASSUME spent \in [faults : 0..MaxFaults, reorgs : 0..MaxReorgs]
  PROVE  /\ spent.faults < MaxFaults =>
              [spent EXCEPT !.faults = @ + 1] \in [faults : 0..MaxFaults, reorgs : 0..MaxReorgs]
         /\ spent.reorgs < MaxReorgs =>
              [spent EXCEPT !.reorgs = @ + 1] \in [faults : 0..MaxFaults, reorgs : 0..MaxReorgs]
<1>1. PICK a \in 0..MaxFaults, b \in 0..MaxReorgs : spent = [faults |-> a, reorgs |-> b]
  OBVIOUS
<1>2. /\ [spent EXCEPT !.faults = @ + 1] = [faults |-> a + 1, reorgs |-> b]
      /\ [spent EXCEPT !.reorgs = @ + 1] = [faults |-> a, reorgs |-> b + 1]
      /\ spent.faults = a /\ spent.reorgs = b
  BY <1>1
<1>3. /\ a < MaxFaults => a + 1 \in 0..MaxFaults
      /\ b < MaxReorgs => b + 1 \in 0..MaxReorgs
  BY RoundAssumption
<1> QED BY <1>1, <1>2, <1>3

\* At most Workers heights above the last block are taken.
LEMMA Narrow ==
  ASSUME IInv
  PROVE  Taken - 1 <= lastBlock + Workers
<1> DEFINE S == (lastBlock + 1)..(Taken - 1)
<1> DEFINE f == [n \in S |-> CHOOSE i \in Worker : hh[i] = n]
<1>1. lastBlock \in Int /\ Taken \in Int /\ Workers \in Nat
  BY RoundAssumption DEF IInv, TypeOK, Taken
<1>2. \A n \in S : f[n] \in Worker /\ hh[f[n]] = n
  BY DEF IInv, Covered
<1>3. f \in [S -> Worker]
  BY <1>2
<1> HIDE DEF f, S
<1>4. f \in Injection(S, Worker)
  BY <1>2, <1>3 DEF Injection, IsInjective
<1>5. IsFiniteSet(Worker) /\ Cardinality(Worker) = Workers
  BY <1>1, FS_Interval, RoundAssumption DEF Worker
<1>6. Cardinality(S) <= Workers
  BY <1>4, <1>5, FS_Injection
<1>7. Cardinality(S) = IF lastBlock + 1 > Taken - 1 THEN 0 ELSE Taken - 1 - (lastBlock + 1) + 1
  BY <1>1, FS_Interval DEF S
<1> QED BY <1>1, <1>6, <1>7

\* A step that moves no height and no worker and keeps every excuse keeps the part of
\* the invariant that is about heights.
LEMMA Still ==
  ASSUME Queued, Apart, Covered, UNCHANGED <<h, hch, wpc, hh, lastBlock>>, Excused => Excused'
  PROVE  Queued' /\ Apart' /\ Covered'
<1>1. Taken' = Taken /\ \A i : Held(i)' = Held(i)
  BY DEF Taken, Held
<1>2. Queued' /\ Apart'
  BY <1>1 DEF Queued, Apart
<1>3. Covered'
  BY <1>1 DEF Covered
<1> QED BY <1>2, <1>3

\* Before its first step a round has nothing queued, taken or connected.
LEMMA InitIInv == Init => IInv
<1> SUFFICES ASSUME Init PROVE IInv
  OBVIOUS
<1>1. TypeOK
  <2>1. hh \in [Worker -> Height] /\ wpc \in [Worker -> {"recv", "fetch", "sleep", "send", "exit"}]
    BY RoundAssumption DEF Init, Height
  <2>2. spent \in [faults : 0..MaxFaults, reorgs : 0..MaxReorgs]
    BY RoundAssumption DEF Init
  <2>3. hch \in Seq(Height) /\ Len(hch) <= Workers
    BY RoundAssumption DEF Init
  <2>4. h \in Lower..(Higher + 1) /\ lastBlock \in (Lower - 1)..Higher
    BY RoundAssumption DEF Init
  <2> QED BY <2>1, <2>2, <2>3, <2>4, Zenon DEF Init, TypeOK
<1>2. Queued
  BY RoundAssumption DEF Init, Queued, Taken
<1>3. Apart
  BY DEF Init, Apart, Held
<1>4. Covered
  <2>1. (lastBlock + 1)..(Taken - 1) = {}
    BY RoundAssumption DEF Init, Taken
  <2> QED BY <2>1 DEF Covered
<1>5. Ends /\ NeverSkips
  BY RoundAssumption DEF Init, Ends, NeverSkips
<1> QED BY <1>1, <1>2, <1>3, <1>4, <1>5 DEF IInv

\* The backend and the signal handler touch no height.
LEMMA EnvironmentIInv ==
  ASSUME IInv, Reorg \/ Signal
  PROVE  IInv'
<1> USE DEF IInv
<1>1. TypeOK'
  <2>1. CASE Reorg
    <3>1. gone' \subseteq Height
      BY <2>1, RoundAssumption, SMTT(30) DEF Reorg, TypeOK, Height
    <3>2. spent' \in [faults : 0..MaxFaults, reorgs : 0..MaxReorgs]
      BY <2>1, BoundsKept DEF Reorg, TypeOK
    <3> QED BY <2>1, <3>1, <3>2 DEF Reorg, TypeOK, coVars, workerVars, writerVars
  <2>2. CASE Signal
    BY <2>2 DEF Signal, TypeOK, coVars, workerVars, writerVars
  <2> QED BY <2>1, <2>2
<1>2. UNCHANGED <<coVars, abortCh, workerVars, writerVars>> /\ (signal => signal')
  BY DEF Reorg, Signal
<1>3. Excused => Excused'
  BY <1>2 DEF Excused, coVars
<1>4. Queued' /\ Apart' /\ Covered'
  BY <1>2, <1>3, Still DEF coVars, workerVars, writerVars
<1>5. Ends' /\ NeverSkips'
  BY <1>2, <1>3 DEF Ends, NeverSkips, WorkersDone, coVars, workerVars, writerVars
<1> QED BY <1>1, <1>4, <1>5

\* The coordinator without CoSend moves no height; an error it takes from abortCh
\* becomes the one it returns.
LEMMA CoordinatorIInv ==
  ASSUME IInv, Coordinator, ~CoSend
  PROVE  IInv'
<1> USE DEF IInv
<1>1. UNCHANGED <<h, hch, workerVars, writerVars, signal, gone>>
  BY Zenon DEF Coordinator, CoAbort, CoInterrupted, CoHash, CoHashError, CoCloseHch, CoStoreTail,
    CoWorkersDone, CoWaitAbort, CoDrain, CoReturn, coVars, envVars
<1>2. Excused => Excused'
  BY <1>1 DEF Excused, Coordinator, CoAbort, CoInterrupted, CoHash, CoHashError, CoCloseHch,
    CoStoreTail, CoWorkersDone, CoWaitAbort, CoDrain, CoReturn, coVars
<1>3. Queued' /\ Apart' /\ Covered'
  BY <1>1, <1>2, Still DEF workerVars, writerVars
<1>4. TypeOK'
  <2>1. CASE CoHashError
    <3>1. spent' \in [faults : 0..MaxFaults, reorgs : 0..MaxReorgs]
      BY <2>1, BoundsKept DEF CoHashError, Fault, TypeOK
    <3> QED BY <2>1, <3>1 DEF CoHashError, TypeOK, coVars, workerVars, writerVars
  <2>2. CASE ~CoHashError
    <3>1. UNCHANGED spent
      BY <2>2, Zenon DEF Coordinator, CoAbort, CoInterrupted, CoHash, CoCloseHch, CoStoreTail,
        CoWorkersDone, CoWaitAbort, CoDrain, CoReturn, envVars
    <3>2. /\ co' \in {"loop", "send", "close", "store", "wait", "abortWait", "drain",
                      "writer", "returned"}
          /\ err' \in {"none", "resync", "error", "interrupted"}
          /\ abortCh' \in {"none", "resync", "error"}
      BY <2>2 DEF TypeOK, Coordinator, CoAbort, CoInterrupted, CoHash, CoCloseHch,
        CoStoreTail, CoWorkersDone, CoWaitAbort, CoDrain, CoReturn
    <3>3. /\ hchClosed' \in BOOLEAN /\ tail' \in BOOLEAN /\ terminating' \in BOOLEAN
          /\ bchClosed' \in BOOLEAN
      BY <2>2, Zenon DEF TypeOK, Coordinator, CoAbort, CoInterrupted, CoHash, CoCloseHch,
        CoStoreTail, CoWorkersDone, CoWaitAbort, CoDrain, CoReturn
    <3> QED BY <1>1, <3>1, <3>2, <3>3, Zenon DEF TypeOK, workerVars, writerVars
  <2> QED BY <2>1, <2>2
<1>5. NeverSkips'
  BY <1>1 DEF NeverSkips, writerVars
<1>6. Ends'
  <2> USE <1>1, <1>2 DEF Ends, workerVars, writerVars, WorkersDone, TypeOK
  <2>1. CASE CoAbort BY <2>1 DEF CoAbort
  <2>2. CASE CoInterrupted BY <2>2 DEF CoInterrupted
  <2>3. CASE CoHash BY <2>3 DEF CoHash
  <2>4. CASE CoHashError BY <2>4 DEF CoHashError, coVars
  <2>5. CASE CoCloseHch BY <2>5, Zenon DEF CoCloseHch
  <2>6. CASE CoStoreTail BY <2>6, Zenon DEF CoStoreTail
  <2>7. CASE CoWorkersDone BY <2>7, Zenon DEF CoWorkersDone
  <2>8. CASE CoWaitAbort BY <2>8 DEF CoWaitAbort
  <2>9. CASE CoDrain BY <2>9, Zenon DEF CoDrain
  <2>10. CASE CoReturn BY <2>10 DEF CoReturn
  <2> QED BY <2>1, <2>2, <2>3, <2>4, <2>5, <2>6, <2>7, <2>8, <2>9, <2>10, Zenon DEF Coordinator
<1> QED BY <1>3, <1>4, <1>5, <1>6

\* sendHashHeight appends the next height.
LEMMA SendIInv ==
  ASSUME IInv, CoSend
  PROVE  IInv'
<1> USE DEF IInv
<1>1. h \in Height /\ h \in Int /\ Len(hch) \in Nat
  BY RoundAssumption DEF CoSend, TypeOK, Ends, Height
<1>2. hch' = Append(hch, h) /\ h' = h + 1 /\ Len(hch') = Len(hch) + 1 /\ hch' \in Seq(Height)
  BY <1>1 DEF CoSend, TypeOK
<1>3. Taken' = Taken /\ \A i : Held(i)' = Held(i)
  BY <1>1, <1>2 DEF Taken, Held, CoSend, workerVars
<1>4. Excused' = Excused
  BY DEF CoSend, Excused, envVars
<1>5. UNCHANGED <<workerVars, writerVars, hchClosed, err, abortCh, terminating>>
  BY DEF CoSend
<1>6. Queued'
  <2>1. \A k \in 1..Len(hch') : hch'[k] = Taken + k - 1
    <3> TAKE k \in 1..Len(hch')
    <3>1. CASE k = Len(hch) + 1
      BY <1>1, <1>2, <3>1 DEF TypeOK, Taken
    <3>2. CASE k # Len(hch) + 1
      <4>1. k \in 1..Len(hch)
        BY <1>1, <1>2, <3>2
      <4> QED BY <1>1, <1>2, <4>1 DEF TypeOK, Queued
    <3> QED BY <3>1, <3>2
  <2> QED BY <2>1, <1>3, <1>5 DEF Queued, writerVars
<1>7. Apart'
  BY <1>3, <1>5 DEF Apart, workerVars, writerVars
<1>8. Covered'
  BY <1>3, <1>4, <1>5, Zenon DEF Covered, workerVars, writerVars
<1>9. TypeOK'
  BY <1>1, <1>2, RoundAssumption DEF TypeOK, CoSend, envVars, workerVars, writerVars, Height
<1>10. Ends' /\ NeverSkips'
  <2>1. \A i \in Worker : wpc[i] = "exit" => Excused
    BY DEF Ends, CoSend
  <2>2. co' = IF h < Higher THEN "loop" ELSE "close"
    BY DEF CoSend
  <2> QED BY <1>1, <1>2, <1>4, <1>5, <2>1, <2>2, RoundAssumption
        DEF Ends, CoSend, NeverSkips, workerVars, writerVars, WorkersDone, TypeOK
<1> QED BY <1>6, <1>7, <1>8, <1>9, <1>10, Zenon

\* A worker takes the hash at the head of the queue.
LEMMA ReceiveIInv ==
  ASSUME IInv, NEW w \in Worker, Receive(w)
  PROVE  IInv'
<1> USE DEF IInv
<1>1. /\ hch \in Seq(Height) /\ hch # <<>> /\ Len(hch) \in Nat /\ Len(hch) > 0
      /\ h \in Int /\ lastBlock \in Int
  BY RoundAssumption DEF Receive, TypeOK
<1>2. Head(hch) = Taken /\ Head(hch) \in Height
  <2>1. Head(hch) = hch[1] /\ 1 \in 1..Len(hch)
    BY <1>1
  <2> QED BY <1>1, <2>1 DEF Queued, Taken
<1>3. /\ hch' = Tail(hch) /\ hch' \in Seq(Height) /\ Len(hch') = Len(hch) - 1
      /\ \A k \in 1..Len(hch') : hch'[k] = hch[k + 1]
  BY <1>1 DEF Receive
<1>4. Taken \in Int /\ Taken' = Taken + 1
  BY <1>1, <1>3 DEF Taken, Receive
<1>5. UNCHANGED <<co, h, err, hchClosed, tail, terminating, bchClosed, abortCh, writerVars, envVars>>
  BY DEF Receive
<1>6. /\ wpc[w] = "recv" /\ wpc' = [wpc EXCEPT ![w] = "fetch"]
      /\ hh' = [hh EXCEPT ![w] = Taken]
  BY <1>2, Zenon DEF Receive, Goto
<1>7. /\ wpc'[w] = "fetch" /\ hh'[w] = Taken
      /\ \A i \in Worker : i # w => wpc'[i] = wpc[i] /\ hh'[i] = hh[i]
  BY <1>6 DEF TypeOK
<1>8. ~Held(w) /\ Held(w)' /\ \A i \in Worker : i # w => Held(i)' = Held(i)
  BY <1>6, <1>7, Zenon DEF Held
<1>9. TypeOK'
  <2>1. wpc' \in [Worker -> {"recv", "fetch", "sleep", "send", "exit"}] /\ hh' \in [Worker -> Height]
    BY <1>2, <1>6 DEF TypeOK
  <2> QED BY <1>1, <1>3, <1>5, <2>1, RoundAssumption DEF TypeOK, writerVars, envVars
<1>10. Queued'
  <2>1. \A k \in 1..Len(hch') : hch'[k] = Taken' + k - 1
    BY <1>1, <1>3, <1>4 DEF Queued
  <2> QED BY <1>1, <1>4, <1>5, <2>1, RoundAssumption DEF Queued, writerVars
<1>11. Apart'
  <2>1. \A i \in Worker : hh[i] \in Int
    BY RoundAssumption DEF TypeOK, Height
  <2>2. ASSUME NEW i \in Worker, Held(i)' PROVE lastBlock' < hh'[i] /\ hh'[i] < Taken'
    <3>1. CASE i = w
      BY <1>1, <1>4, <1>5, <1>7, <3>1 DEF Queued, writerVars
    <3>2. CASE i # w
      BY <1>1, <1>4, <1>5, <1>7, <1>8, <2>1, <2>2, <3>2 DEF Apart, writerVars
    <3> QED BY <3>1, <3>2
  <2>3. ASSUME NEW i \in Worker, NEW j \in Worker, Held(i)', Held(j)', hh'[i] = hh'[j] PROVE i = j
    <3>1. CASE i # w /\ j # w
      BY <1>7, <1>8, <2>3, <3>1, Zenon DEF Apart
    <3>2. CASE i = w /\ j # w
      BY <1>4, <1>7, <1>8, <2>1, <2>3, <3>2 DEF Apart
    <3>3. CASE i # w /\ j = w
      BY <1>4, <1>7, <1>8, <2>1, <2>3, <3>3 DEF Apart
    <3> QED BY <3>1, <3>2, <3>3, Zenon
  <2> QED BY <2>2, <2>3 DEF Apart
<1>12. Covered'
  <2> SUFFICES ASSUME NEW n \in (lastBlock + 1)..Taken
               PROVE  \E i \in Worker : hh'[i] = n /\ (Held(i)' \/ (wpc'[i] = "exit" /\ Excused'))
    BY <1>1, <1>4, <1>5 DEF Covered, writerVars
  <2>1. CASE n = Taken
    BY <1>7, <1>8, <2>1, Zenon
  <2>2. CASE n # Taken
    <3>1. n \in (lastBlock + 1)..(Taken - 1)
      BY <1>1, <1>4, <2>2
    <3>2. PICK i \in Worker : hh[i] = n /\ (Held(i) \/ (wpc[i] = "exit" /\ Excused))
      BY <3>1 DEF Covered
    <3>3. i # w
      BY <1>6, <1>8, <3>2, Zenon
    <3> QED BY <1>5, <1>7, <1>8, <3>2, <3>3 DEF Excused, envVars
  <2> QED BY <2>1, <2>2, Zenon
<1>13. Ends'
  <2>1. \A i \in Worker : wpc'[i] = "exit" => wpc[i] = "exit" /\ Excused
    BY <1>1, <1>7 DEF Ends
  <2>2. co \notin {"drain", "writer", "returned"}
    BY <1>6 DEF Ends, WorkersDone
  <2> QED BY <1>5, <2>1, <2>2, Zenon DEF Ends, Excused, envVars, writerVars
<1> QED BY <1>5, <1>9, <1>10, <1>11, <1>12, <1>13, Zenon DEF NeverSkips, writerVars

\* The steps of a worker between taking a hash and handing its block over: it goes on
\* holding its height, or exits with an excuse, or exits from a closed and empty queue.
LEMMA FetchIInv ==
  ASSUME IInv, NEW w \in Worker,
         \/ ReceiveClosed(w) \/ WorkerStop(w) \/ GetBlock(w) \/ GetBlockMiss(w) \/ Wake(w)
         \/ GetBlockResync(w) \/ GetBlockError(w) \/ SendStop(w)
  PROVE  IInv'
<1> USE DEF IInv
<1>1. UNCHANGED <<coVars, hh, writerVars, signal, gone>>
  BY Zenon DEF ReceiveClosed, WorkerStop, GetBlock, GetBlockMiss, Wake, GetBlockResync, GetBlockError,
    SendStop, envVars
<1>2. abortCh' = abortCh \/ (abortCh = "none" /\ abortCh' \in {"resync", "error"})
  BY DEF ReceiveClosed, WorkerStop, GetBlock, GetBlockMiss, Wake, GetBlockResync, GetBlockError,
    SendStop, Report
<1>3. Excused => Excused'
  BY <1>1, <1>2 DEF Excused, coVars
<1>4. spent' \in [faults : 0..MaxFaults, reorgs : 0..MaxReorgs]
  <2>1. UNCHANGED spent \/ Fault
    BY Zenon DEF ReceiveClosed, WorkerStop, GetBlock, GetBlockMiss, Wake, GetBlockResync, GetBlockError,
      SendStop, Missed, envVars
  <2> QED BY <2>1, BoundsKept, Zenon DEF Fault, TypeOK
<1>5. PICK p \in {"fetch", "sleep", "send", "exit"} :
        /\ wpc' = [wpc EXCEPT ![w] = p]
        /\ p # "exit" => Held(w)
        /\ p = "exit" => (Held(w) /\ Excused') \/ (wpc[w] = "recv" /\ hchClosed /\ hch = <<>>)
  <2>1. CASE ReceiveClosed(w)
    BY <2>1, Zenon DEF ReceiveClosed, Goto
  <2>2. CASE WorkerStop(w) \/ SendStop(w)
    <3>1. Excused
      BY <2>2, Zenon DEF WorkerStop, SendStop, Excused, Ends
    <3> QED BY <2>2, <3>1, <1>3, Zenon DEF WorkerStop, SendStop, Goto, Held
  <2>3. CASE GetBlock(w) \/ GetBlockMiss(w) \/ Wake(w)
    BY <2>3 DEF GetBlock, GetBlockMiss, Wake, Missed, Fetching, Goto, Held
  <2>4. CASE GetBlockResync(w)
    <3>1. abortCh' # "none"
      BY <2>4, Zenon DEF GetBlockResync, Report
    <3> QED BY <2>4, <3>1 DEF GetBlockResync, Missed, Fetching, Goto, Held, Excused
  <2>5. CASE GetBlockError(w)
    <3>1. CASE Report("error") /\ Goto(w, "exit")
      <4>1. abortCh' # "none"
        BY <3>1 DEF Report
      <4> QED BY <2>5, <3>1, <4>1 DEF GetBlockError, Fetching, Goto, Held, Excused
    <3>2. CASE Goto(w, "sleep")
      BY <2>5, <3>2, Zenon DEF GetBlockError, Fetching, Goto, Held
    <3> QED BY <2>5, <3>1, <3>2, Zenon DEF GetBlockError
  <2> QED BY <2>1, <2>2, <2>3, <2>4, <2>5, Zenon
<1>6. wpc'[w] = p /\ \A i \in Worker : i # w => wpc'[i] = wpc[i]
  BY <1>5 DEF TypeOK
<1>7. wpc[w] # "exit"
  BY <1>5 DEF Held
<1>8. \A i \in Worker : Held(i)' => Held(i)
  BY <1>5, <1>6, Zenon DEF Held
<1>9. \A i \in Worker : Held(i) => Held(i)' \/ (wpc'[i] = "exit" /\ Excused')
  BY <1>5, <1>6 DEF Held
<1>10. Taken' = Taken
  BY <1>1, Zenon DEF Taken, coVars
<1>11. TypeOK'
  <2>1. wpc' \in [Worker -> {"recv", "fetch", "sleep", "send", "exit"}]
    BY <1>5, Zenon DEF TypeOK
  <2> QED BY <1>1, <1>2, <1>4, <2>1 DEF TypeOK, coVars, writerVars
<1>12. Queued' /\ Apart'
  BY <1>1, <1>8, <1>10, Zenon DEF Queued, Apart, coVars, writerVars
<1>13. Covered'
  <2> SUFFICES ASSUME NEW n \in (lastBlock + 1)..(Taken - 1)
               PROVE  \E i \in Worker : hh[i] = n /\ (Held(i)' \/ (wpc'[i] = "exit" /\ Excused'))
    BY <1>1, <1>10, Zenon DEF Covered, writerVars
  <2>1. PICK i \in Worker : hh[i] = n /\ (Held(i) \/ (wpc[i] = "exit" /\ Excused))
    BY Zenon DEF Covered
  <2>2. CASE Held(i)
    BY <1>9, <2>1, <2>2, Zenon
  <2>3. CASE wpc[i] = "exit" /\ Excused
    BY <1>3, <1>6, <1>7, <2>1, <2>3, Zenon
  <2> QED BY <2>1, <2>2, <2>3, Zenon
<1>14. Ends'
  <2>1. \A i \in Worker : wpc'[i] = "exit" => Excused' \/ (hchClosed /\ hch = <<>>)
    BY <1>3, <1>5, <1>6, Zenon DEF Ends
  <2>2. co \notin {"drain", "writer", "returned"}
    BY <1>7 DEF Ends, WorkersDone
  <2> QED BY <1>1, <2>1, <2>2, Zenon DEF Ends, coVars, writerVars
<1> QED BY <1>1, <1>11, <1>12, <1>13, <1>14, Zenon DEF NeverSkips, writerVars

\* A block is handed over only when it is the one the writer expects.
LEMMA HandOverExact ==
  ASSUME IInv, NEW w \in Worker, HandOver(w)
  PROVE  hh[w] = lastBlock + 1
<1>1. lastBlock < hh[w] /\ hh[w] < Taken
  BY DEF IInv, HandOver, Apart, Held
<1>2. Taken - 1 <= lastBlock + Workers
  BY Narrow
<1>3. lastBlock + 1 \in Nat /\ hh[w] \in Nat /\ Workers \in Nat /\ Taken \in Int /\ lastBlock \in Int
  BY RoundAssumption DEF IInv, TypeOK, Height, Taken
<1>4. Channel(hh[w]) = Channel(lastBlock + 1)
  BY DEF HandOver
<1>5. lastBlock + 1 <= hh[w] /\ hh[w] < lastBlock + 1 + Workers
  BY <1>1, <1>2, <1>3
<1> QED BY <1>3, <1>4, <1>5, OneChannel, Zenon

\* The writer connects the block it is handed.
LEMMA HandOverIInv ==
  ASSUME IInv, NEW w \in Worker, HandOver(w)
  PROVE  IInv'
<1> USE DEF IInv
<1>1. hh[w] = lastBlock + 1 /\ wpc[w] = "send" /\ Held(w)
  BY HandOverExact, Zenon DEF HandOver, Held
<1>2. lastBlock' = lastBlock + 1 /\ UNCHANGED writer
  BY <1>1, Zenon DEF HandOver
<1>3. UNCHANGED <<coVars, abortCh, hh, envVars>>
  BY DEF HandOver
<1>4. wpc' = [wpc EXCEPT ![w] = "recv"]
  BY DEF HandOver, Goto
<1>5. wpc'[w] = "recv" /\ \A i \in Worker : i # w => wpc'[i] = wpc[i]
  BY <1>4, Zenon DEF TypeOK
<1>6. ~Held(w)' /\ \A i \in Worker : i # w => Held(i)' = Held(i)
  BY <1>5, Zenon DEF Held
<1>7. Taken' = Taken /\ Taken \in Int /\ lastBlock \in Int /\ \A i \in Worker : hh[i] \in Int
  BY <1>3, RoundAssumption DEF Taken, TypeOK, Height, coVars
<1>8. lastBlock < hh[w] /\ hh[w] < Taken
  BY <1>1, Zenon DEF Apart
<1>9. TypeOK'
  <2>1. wpc' \in [Worker -> {"recv", "fetch", "sleep", "send", "exit"}]
    BY <1>4, Zenon DEF TypeOK
  <2>2. lastBlock' \in (Lower - 1)..Higher
    <3>1. hh[w] \in Height
      BY Zenon DEF TypeOK
    <3> QED BY <1>1, <1>2, <1>7, <3>1, RoundAssumption DEF Height, TypeOK
  <2> QED BY <1>2, <1>3, <2>1, <2>2 DEF TypeOK, coVars, envVars
<1>10. Queued'
  BY <1>1, <1>2, <1>3, <1>7, <1>8, Zenon DEF Queued, coVars
<1>11. Apart'
  <2>1. ASSUME NEW i \in Worker, Held(i)' PROVE lastBlock' < hh'[i] /\ hh'[i] < Taken'
    <3>1. i # w /\ Held(i)
      BY <1>6, <2>1, Zenon
    <3>2. hh[i] # hh[w]
      BY <1>1, <3>1 DEF Apart
    <3>3. lastBlock < hh[i] /\ hh[i] < Taken
      BY <3>1 DEF Apart
    <3> QED BY <1>1, <1>2, <1>3, <1>7, <3>2, <3>3
  <2>2. ASSUME NEW i \in Worker, NEW j \in Worker, Held(i)', Held(j)', hh'[i] = hh'[j] PROVE i = j
    BY <1>3, <1>6, <2>2, Zenon DEF Apart
  <2> QED BY <2>1, <2>2 DEF Apart
<1>12. Covered'
  <2> SUFFICES ASSUME NEW n \in (lastBlock + 2)..(Taken - 1)
               PROVE  \E i \in Worker : hh[i] = n /\ (Held(i)' \/ (wpc'[i] = "exit" /\ Excused))
    BY <1>2, <1>3, <1>7 DEF Covered, Excused, coVars, envVars
  <2>1. n \in (lastBlock + 1)..(Taken - 1) /\ n # hh[w]
    BY <1>1, <1>7
  <2>2. PICK i \in Worker : hh[i] = n /\ (Held(i) \/ (wpc[i] = "exit" /\ Excused))
    BY <2>1, Zenon DEF Covered
  <2> QED BY <1>5, <1>6, <2>1, <2>2, Zenon
<1>13. Ends'
  <2>1. \A i \in Worker : wpc'[i] = "exit" => wpc[i] = "exit"
    BY <1>5, Zenon
  <2>2. co \notin {"drain", "writer", "returned"}
    BY <1>1 DEF Ends, WorkersDone
  <2> QED BY <1>3, <2>1, <2>2 DEF Ends, Excused, coVars, envVars
<1> QED BY <1>2, <1>9, <1>10, <1>11, <1>12, <1>13, Zenon DEF NeverSkips

\* The writer stops.
LEMMA WriterIInv ==
  ASSUME IInv, WriterDone
  PROVE  IInv'
<1> USE DEF IInv
<1>1. UNCHANGED <<coVars, abortCh, workerVars, lastBlock, envVars>> /\ writer = "run" /\ writer' = "done"
  BY DEF WriterDone
<1>2. Excused' = Excused
  BY <1>1 DEF Excused, coVars, envVars
<1>3. Queued' /\ Apart' /\ Covered'
  BY <1>1, <1>2, Still, Zenon DEF coVars, workerVars
<1>4. TypeOK' /\ NeverSkips'
  BY <1>1 DEF TypeOK, NeverSkips, coVars, workerVars, envVars
<1>5. Ends'
  BY <1>1, <1>2 DEF Ends, WorkersDone, coVars, workerVars
<1> QED BY <1>3, <1>4, <1>5

\* Every step of a round keeps the invariant.
LEMMA NextIInv == IInv /\ [Next]_vars => IInv'
<1> SUFFICES ASSUME IInv, [Next]_vars PROVE IInv'
  OBVIOUS
<1>1. CASE Reorg \/ Signal
  BY <1>1, EnvironmentIInv
<1>2. CASE Coordinator
  <2>1. CASE CoSend BY <2>1, SendIInv
  <2>2. CASE ~CoSend BY <1>2, <2>2, CoordinatorIInv, Zenon
  <2> QED BY <2>1, <2>2
<1>3. CASE WriterDone
  BY <1>3, WriterIInv
<1>4. CASE UNCHANGED vars
  <2>1. UNCHANGED <<coVars, abortCh, workerVars, writerVars, envVars>>
    BY <1>4 DEF vars
  <2>2. Excused' = Excused
    BY <2>1 DEF Excused, coVars, envVars
  <2>3. Queued' /\ Apart' /\ Covered'
    BY <2>1, <2>2, Still, Zenon DEF IInv, coVars, workerVars, writerVars
  <2>4. TypeOK' /\ NeverSkips'
    BY <2>1 DEF IInv, TypeOK, NeverSkips, coVars, workerVars, writerVars, envVars
  <2>5. Ends'
    BY <2>1, <2>2 DEF IInv, Ends, WorkersDone, coVars, workerVars, writerVars
  <2> QED BY <2>3, <2>4, <2>5 DEF IInv
<1>5. ASSUME NEW w \in Worker, WorkerStep(w) PROVE IInv'
  BY <1>5, ReceiveIInv, FetchIInv, HandOverIInv DEF WorkerStep
<1> QED BY <1>1, <1>2, <1>3, <1>4, <1>5 DEF Next, Returned

-----------------------------------------------------------------------------
\* When the coordinator is about to return nil and the process is not stopping, every
\* block of the range is connected.
LEMMA NilMeansAll ==
  ASSUME IInv, co = "writer", err = "none", ~signal
  PROVE  lastBlock = Higher
<1> USE DEF IInv
<1>1. ~Excused /\ WorkersDone /\ h = Higher + 1
  BY DEF Ends, Excused
<1>2. 0 \in Worker
  BY RoundAssumption DEF Worker
<1>3. wpc[0] = "exit"
  BY <1>1, <1>2 DEF WorkersDone
<1>4. hch = <<>>
  BY <1>1, <1>2, <1>3 DEF Ends
<1>5. Taken = Higher + 1
  BY <1>1, <1>4, RoundAssumption DEF Taken
<1>6. \A i \in Worker : ~Held(i)
  BY <1>1 DEF WorkersDone, Held
<1>7. (lastBlock + 1)..(Taken - 1) = {}
  BY <1>1, <1>6, Zenon DEF Covered
<1>8. lastBlock \in Int /\ lastBlock < Higher + 1
  BY <1>5, RoundAssumption DEF TypeOK, Queued
<1>9. lastBlock + 1 \notin (lastBlock + 1)..Higher
  BY <1>5, <1>7, <1>8, RoundAssumption
<1> QED BY <1>8, <1>9, RoundAssumption

\* A step of the goroutines connects the next block, returns, closes chanOsSignal, or
\* is none that a caller sees.
LEMMA StepRefines ==
  ASSUME IInv, [Next]_vars
  PROVE  [Promise!RangeNext]_Promise!rangeVars
<1> USE DEF IInv
<1>1. CASE Signal
  BY <1>1 DEF Signal, Promise!RangeNext, Promise!Stop, coVars, writerVars
<1>2. CASE CoReturn
  <2>1. co = "writer" /\ co' = "returned" /\ UNCHANGED <<err, lastBlock, signal>>
    BY <1>2 DEF CoReturn, writerVars, envVars
  <2>2. CASE err = "none"
    <3>1. lastBlock = Higher \/ signal
      BY <2>1, <2>2, NilMeansAll DEF TypeOK
    <3> QED BY <2>1, <2>2, <3>1, Zenon DEF Promise!RangeNext, Promise!Return
  <2>3. CASE err # "none"
    <3>1. err \in Promise!Errors
      BY <2>3 DEF TypeOK, Promise!Errors
    <3> QED BY <2>1, <2>3, <3>1, Zenon DEF Promise!RangeNext, Promise!Return
  <2> QED BY <2>2, <2>3
<1>3. ASSUME NEW w \in Worker, HandOver(w) PROVE Promise!RangeNext
  <2>1. hh[w] = lastBlock + 1 /\ hh[w] \in Height
    BY <1>3, HandOverExact, Zenon DEF TypeOK
  <2>2. lastBlock' = lastBlock + 1 /\ UNCHANGED <<co, err, signal>>
    BY <1>3, <2>1, Zenon DEF HandOver, coVars, envVars
  <2>3. co # "returned"
    BY <1>3 DEF HandOver, Ends
  <2>4. lastBlock < Higher
    BY <2>1, RoundAssumption DEF Height, TypeOK
  <2> QED BY <2>2, <2>3, <2>4, Zenon DEF Promise!RangeNext, Promise!Connect
<1>4. CASE Coordinator /\ ~CoReturn
  <2>1. UNCHANGED <<lastBlock, signal>> /\ co # "returned" /\ co' # "returned"
    BY <1>4 DEF Coordinator, CoAbort, CoInterrupted, CoHash, CoHashError, CoSend, CoCloseHch,
      CoStoreTail, CoWorkersDone, CoWaitAbort, CoDrain, coVars, writerVars, envVars
  <2> QED BY <2>1, Zenon DEF Promise!rangeVars
<1>5. CASE Reorg \/ WriterDone \/ UNCHANGED vars
  <2>1. UNCHANGED <<lastBlock, signal, co, err>>
    BY <1>5 DEF Reorg, WriterDone, vars, coVars, writerVars, envVars
  <2> QED BY <2>1 DEF Promise!rangeVars
<1>6. ASSUME NEW w \in Worker, WorkerStep(w), ~HandOver(w) PROVE UNCHANGED Promise!rangeVars
  <2>1. UNCHANGED <<lastBlock, signal, co, err>>
    BY <1>6 DEF WorkerStep, Receive, ReceiveClosed, WorkerStop, GetBlock, GetBlockMiss, Wake,
      GetBlockResync, GetBlockError, SendStop, coVars, writerVars, envVars
  <2> QED BY <2>1, Zenon DEF Promise!rangeVars
<1> QED BY <1>1, <1>2, <1>3, <1>4, <1>5, <1>6, Zenon DEF Next, WorkerStep, Returned

\* The writer of a bulk or parallel round never meets a block it did not expect
\* ("writeBlockWorker skipped block", glog.Fatal at db/sync.go:690 and 944), for every
\* number of workers and whatever fails, leaves the chain or is stopped.
THEOREM NeverSkipsCorrect == Spec => []NeverSkips
<1>1. IInv => NeverSkips
  BY DEF IInv
<1> QED BY <1>1, InitIInv, NextIInv, PTL DEF Spec

\* The coordinator, the workers and the writer of BulkConnectBlocks and
\* ParallelConnectBlocks keep the promise resyncIndex relies on: blocks are connected one
\* after the other, and nil is returned only when all of them are, or when the process
\* is stopping.
THEOREM ImplementsRangeCorrect == Spec => ImplementsRange
<1>1. Init => Promise!RangeInit
  BY DEF Init, Promise!RangeInit
<1>2. IInv /\ [Next]_vars => [Promise!RangeNext]_Promise!rangeVars
  BY StepRefines
<1> QED BY <1>1, <1>2, InitIInv, NextIInv, PTL DEF Spec, ImplementsRange, Promise!RangeSpec
=============================================================================
