------------------------------ MODULE Lifecycle ------------------------------
(***************************************************************************)
(* The goroutines of the running process and its end (blockbook.go, and    *)
(* TickAndDebounce of common/utils.go): the loops that resync the index,   *)
(* resync the mempool and store the internal state, the healing loop, the  *)
(* computation of the column statistics, the notifications of the backend, *)
(* and the shutdown that joins the loops before the database is closed.    *)
(***************************************************************************)
EXTENDS Naturals

VARIABLES
  inShutdown,   \* common.IsInShutdown
  signal,       \* chanOsSignal: "open" or "closed"
  main,         \* where the main goroutine is
  chan,         \* the trigger channels of the loops: [full, closed]
  loop,         \* the loops: [pc, wait, window]
  heal,         \* healInternalDataLoop: "select", "work", "done"
  compute,      \* the goroutine of ComputeInternalStateColumnStats: "idle", "work"
  pusher,       \* pushSynchronizationHandler for a channel: "idle", "send"
  db            \* "open" or "closed"

lifeVars == <<inShutdown, signal, main, chan, loop, heal, compute, pusher, db>>

Loop == {"index", "mempool", "state"}
Pushed == {"index", "mempool"}      \* the channels the backend's notifications go to

\* wait: the timer has not expired; window: no trigger since the last call, or the
\* debounce time since the first one is not over, or is over.
Waiting == [pc |-> "select", wait |-> TRUE, window |-> "none"]

LifeInit ==
  /\ inShutdown = FALSE /\ signal = "open" /\ main = "wait"
  /\ chan = [c \in Loop |-> [full |-> FALSE, closed |-> FALSE]]
  /\ loop = [c \in Loop |-> Waiting]
  /\ heal = "select" /\ compute = "idle"
  /\ pusher = [c \in Pushed |-> "idle"]
  /\ db = "open"

Alive == main # "exit"

-----------------------------------------------------------------------------
\* TickAndDebounce: one turn of its loop is a trigger or the timer.

\* The tick or debounce time passes.
Elapse(c) ==
  /\ Alive /\ loop[c].pc = "select" /\ loop[c].wait
  /\ loop' = [loop EXCEPT ![c].wait = FALSE,
                          ![c].window = IF @ = "open" THEN "over" ELSE @]
  /\ UNCHANGED <<inShutdown, signal, main, chan, heal, compute, pusher, db>>

\* Mutant: every trigger starts the debounce time again.
MutTrigger(c) ==
  /\ Alive /\ loop[c].pc = "select" /\ chan[c].full
  /\ chan' = [chan EXCEPT ![c].full = FALSE]
  /\ loop' = [loop EXCEPT ![c].wait = TRUE, ![c].window = "open"]
  /\ UNCHANGED <<inShutdown, signal, main, heal, compute, pusher, db>>

Trigger(c) ==
  /\ Alive /\ loop[c].pc = "select" /\ chan[c].full
  /\ chan' = [chan EXCEPT ![c].full = FALSE]
  /\ loop' = [loop EXCEPT ![c].wait = loop[c].window # "over",
                          ![c].window = IF @ = "none" THEN "open" ELSE @]
  /\ UNCHANGED <<inShutdown, signal, main, heal, compute, pusher, db>>

\* A closed channel ends the loop after what it still holds.
LoopClosed(c) ==
  /\ Alive /\ loop[c].pc = "select" /\ chan[c].closed /\ ~chan[c].full
  /\ loop' = [loop EXCEPT ![c].pc = "done"]
  /\ UNCHANGED <<inShutdown, signal, main, chan, heal, compute, pusher, db>>

\* The loop of the internal state may start the computation of the statistics.
Expired(c) ==
  /\ Alive /\ loop[c].pc = "select" /\ ~loop[c].wait
  /\ IF inShutdown THEN loop' = [loop EXCEPT ![c] = Waiting] /\ UNCHANGED compute
     ELSE /\ loop' = [loop EXCEPT ![c].pc = "work"]
          /\ compute' \in IF c = "state" THEN {compute, "work"} ELSE {compute}
  /\ UNCHANGED <<inShutdown, signal, main, chan, heal, pusher, db>>

\* ResyncIndex, mempool.Resync or StoreInternalState is done.
Work(c) ==
  /\ Alive /\ loop[c].pc \in {"work", "retry"}
  /\ loop' = [loop EXCEPT ![c] = Waiting]
  /\ UNCHANGED <<inShutdown, signal, main, chan, heal, compute, pusher, db>>

\* syncIndexLoop tries an error once more.
ResyncIndexError ==
  /\ Alive /\ loop["index"].pc = "work" /\ ~inShutdown
  /\ loop' = [loop EXCEPT !["index"].pc = "retry"]
  /\ UNCHANGED <<inShutdown, signal, main, chan, heal, compute, pusher, db>>

-----------------------------------------------------------------------------
\* healInternalDataLoop, and the goroutine that computes the statistics.

HealTimer ==
  /\ Alive /\ heal = "select"
  /\ heal' = IF inShutdown THEN "done" ELSE "work"
  /\ UNCHANGED <<inShutdown, signal, main, chan, loop, compute, pusher, db>>

HealStop ==
  /\ Alive /\ heal = "select" /\ signal = "closed"
  /\ heal' = "done"
  /\ UNCHANGED <<inShutdown, signal, main, chan, loop, compute, pusher, db>>

HealInternalData ==
  /\ Alive /\ heal = "work" /\ heal' = "select"
  /\ UNCHANGED <<inShutdown, signal, main, chan, loop, compute, pusher, db>>

\* It ends by itself or when it meets the closed chanOsSignal.
ComputeInternalStateColumnStats ==
  /\ Alive /\ compute = "work" /\ compute' = "idle"
  /\ UNCHANGED <<inShutdown, signal, main, chan, loop, heal, pusher, db>>

-----------------------------------------------------------------------------
\* pushSynchronizationHandler looks at the shutdown state, then sends.

PushCheck(c) ==
  /\ Alive /\ pusher[c] = "idle" /\ ~inShutdown
  /\ pusher' = [pusher EXCEPT ![c] = "send"]
  /\ UNCHANGED <<inShutdown, signal, main, chan, loop, heal, compute, db>>

\* The send does not block; to send to a closed channel is a panic.
PushSend(c) ==
  /\ Alive /\ pusher[c] = "send"
  /\ pusher' = [pusher EXCEPT ![c] = "idle"]
  /\ IF chan[c].closed THEN main' = "exit" /\ UNCHANGED chan
     ELSE chan' = [chan EXCEPT ![c].full = TRUE] /\ UNCHANGED main
  /\ UNCHANGED <<inShutdown, signal, loop, heal, compute, db>>

-----------------------------------------------------------------------------
\* The end of the process.

Signal ==
  /\ Alive /\ signal = "open"
  /\ inShutdown' = TRUE /\ signal' = "closed"
  /\ UNCHANGED <<main, chan, loop, heal, compute, pusher, db>>

Main(from, to) == main = from /\ main' = to

Others == UNCHANGED <<inShutdown, signal, loop, heal, compute, pusher>>

\* The servers and the connection to the backend have a bounded time to end.
waitForSignalAndShutdown ==
  /\ Main("wait", "close") /\ signal = "closed"
  /\ Others /\ UNCHANGED <<chan, db>>

\* Mutant: the channel of the mempool loop is not closed.
MutCloseChannels ==
  /\ Main("close", "join")
  /\ chan' = [c \in Loop |-> [chan[c] EXCEPT !.closed = c # "mempool"]]
  /\ Others /\ UNCHANGED db

CloseChannels ==
  /\ Main("close", "join")
  /\ chan' = [c \in Loop |-> [chan[c] EXCEPT !.closed = TRUE]]
  /\ Others /\ UNCHANGED db

\* Mutant: the healing loop is not joined.
MutJoinLoops ==
  /\ Main("join", "db")
  /\ \A c \in Loop : loop[c].pc = "done"
  /\ Others /\ UNCHANGED <<chan, db>>

JoinLoops ==
  /\ Main("join", "db")
  /\ heal = "done" /\ \A c \in Loop : loop[c].pc = "done"
  /\ Others /\ UNCHANGED <<chan, db>>

CloseDB ==
  /\ Main("db", "exiting") /\ db' = "closed"
  /\ Others /\ UNCHANGED chan

Exit ==
  /\ Main("exiting", "exit")
  /\ Others /\ UNCHANGED <<chan, db>>

-----------------------------------------------------------------------------
MainStep == waitForSignalAndShutdown \/ CloseChannels \/ JoinLoops \/ CloseDB \/ Exit

\* The timer and the function it calls: one of these is always possible.
TimerStep(c) == Elapse(c) \/ Expired(c) \/ Work(c)

Heal == HealTimer \/ HealStop \/ HealInternalData

LifeNext ==
  \/ \E c \in Loop : TimerStep(c) \/ Trigger(c) \/ LoopClosed(c)
  \/ ResyncIndexError \/ Heal \/ ComputeInternalStateColumnStats
  \/ \E c \in Pushed : PushCheck(c) \/ PushSend(c)
  \/ Signal \/ MainStep

\* Every goroutine goes on; select takes a ready case again and again. Nothing has
\* to send a notification or a signal, and compute may take as long as it likes.
LifeFairness ==
  /\ WF_lifeVars(MainStep) /\ WF_lifeVars(HealStop) /\ WF_lifeVars(HealInternalData)
  /\ \A c \in Loop : WF_lifeVars(TimerStep(c)) /\ WF_lifeVars(Trigger(c)) /\ WF_lifeVars(LoopClosed(c))

LifeSpec == LifeInit /\ [][LifeNext]_lifeVars /\ LifeFairness

-----------------------------------------------------------------------------
\* The values the variables take; a send leaves one notification at most.
LifeTypeOK ==
  /\ main \in {"wait", "close", "join", "db", "exiting", "exit"}
  /\ chan \in [Loop -> [full : BOOLEAN, closed : BOOLEAN]]
  /\ loop \in [Loop -> [pc : {"select", "work", "retry", "done"}, wait : BOOLEAN,
                        window : {"none", "open", "over"}]]
  /\ signal = "closed" <=> inShutdown
  /\ main # "wait" => inShutdown

\* No loop works with the database once it is closed: "a healing pass writes to
\* rocksdb from its own goroutine, so it has to be joined here, before the deferred
\* index.Close destroys the column family handles".
LoopsJoined ==
  db = "closed" => heal = "done" /\ \A c \in Loop : loop[c].pc = "done"

\* A notification is owed a call of the loop's function until the loop makes it.
Owed(c) == chan[c].full \/ loop[c].window # "none"
Calls(c) == loop[c].pc \in {"work", "retry"}

\* A notification leads to a call of the loop's function, however many follow it
\* (TickAndDebounce waits "for up to debounceTime period, afterwards execute
\* immediately"): only a call clears it, and none stays owed for ever.
Served ==
  /\ [][\A c \in Pushed : Owed(c) /\ ~Owed(c)' => Calls(c) \/ inShutdown]_lifeVars
  /\ \A c \in Pushed : []<>(Owed(c) => Calls(c) \/ inShutdown \/ ~Alive)

\* A signal ends the process: no loop keeps the main goroutine waiting. (The signal is
\* received once and the end of the process is final.)
Terminates == []<>(signal = "closed" => ~Alive)
=============================================================================
