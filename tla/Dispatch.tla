------------------------------ MODULE Dispatch ------------------------------
(***************************************************************************)
(* The bounded worker pool between the debouncer and the orchestrator      *)
(* (internal/application/dispatch/pool.go).                                *)
(*                                                                         *)
(* A job is one turn handed to Enqueue by one debouncer callback, so jobs  *)
(* double as the identity of the goroutine that enqueues them.  Go's two   *)
(* separate select statements in Enqueue are two steps here: the test of   *)
(* the done channel and the non-blocking send are not atomic, and Stop and *)
(* the workers may run in between.                                         *)
(***************************************************************************)
EXTENDS Integers, Sequences, FiniteSets

CONSTANTS Jobs,       \* turns that some debouncer callback will enqueue
          Workers,    \* cfg.Workers goroutines
          QueueSize,  \* cfg.QueueSize, the capacity of the queue channel
          NoJob       \* a worker that is not running a handler

ASSUME QueueSizeAssumption == QueueSize \in Nat \ {0}
ASSUME NoJobAssumption == NoJob \notin Jobs
ASSUME WorkersAssumption == Workers # {}

VARIABLES enq,      \* job -> where its Enqueue call is
          queue,    \* the buffered channel
          done,     \* the done channel is closed
          wpc,      \* worker -> where its goroutine is
          running,  \* worker -> the job its handler is working on
          finished, \* jobs whose handler returned
          late,     \* history: jobs sent on the queue after close(done)
          stop      \* where the Stop call is

vars == <<enq, queue, done, wpc, running, finished, late, stop>>

EnqStates == {"idle", "checked", "accepted", "rejected"}
WorkerStates == {"new", "select", "drain", "exited"}
StopStates == {"no", "waiting", "finished", "timeout"}

InQueue == {queue[i] : i \in 1..Len(queue)}
Running == {running[w] : w \in Workers} \ {NoJob}

Init ==
    /\ enq = [j \in Jobs |-> "idle"]
    /\ queue = <<>>
    /\ done = FALSE
    /\ wpc = [w \in Workers |-> "new"]
    /\ running = [w \in Workers |-> NoJob]
    /\ finished = {}
    /\ late = {}
    /\ stop = "no"

(***************************************************************************)
(* Start spawns every worker; the application calls it once, before the    *)
(* first Enqueue.                                                          *)
(***************************************************************************)
Started == \A w \in Workers : wpc[w] # "new"

Start ==
    /\ ~Started
    /\ wpc' = [w \in Workers |-> "select"]
    /\ UNCHANGED <<enq, queue, done, running, finished, late, stop>>

(***************************************************************************)
(* Enqueue, first select: give up when done is closed, fall through        *)
(* otherwise.                                                              *)
(***************************************************************************)
EnqueueStopping(j) ==
    /\ Started
    /\ enq[j] = "idle"
    /\ done
    /\ enq' = [enq EXCEPT ![j] = "rejected"]
    /\ UNCHANGED <<queue, done, wpc, running, finished, late, stop>>

EnqueueCheck(j) ==
    /\ Started
    /\ enq[j] = "idle"
    /\ ~done
    /\ enq' = [enq EXCEPT ![j] = "checked"]
    /\ UNCHANGED <<queue, done, wpc, running, finished, late, stop>>

(***************************************************************************)
(* Enqueue, second select: send when there is room, else drop.  The done   *)
(* channel is not looked at again.                                         *)
(***************************************************************************)
\* Mutant: the send ignores the capacity of the channel.
EnqueueSendUnbounded(j) ==
    /\ enq[j] = "checked"
    /\ queue' = Append(queue, j)
    /\ enq' = [enq EXCEPT ![j] = "accepted"]
    /\ late' = IF done THEN late \cup {j} ELSE late
    /\ UNCHANGED <<done, wpc, running, finished, stop>>

EnqueueSend(j) ==
    /\ enq[j] = "checked"
    /\ Len(queue) < QueueSize
    /\ queue' = Append(queue, j)
    /\ enq' = [enq EXCEPT ![j] = "accepted"]
    /\ late' = IF done THEN late \cup {j} ELSE late
    /\ UNCHANGED <<done, wpc, running, finished, stop>>

EnqueueFull(j) ==
    /\ enq[j] = "checked"
    /\ Len(queue) >= QueueSize
    /\ enq' = [enq EXCEPT ![j] = "rejected"]
    /\ UNCHANGED <<queue, done, wpc, running, finished, late, stop>>

(***************************************************************************)
(* Stop closes done once, then waits for the workers or for its context.   *)
(***************************************************************************)
StopClose ==
    /\ Started
    /\ stop = "no"
    /\ done' = TRUE
    /\ stop' = "waiting"
    /\ UNCHANGED <<enq, queue, wpc, running, finished, late>>

StopFinished ==
    /\ stop = "waiting"
    /\ \A w \in Workers : wpc[w] = "exited"
    /\ stop' = "finished"
    /\ UNCHANGED <<enq, queue, done, wpc, running, finished, late>>

StopTimeout ==
    /\ stop = "waiting"
    /\ stop' = "timeout"
    /\ UNCHANGED <<enq, queue, done, wpc, running, finished, late>>

(***************************************************************************)
(* A worker's select: when done is closed and a job is waiting, Go picks   *)
(* either branch, so both actions may be enabled at once.                  *)
(***************************************************************************)
\* Mutant: the worker returns on done without draining.
WorkerDoneNoDrain(w) ==
    /\ wpc[w] = "select"
    /\ running[w] = NoJob
    /\ done
    /\ wpc' = [wpc EXCEPT ![w] = "exited"]
    /\ UNCHANGED <<enq, queue, done, running, finished, late, stop>>

WorkerDone(w) ==
    /\ wpc[w] = "select"
    /\ running[w] = NoJob
    /\ done
    /\ wpc' = [wpc EXCEPT ![w] = "drain"]
    /\ UNCHANGED <<enq, queue, done, running, finished, late, stop>>

(* The receive of the main loop and of drainRemaining; run(j) begins.      *)
\* Mutant: the receive leaves the job on the queue for the next worker.
WorkerTakeKeeps(w) ==
    /\ wpc[w] \in {"select", "drain"}
    /\ running[w] = NoJob
    /\ queue # <<>>
    /\ running' = [running EXCEPT ![w] = Head(queue)]
    /\ UNCHANGED <<enq, queue, done, wpc, finished, late, stop>>

WorkerTake(w) ==
    /\ wpc[w] \in {"select", "drain"}
    /\ running[w] = NoJob
    /\ queue # <<>>
    /\ running' = [running EXCEPT ![w] = Head(queue)]
    /\ queue' = Tail(queue)
    /\ UNCHANGED <<enq, done, wpc, finished, late, stop>>

(* The handler returns.                                                    *)
WorkerFinish(w) ==
    /\ running[w] # NoJob
    /\ finished' = finished \cup {running[w]}
    /\ running' = [running EXCEPT ![w] = NoJob]
    /\ UNCHANGED <<enq, queue, done, wpc, late, stop>>

(* drainRemaining sees an empty queue: the worker's goroutine ends.        *)
WorkerExit(w) ==
    /\ wpc[w] = "drain"
    /\ running[w] = NoJob
    /\ queue = <<>>
    /\ wpc' = [wpc EXCEPT ![w] = "exited"]
    /\ UNCHANGED <<enq, queue, done, running, finished, late, stop>>

Enqueue(j) ==
    \/ EnqueueStopping(j)
    \/ EnqueueCheck(j)
    \/ EnqueueSend(j)
    \/ EnqueueFull(j)

Worker(w) ==
    \/ WorkerDone(w)
    \/ WorkerTake(w)
    \/ WorkerFinish(w)
    \/ WorkerExit(w)

Next ==
    \/ Start
    \/ StopClose
    \/ StopFinished
    \/ StopTimeout
    \/ \E j \in Jobs : Enqueue(j)
    \/ \E w \in Workers : Worker(w)

Spec == Init /\ [][Next]_vars

(***************************************************************************)
(* Goroutines that can run do run, and a handler returns: every call it    *)
(* makes goes through an HTTP client with a timeout.  Nothing obliges      *)
(* anyone to call Stop, nor its context to expire.                         *)
(***************************************************************************)
Fairness ==
    /\ WF_vars(Start)
    /\ \A j \in Jobs : WF_vars(Enqueue(j))
    /\ \A w \in Workers : WF_vars(Worker(w))

FairSpec == Spec /\ Fairness

-----------------------------------------------------------------------------
(* Every variable holds a value of its type, the channel within its        *)
(* capacity.                                                               *)
TypeOK ==
    /\ enq \in [Jobs -> EnqStates]
    /\ queue \in Seq(Jobs)
    /\ Len(queue) \in 0..QueueSize
    /\ done \in BOOLEAN
    /\ wpc \in [Workers -> WorkerStates]
    /\ running \in [Workers -> Jobs \cup {NoJob}]
    /\ finished \in SUBSET Jobs
    /\ late \in SUBSET Jobs
    /\ stop \in StopStates

(* A job reaches the handler at most once and is never lost while a worker *)
(* lives: the accepted jobs are exactly those queued, running or finished, *)
(* these three places are disjoint, no job is queued twice and no two      *)
(* workers run the same job (Enqueue, worker, drainRemaining and run all   *)
(* race on one channel).                                                   *)
NoDuplicateInQueue ==
    \A i1, i2 \in 1..Len(queue) : queue[i1] = queue[i2] => i1 = i2

OneWorkerPerJob ==
    \A w1, w2 \in Workers :
        running[w1] = running[w2] /\ running[w1] # NoJob => w1 = w2

DisjointPlaces ==
    /\ InQueue \cap Running = {}
    /\ InQueue \cap finished = {}
    /\ Running \cap finished = {}

JobsConserved ==
    /\ {j \in Jobs : enq[j] = "accepted"} = InQueue \cup Running \cup finished
    /\ NoDuplicateInQueue
    /\ OneWorkerPerJob
    /\ DisjointPlaces

(* When Stop returns because every worker exited, every job that was on    *)
(* the queue when done was closed has been handled to the end: graceful    *)
(* shutdown drains what was pending at that instant.                       *)
DrainedWhenFinished ==
    stop = "finished" =>
        \A j \in Jobs : enq[j] = "accepted" /\ j \notin late => j \in finished

(* What makes DrainedWhenFinished inductive: done is closed exactly when   *)
(* Stop was called, only a closed done sends a worker to drainRemaining, a *)
(* worker that left has no job and found the queue without any job sent    *)
(* before the close, and Stop reports success after the last one left.     *)
ShutdownInv ==
    /\ done <=> stop # "no"
    /\ \A w \in Workers : wpc[w] \in {"drain", "exited"} => done
    /\ \A w \in Workers : wpc[w] = "exited" => running[w] = NoJob
    /\ (\E w \in Workers : wpc[w] = "exited") => InQueue \subseteq late
    /\ stop = "finished" => \A w \in Workers : wpc[w] = "exited"

(* The state of the pool: every goroutine at one of its program points,    *)
(* the channel within its capacity, and the shutdown as described.         *)
PoolInv == TypeOK /\ ShutdownInv

(* The pool implements TurnQueue: whatever the interleaving of its two     *)
(* selects, its workers, the drain and Stop, each of its steps is a step   *)
(* of a queue that refuses or accepts a turn, handles an accepted one      *)
(* exactly once and reports a drain only when none is left from before;    *)
(* and with fair goroutines it does handle them.                           *)
Status(j) ==
    IF j \in finished THEN "handled"
    ELSE IF j \in Running THEN "handling"
    ELSE IF j \in InQueue THEN "waiting"
    ELSE IF enq[j] = "rejected" THEN "refused"
    ELSE "new"

Report ==
    IF stop = "finished" THEN "drained"
    ELSE IF stop = "timeout" THEN "gaveUp"
    ELSE "none"

Abstract == INSTANCE TurnQueue
              WITH status <- [j \in Jobs |-> Status(j)], closed <- done, report <- Report

ImplementsTurnQueue == Abstract!FairSpec
=============================================================================
