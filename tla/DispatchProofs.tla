--------------------------- MODULE DispatchProofs ---------------------------
(***************************************************************************)
(* Proofs about the worker pool, for any set of jobs, any non-empty set of *)
(* workers and any queue capacity: the type invariant, conservation of     *)
(* jobs, what a graceful Stop guarantees, and that every step of the pool  *)
(* is a step of TurnQueue or leaves it alone.                              *)
(*                                                                         *)
(* Everything that the send and the receive do to the queue goes through   *)
(* the three lemmas on sequences below; the rest is a case split over Next. *)
(***************************************************************************)
EXTENDS Dispatch, TLAPS

Elements(q) == {q[i] : i \in 1..Len(q)}
Injective(q) == \A i1, i2 \in 1..Len(q) : q[i1] = q[i2] => i1 = i2

(* Appending a new element adds it to the elements and repeats none.       *)
LEMMA AppendElements ==
    ASSUME NEW S, NEW q \in Seq(S), NEW x \in S
    PROVE  /\ Append(q, x) \in Seq(S)
           /\ Len(Append(q, x)) = Len(q) + 1
           /\ Elements(Append(q, x)) = Elements(q) \cup {x}
           /\ Injective(q) /\ x \notin Elements(q) => Injective(Append(q, x))
<1>1. /\ Append(q, x) \in Seq(S)
      /\ Len(q) \in Nat
      /\ Len(Append(q, x)) = Len(q) + 1
      /\ Append(q, x)[Len(q) + 1] = x
      /\ \A i \in 1..Len(q) : Append(q, x)[i] = q[i]
  OBVIOUS
<1>2. Elements(Append(q, x)) = Elements(q) \cup {x}
  <2>1. ASSUME NEW y \in Elements(Append(q, x))
        PROVE  y \in Elements(q) \cup {x}
    <3>1. PICK i \in 1..(Len(q) + 1) : y = Append(q, x)[i]
      BY <1>1, <2>1 DEF Elements
    <3>2. CASE i = Len(q) + 1
      BY <1>1, <3>1, <3>2
    <3>3. CASE i \in 1..Len(q)
      BY <1>1, <3>1, <3>3 DEF Elements
    <3> QED
      BY <1>1, <3>1, <3>2, <3>3
  <2>2. ASSUME NEW y \in Elements(q)
        PROVE  y \in Elements(Append(q, x))
    <3>1. PICK i \in 1..Len(q) : y = q[i]
      BY <2>2 DEF Elements
    <3>2. i \in 1..Len(Append(q, x)) /\ y = Append(q, x)[i]
      BY <1>1, <3>1
    <3> QED
      BY <3>2 DEF Elements
  <2>3. x \in Elements(Append(q, x))
    <3>1. Len(q) + 1 \in 1..Len(Append(q, x))
      BY <1>1
    <3> QED
      BY <1>1, <3>1 DEF Elements
  <2> QED
    BY <2>1, <2>2, <2>3
<1>3. ASSUME Injective(q), x \notin Elements(q)
      PROVE  Injective(Append(q, x))
  <2>1. \A i \in 1..Len(q) : q[i] # x
    BY <1>3 DEF Elements
  <2> QED
    BY <1>1, <1>3, <2>1 DEF Injective
<1> QED
  BY <1>1, <1>2, <1>3

(* Taking the head of a sequence without repetitions removes exactly it.   *)
LEMMA TailElements ==
    ASSUME NEW S, NEW q \in Seq(S), q # <<>>, Injective(q)
    PROVE  /\ Head(q) \in S
           /\ Tail(q) \in Seq(S)
           /\ Len(Tail(q)) = Len(q) - 1
           /\ Head(q) \in Elements(q)
           /\ Elements(Tail(q)) = Elements(q) \ {Head(q)}
           /\ Injective(Tail(q))
<1>1. /\ Head(q) = q[1]
      /\ Tail(q) \in Seq(S)
      /\ Len(q) \in Nat \ {0}
      /\ Len(Tail(q)) = Len(q) - 1
      /\ \A i \in 1..(Len(q) - 1) : Tail(q)[i] = q[i + 1]
      /\ q[1] \in S
  OBVIOUS
<1>2. Head(q) \in Elements(q)
  BY <1>1 DEF Elements
<1>3. Injective(Tail(q))
  BY <1>1 DEF Injective
<1>4. Elements(Tail(q)) = Elements(q) \ {Head(q)}
  <2>1. ASSUME NEW y \in Elements(Tail(q))
        PROVE  y \in Elements(q) \ {Head(q)}
    <3>1. PICK i \in 1..(Len(q) - 1) : y = Tail(q)[i]
      BY <1>1, <2>1 DEF Elements
    <3>2. i + 1 \in 1..Len(q) /\ i + 1 # 1 /\ 1 \in 1..Len(q) /\ y = q[i + 1]
      BY <1>1, <3>1
    <3> QED
      BY <1>1, <3>2 DEF Elements, Injective
  <2>2. ASSUME NEW y \in Elements(q) \ {Head(q)}
        PROVE  y \in Elements(Tail(q))
    <3>1. PICK i \in 1..Len(q) : y = q[i]
      BY <2>2 DEF Elements
    <3>2. i - 1 \in 1..(Len(q) - 1) /\ y = Tail(q)[i - 1]
      BY <1>1, <2>2, <3>1
    <3> QED
      BY <1>1, <3>2 DEF Elements
  <2> QED
    BY <2>1, <2>2
<1> QED
  BY <1>1, <1>2, <1>3, <1>4

(* The set of queued jobs is the set of elements of the channel.           *)
LEMMA QueueIsElements ==
    /\ InQueue = Elements(queue)
    /\ NoDuplicateInQueue <=> Injective(queue)
  BY DEF InQueue, Elements, NoDuplicateInQueue, Injective

-----------------------------------------------------------------------------
(* The channel never holds more than its capacity and every goroutine is   *)
(* at one of its program points (Enqueue, Stop, worker, drainRemaining).   *)
THEOREM TypeCorrect == Spec => []TypeOK
<1>1. Init => TypeOK
  <2> SUFFICES ASSUME Init PROVE TypeOK
    OBVIOUS
  <2>1. queue \in Seq(Jobs) /\ Len(queue) \in 0..QueueSize
    BY QueueSizeAssumption DEF Init
  <2>2. enq \in [Jobs -> EnqStates]
    BY DEF Init, EnqStates
  <2>3. wpc \in [Workers -> WorkerStates] /\ running \in [Workers -> Jobs \cup {NoJob}]
    BY DEF Init, WorkerStates
  <2> QED
    BY <2>1, <2>2, <2>3 DEF Init, TypeOK, StopStates
<1>2. TypeOK /\ [Next]_vars => TypeOK'
  <2> SUFFICES ASSUME TypeOK, [Next]_vars PROVE TypeOK'
    OBVIOUS
  <2> USE DEF TypeOK, EnqStates, WorkerStates, StopStates
  <2>1. CASE Start
    BY <2>1 DEF Start
  <2>2. CASE StopClose
    BY <2>2 DEF StopClose
  <2>3. CASE StopFinished
    BY <2>3 DEF StopFinished
  <2>4. CASE StopTimeout
    BY <2>4 DEF StopTimeout
  <2>5. ASSUME NEW j \in Jobs, Enqueue(j) PROVE TypeOK'
    <3>1. CASE EnqueueStopping(j)
      BY <3>1 DEF EnqueueStopping
    <3>2. CASE EnqueueCheck(j)
      BY <3>2 DEF EnqueueCheck
    <3>3. CASE EnqueueSend(j)
      <4>1. queue' \in Seq(Jobs) /\ Len(queue') = Len(queue) + 1
        BY <3>3, AppendElements DEF EnqueueSend
      <4> QED
        BY <3>3, <4>1, QueueSizeAssumption DEF EnqueueSend
    <3>4. CASE EnqueueFull(j)
      BY <3>4 DEF EnqueueFull
    <3> QED
      BY <2>5, <3>1, <3>2, <3>3, <3>4 DEF Enqueue
  <2>6. ASSUME NEW w \in Workers, Worker(w) PROVE TypeOK'
    <3>1. CASE WorkerDone(w)
      BY <3>1 DEF WorkerDone
    <3>2. CASE WorkerTake(w)
      <4>1. /\ queue' \in Seq(Jobs)
            /\ Len(queue') = Len(queue) - 1
            /\ Len(queue) # 0
            /\ Head(queue) \in Jobs
        BY <3>2 DEF WorkerTake
      <4> QED
        BY <3>2, <4>1, QueueSizeAssumption DEF WorkerTake
    <3>3. CASE WorkerFinish(w)
      BY <3>3 DEF WorkerFinish
    <3>4. CASE WorkerExit(w)
      BY <3>4 DEF WorkerExit
    <3> QED
      BY <2>6, <3>1, <3>2, <3>3, <3>4 DEF Worker
  <2>7. CASE UNCHANGED vars
    BY <2>7 DEF vars
  <2> QED
    BY <2>1, <2>2, <2>3, <2>4, <2>5, <2>6, <2>7 DEF Next
<1> QED
  BY <1>1, <1>2, PTL DEF Spec

-----------------------------------------------------------------------------
(* The accepted jobs are those queued, running or finished, each in one of *)
(* these places and once: nothing that Enqueue accepted is lost or handled *)
(* twice, however sends, receives, Stop and draining interleave.           *)
THEOREM JobsAreConserved == Spec => []JobsConserved
<1> DEFINE Accepted == {j \in Jobs : enq[j] = "accepted"}
<1>1. Init => JobsConserved
  <2> SUFFICES ASSUME Init PROVE JobsConserved
    OBVIOUS
  <2>1. InQueue = {} /\ Running = {} /\ finished = {}
    BY DEF Init, InQueue, Running
  <2>2. Accepted = {}
    BY DEF Init
  <2>3. NoDuplicateInQueue /\ OneWorkerPerJob
    BY DEF Init, NoDuplicateInQueue, OneWorkerPerJob
  <2> QED
    BY <2>1, <2>2, <2>3 DEF JobsConserved, DisjointPlaces
<1>2. TypeOK /\ JobsConserved /\ [Next]_vars => JobsConserved'
  <2> SUFFICES ASSUME TypeOK, JobsConserved, [Next]_vars PROVE JobsConserved'
    OBVIOUS
  <2>1. ASSUME UNCHANGED <<queue, running, finished>>, Accepted' = Accepted
        PROVE  JobsConserved'
    BY <2>1 DEF JobsConserved, InQueue, Running, NoDuplicateInQueue,
                OneWorkerPerJob, DisjointPlaces
  <2>2. CASE Start \/ StopClose \/ StopFinished \/ StopTimeout \/ UNCHANGED vars
    BY <2>1, <2>2 DEF Start, StopClose, StopFinished, StopTimeout, vars
  <2>3. ASSUME NEW j \in Jobs, Enqueue(j) PROVE JobsConserved'
    <3>1. CASE EnqueueStopping(j) \/ EnqueueCheck(j) \/ EnqueueFull(j)
      <4>1. Accepted' = Accepted
        BY <3>1 DEF EnqueueStopping, EnqueueCheck, EnqueueFull, TypeOK
      <4> QED
        BY <2>1, <3>1, <4>1 DEF EnqueueStopping, EnqueueCheck, EnqueueFull
    <3>2. CASE EnqueueSend(j)
      <4>1. j \notin Accepted /\ Accepted' = Accepted \cup {j}
        BY <3>2 DEF EnqueueSend, TypeOK
      <4>2. j \notin InQueue \cup Running \cup finished
        BY <4>1 DEF JobsConserved
      <4>3. InQueue' = InQueue \cup {j} /\ NoDuplicateInQueue'
        <5>1. /\ Elements(Append(queue, j)) = Elements(queue) \cup {j}
              /\ Injective(Append(queue, j))
          BY <4>2, AppendElements, QueueIsElements DEF TypeOK, JobsConserved
        <5>2. queue' = Append(queue, j)
          BY <3>2 DEF EnqueueSend
        <5> QED
          BY <5>1, <5>2, QueueIsElements
             DEF InQueue, Elements, NoDuplicateInQueue, Injective
      <4>4. Running' = Running /\ finished' = finished /\ OneWorkerPerJob'
        BY <3>2 DEF EnqueueSend, Running, OneWorkerPerJob, JobsConserved
      <4> QED
        BY <4>1, <4>2, <4>3, <4>4 DEF JobsConserved, DisjointPlaces
    <3> QED
      BY <2>3, <3>1, <3>2 DEF Enqueue
  <2>4. ASSUME NEW w \in Workers, Worker(w) PROVE JobsConserved'
    <3>1. CASE WorkerDone(w) \/ WorkerExit(w)
      BY <2>1, <3>1 DEF WorkerDone, WorkerExit
    <3>2. CASE WorkerTake(w)
      <4> DEFINE h == Head(queue)
      <4>1. /\ h \in Jobs
            /\ h \in Elements(queue)
            /\ Elements(Tail(queue)) = Elements(queue) \ {h}
            /\ Injective(Tail(queue))
        BY <3>2, TailElements, QueueIsElements DEF WorkerTake, TypeOK, JobsConserved
      <4>2. InQueue' = InQueue \ {h} /\ h \in InQueue /\ NoDuplicateInQueue'
        <5>1. queue' = Tail(queue)
          BY <3>2 DEF WorkerTake
        <5>2. InQueue' = Elements(Tail(queue)) /\ InQueue = Elements(queue)
          BY <5>1 DEF InQueue, Elements
        <5>3. NoDuplicateInQueue'
          BY <4>1, <5>1 DEF NoDuplicateInQueue, Injective
        <5> QED
          BY <4>1, <5>2, <5>3
      <4>3. running' = [running EXCEPT ![w] = h] /\ running[w] = NoJob
        BY <3>2 DEF WorkerTake
      <4>4. Running' = Running \cup {h}
        BY <4>1, <4>3, NoJobAssumption DEF Running, TypeOK
      <4>5. h \notin Running /\ h \notin finished
        BY <4>2 DEF JobsConserved, DisjointPlaces
      <4>6. OneWorkerPerJob'
        <5>1. \A v \in Workers : running[v] # h
          BY <4>1, <4>5, NoJobAssumption DEF Running
        <5> QED
          BY <4>3, <5>1 DEF OneWorkerPerJob, JobsConserved, TypeOK
      <4>7. Accepted' = Accepted /\ finished' = finished
        BY <3>2 DEF WorkerTake
      <4> QED
        BY <4>2, <4>4, <4>5, <4>6, <4>7 DEF JobsConserved, DisjointPlaces
    <3>3. CASE WorkerFinish(w)
      <4> DEFINE r == running[w]
      <4>1. /\ r # NoJob /\ r \in Running
            /\ running' = [running EXCEPT ![w] = NoJob]
            /\ finished' = finished \cup {r}
        BY <3>3 DEF WorkerFinish, Running
      <4>2. \A v \in Workers : v # w => running[v] # r
        BY <4>1 DEF JobsConserved, OneWorkerPerJob
      <4>3. Running' = Running \ {r}
        BY <4>1, <4>2 DEF Running, TypeOK
      <4>4. InQueue' = InQueue /\ NoDuplicateInQueue' /\ Accepted' = Accepted
        BY <3>3 DEF WorkerFinish, InQueue, NoDuplicateInQueue, JobsConserved
      <4>5. OneWorkerPerJob'
        BY <4>1 DEF OneWorkerPerJob, JobsConserved, TypeOK
      <4> QED
        BY <4>1, <4>3, <4>4, <4>5 DEF JobsConserved, DisjointPlaces
    <3> QED
      BY <2>4, <3>1, <3>2, <3>3 DEF Worker
  <2> QED
    BY <2>2, <2>3, <2>4 DEF Next
<1> QED
  BY <1>1, <1>2, TypeCorrect, PTL DEF Spec

-----------------------------------------------------------------------------
(* The part of the inductive invariant that concerns Stop: a worker leaves *)
(* only when the queue holds nothing but jobs sent after close(done).      *)
THEOREM ShutdownInvariant == Spec => []ShutdownInv
<1>1. Init => ShutdownInv
  BY DEF Init, ShutdownInv
<1>2. TypeOK /\ ShutdownInv /\ [Next]_vars => ShutdownInv'
  <2> SUFFICES ASSUME TypeOK, ShutdownInv, [Next]_vars PROVE ShutdownInv'
    OBVIOUS
  <2> USE DEF ShutdownInv
  <2>1. CASE Start
    <3>1. \A w \in Workers : wpc'[w] = "select"
      BY <2>1 DEF Start
    <3>2. stop # "finished"
      BY <2>1 DEF Start, Started
    <3> QED
      BY <2>1, <3>1, <3>2 DEF Start
  <2>2. CASE StopClose
    BY <2>2 DEF StopClose, InQueue
  <2>3. CASE StopFinished
    BY <2>3 DEF StopFinished, InQueue
  <2>4. CASE StopTimeout
    BY <2>4 DEF StopTimeout, InQueue
  <2>5. ASSUME NEW j \in Jobs, Enqueue(j) PROVE ShutdownInv'
    <3>1. CASE EnqueueStopping(j) \/ EnqueueCheck(j) \/ EnqueueFull(j)
      BY <3>1 DEF EnqueueStopping, EnqueueCheck, EnqueueFull, InQueue
    <3>2. CASE EnqueueSend(j)
      <4>1. InQueue' = InQueue \cup {j}
        <5>1. Elements(Append(queue, j)) = Elements(queue) \cup {j}
          BY AppendElements DEF TypeOK
        <5> QED
          BY <3>2, <5>1 DEF EnqueueSend, InQueue, Elements
      <4>2. (\E w \in Workers : wpc'[w] = "exited") => InQueue' \subseteq late'
        BY <3>2, <4>1 DEF EnqueueSend
      <4> QED
        BY <3>2, <4>2 DEF EnqueueSend
    <3> QED
      BY <2>5, <3>1, <3>2 DEF Enqueue
  <2>6. ASSUME NEW w \in Workers, Worker(w) PROVE ShutdownInv'
    <3>1. CASE WorkerDone(w)
      BY <3>1 DEF WorkerDone, InQueue, TypeOK
    <3>2. CASE WorkerTake(w)
      <4>1. InQueue' \subseteq InQueue
        <5>1. /\ Len(queue) \in Nat /\ Len(Tail(queue)) = Len(queue) - 1
              /\ \A i \in 1..(Len(queue) - 1) : Tail(queue)[i] = queue[i + 1]
          BY <3>2 DEF WorkerTake, TypeOK
        <5> QED
          BY <3>2, <5>1 DEF WorkerTake, InQueue
      <4> QED
        BY <3>2, <4>1 DEF WorkerTake, TypeOK
    <3>3. CASE WorkerFinish(w)
      BY <3>3 DEF WorkerFinish, InQueue, TypeOK
    <3>4. CASE WorkerExit(w)
      <4>1. InQueue' = {}
        BY <3>4 DEF WorkerExit, InQueue
      <4> QED
        BY <3>4, <4>1 DEF WorkerExit, TypeOK
    <3> QED
      BY <2>6, <3>1, <3>2, <3>3, <3>4 DEF Worker
  <2>7. CASE UNCHANGED vars
    BY <2>7 DEF vars, InQueue
  <2> QED
    BY <2>1, <2>2, <2>3, <2>4, <2>5, <2>6, <2>7 DEF Next
<1> QED
  BY <1>1, <1>2, TypeCorrect, PTL DEF Spec

(* Both parts together: the program points of Enqueue, Stop and the        *)
(* workers, the capacity of the channel, and the state of the shutdown.    *)
THEOREM PoolInvariant == Spec => []PoolInv
  BY TypeCorrect, ShutdownInvariant, PTL DEF PoolInv

(* When Stop returns because every worker exited, every job accepted       *)
(* before done was closed has been handled to the end.                     *)
THEOREM StopDrains == Spec => []DrainedWhenFinished
<1>1. TypeOK /\ JobsConserved /\ ShutdownInv => DrainedWhenFinished
  <2> SUFFICES ASSUME TypeOK, JobsConserved, ShutdownInv, stop = "finished",
                      NEW j \in Jobs, enq[j] = "accepted", j \notin late
               PROVE  j \in finished
    BY DEF DrainedWhenFinished
  <2>1. \A w \in Workers : wpc[w] = "exited" /\ running[w] = NoJob
    BY DEF ShutdownInv
  <2>2. Running = {}
    BY <2>1 DEF Running
  <2>3. j \notin InQueue
    BY <2>1, WorkersAssumption DEF ShutdownInv
  <2> QED
    BY <2>2, <2>3 DEF JobsConserved
<1> QED
  BY <1>1, TypeCorrect, JobsAreConserved, ShutdownInvariant, PTL

-----------------------------------------------------------------------------
(* Where a job is decides its abstract status, because it is in one place. *)
LEMMA StatusOf ==
    ASSUME TypeOK, JobsConserved, NEW j \in Jobs
    PROVE  /\ j \in finished => Status(j) = "handled"
           /\ j \in Running => Status(j) = "handling"
           /\ j \in InQueue => Status(j) = "waiting"
           /\ enq[j] = "rejected" => Status(j) = "refused"
           /\ enq[j] \in {"idle", "checked"} => Status(j) = "new"
<1>1. j \in finished => j \notin Running /\ j \notin InQueue
  BY DEF JobsConserved, DisjointPlaces
<1>2. j \in Running => j \notin InQueue
  BY DEF JobsConserved, DisjointPlaces
<1>3. enq[j] # "accepted" => j \notin finished /\ j \notin Running /\ j \notin InQueue
  BY DEF JobsConserved
<1> QED
  BY <1>1, <1>2, <1>3 DEF Status

(* A step that leaves the queue, the workers' jobs, the finished jobs and  *)
(* the refusals alone leaves every status alone.                           *)
LEMMA StatusKept ==
    ASSUME UNCHANGED <<queue, running, finished>>,
           \A j \in Jobs : enq'[j] = "rejected" <=> enq[j] = "rejected"
    PROVE  [j \in Jobs |-> Status(j)]' = [j \in Jobs |-> Status(j)]
<1>1. InQueue' = InQueue /\ Running' = Running /\ finished' = finished
  BY DEF InQueue, Running
<1> QED
  BY <1>1 DEF Status

(* Every step of the pool is a step of TurnQueue or leaves it alone:       *)
(* Enqueue refuses or accepts, a receive takes a waiting turn, run ends    *)
(* one, and Stop reports a drain only when none is left from before.       *)
THEOREM PoolImplementsTurnQueue == Spec => Abstract!Spec
<1> DEFINE St == [j \in Jobs |-> Status(j)]
<1>1. Init => Abstract!Init
  <2> SUFFICES ASSUME Init PROVE Abstract!Init
    OBVIOUS
  <2>1. InQueue = {} /\ Running = {} /\ finished = {}
    BY DEF Init, InQueue, Running
  <2>2. \A j \in Jobs : Status(j) = "new"
    BY <2>1 DEF Init, Status
  <2> QED
    BY <2>2 DEF Init, Abstract!Init, Report
<1>2. /\ TypeOK /\ JobsConserved /\ ShutdownInv
      /\ [Next]_vars
      => [Abstract!Next]_(Abstract!vars)
  <2> SUFFICES ASSUME TypeOK, JobsConserved, ShutdownInv, [Next]_vars
               PROVE  Abstract!Next \/ UNCHANGED Abstract!vars
    OBVIOUS
  <2>1. ASSUME St' = St, UNCHANGED <<done, late, stop>>
        PROVE  UNCHANGED Abstract!vars
    BY <2>1 DEF Abstract!vars, Report
  <2>2. CASE Start \/ UNCHANGED vars
    BY <2>1, <2>2, StatusKept DEF Start, vars
  <2>3. CASE StopClose
    <3>1. St' = St
      BY <2>3, StatusKept DEF StopClose
    <3>2. stop = "no" /\ stop' = "waiting" /\ ~done /\ done' /\ late' = late
      BY <2>3 DEF StopClose, ShutdownInv
    <3>3. Report' = Report
      BY <3>2 DEF Report
    <3> QED
      BY <3>1, <3>2, <3>3 DEF Abstract!Close, Abstract!Next
  <2>4. CASE StopFinished
    <3>1. St' = St /\ late' = late /\ done' = done
      BY <2>4, StatusKept DEF StopFinished
    <3>2. stop = "waiting" /\ stop' = "finished" /\ done
      BY <2>4 DEF StopFinished, ShutdownInv
    <3>3. Report = "none" /\ Report' = "drained"
      BY <3>2 DEF Report
    <3>4. Running = {} /\ InQueue \subseteq late
      BY <2>4, WorkersAssumption DEF StopFinished, ShutdownInv, Running
    <3>5. \A j \in Jobs : Status(j) \in {"waiting", "handling"} => j \in late
      BY <3>4 DEF Status
    <3> QED
      BY <3>1, <3>2, <3>3, <3>5 DEF Abstract!Drained, Abstract!Next
  <2>5. CASE StopTimeout
    <3>1. St' = St /\ late' = late /\ done' = done
      BY <2>5, StatusKept DEF StopTimeout
    <3>2. stop = "waiting" /\ stop' = "timeout" /\ done
      BY <2>5 DEF StopTimeout, ShutdownInv
    <3>3. Report = "none" /\ Report' = "gaveUp"
      BY <3>2 DEF Report
    <3> QED
      BY <3>1, <3>2, <3>3 DEF Abstract!GaveUp, Abstract!Next
  <2>6. ASSUME NEW j \in Jobs, Enqueue(j) PROVE Abstract!Next \/ UNCHANGED Abstract!vars
    <3>1. CASE EnqueueCheck(j)
      <4>1. \A i \in Jobs : enq'[i] = "rejected" <=> enq[i] = "rejected"
        BY <3>1 DEF EnqueueCheck, TypeOK
      <4> QED
        BY <2>1, <3>1, <4>1, StatusKept DEF EnqueueCheck
    <3>2. CASE EnqueueStopping(j) \/ EnqueueFull(j)
      <4>1. /\ UNCHANGED <<queue, running, finished, done, late, stop>>
            /\ enq[j] \in {"idle", "checked"}
            /\ enq' = [enq EXCEPT ![j] = "rejected"]
        BY <3>2 DEF EnqueueStopping, EnqueueFull
      <4>2. Status(j) = "new"
        BY <4>1, StatusOf
      <4>3. InQueue' = InQueue /\ Running' = Running /\ finished' = finished
        BY <4>1 DEF InQueue, Running
      <4>4. Status(j)' = "refused"
        <5>1. j \notin InQueue /\ j \notin Running /\ j \notin finished /\ enq'[j] = "rejected"
          BY <4>1 DEF JobsConserved, TypeOK
        <5> QED
          BY <4>3, <5>1 DEF Status
      <4>5. \A i \in Jobs \ {j} : enq'[i] = enq[i]
        BY <4>1 DEF TypeOK
      <4>6. \A i \in Jobs \ {j} : Status(i)' = Status(i)
        BY <4>3, <4>5 DEF Status
      <4>7. Report' = Report
        BY <4>1 DEF Report
      <4> QED
        BY <4>1, <4>2, <4>4, <4>6, <4>7 DEF Abstract!Refuse, Abstract!Move, Abstract!Next
    <3>3. CASE EnqueueSend(j)
      <4>1. /\ UNCHANGED <<running, finished, done, stop>>
            /\ enq[j] = "checked"
            /\ enq' = [enq EXCEPT ![j] = "accepted"]
            /\ late' = IF done THEN late \cup {j} ELSE late
            /\ queue' = Append(queue, j)
        BY <3>3 DEF EnqueueSend
      <4>2. Status(j) = "new"
        BY <4>1, StatusOf
      <4>3. InQueue' = InQueue \cup {j} /\ Running' = Running /\ finished' = finished
        <5>1. Elements(Append(queue, j)) = Elements(queue) \cup {j}
          BY AppendElements DEF TypeOK
        <5> QED
          BY <4>1, <5>1 DEF InQueue, Elements, Running
      <4>4. j \notin Running /\ j \notin finished
        BY <4>1 DEF JobsConserved
      <4>5. Status(j)' = "waiting"
        BY <4>3, <4>4 DEF Status
      <4>6. \A i \in Jobs \ {j} : enq'[i] = enq[i]
        BY <4>1 DEF TypeOK
      <4>7. \A i \in Jobs \ {j} : Status(i)' = Status(i)
        BY <4>3, <4>6 DEF Status
      <4>8. Report' = Report
        BY <4>1 DEF Report
      <4> QED
        BY <4>1, <4>2, <4>5, <4>7, <4>8 DEF Abstract!Accept, Abstract!Move, Abstract!Next
    <3> QED
      BY <2>6, <3>1, <3>2, <3>3 DEF Enqueue
  <2>7. ASSUME NEW w \in Workers, Worker(w) PROVE Abstract!Next \/ UNCHANGED Abstract!vars
    <3>1. CASE WorkerDone(w) \/ WorkerExit(w)
      BY <2>1, <3>1, StatusKept DEF WorkerDone, WorkerExit
    <3>2. CASE WorkerTake(w)
      <4>0. PICK h \in Jobs : h = Head(queue)
        BY <3>2 DEF WorkerTake, TypeOK
      <4>1. /\ UNCHANGED <<enq, finished, done, late, stop>>
            /\ running[w] = NoJob
            /\ running' = [running EXCEPT ![w] = h]
            /\ queue' = Tail(queue)
        BY <3>2, <4>0 DEF WorkerTake
      <4>2. h \in InQueue /\ InQueue' = InQueue \ {h}
        <5>1. /\ h \in Elements(queue)
              /\ Elements(Tail(queue)) = Elements(queue) \ {h}
          BY <3>2, <4>0, TailElements, QueueIsElements DEF WorkerTake, TypeOK, JobsConserved
        <5> QED
          BY <4>1, <5>1 DEF InQueue, Elements
      <4>3. Running' = Running \cup {h}
        BY <4>1, <4>2, NoJobAssumption DEF Running, TypeOK
      <4>4. h \notin Running /\ h \notin finished
        BY <4>2 DEF JobsConserved, DisjointPlaces
      <4>5. Status(h) = "waiting" /\ Status(h)' = "handling"
        BY <4>1, <4>2, <4>3, <4>4 DEF Status
      <4>6. \A i \in Jobs \ {h} : Status(i)' = Status(i)
        BY <4>1, <4>2, <4>3 DEF Status
      <4>7. Report' = Report
        BY <4>1 DEF Report
      <4> QED
        BY <4>1, <4>2, <4>5, <4>6, <4>7 DEF Abstract!Handle, Abstract!Move, Abstract!Next
    <3>3. CASE WorkerFinish(w)
      <4>0. PICK r \in Jobs : r = running[w]
        BY <3>3 DEF WorkerFinish, TypeOK
      <4>1. /\ UNCHANGED <<enq, queue, done, late, stop>>
            /\ r # NoJob
            /\ running' = [running EXCEPT ![w] = NoJob]
            /\ finished' = finished \cup {r}
        BY <3>3, <4>0 DEF WorkerFinish
      <4>2. r \in Running
        BY <4>0, <4>1 DEF Running
      <4>3. Running' = Running \ {r}
        <5>1. \A v \in Workers : v # w => running[v] # r
          BY <4>0, <4>1 DEF JobsConserved, OneWorkerPerJob
        <5> QED
          BY <4>0, <4>1, <5>1 DEF Running, TypeOK
      <4>4. InQueue' = InQueue /\ r \notin finished
        BY <4>1, <4>2 DEF InQueue, JobsConserved, DisjointPlaces
      <4>5. Status(r) = "handling" /\ Status(r)' = "handled"
        BY <4>1, <4>2, <4>4 DEF Status
      <4>6. \A i \in Jobs \ {r} : Status(i)' = Status(i)
        BY <4>1, <4>3, <4>4 DEF Status
      <4>7. Report' = Report
        BY <4>1 DEF Report
      <4> QED
        BY <4>1, <4>2, <4>5, <4>6, <4>7 DEF Abstract!Finish, Abstract!Move, Abstract!Next
    <3> QED
      BY <2>7, <3>1, <3>2, <3>3 DEF Worker
  <2> QED
    BY <2>2, <2>3, <2>4, <2>5, <2>6, <2>7 DEF Next
<1> QED
  BY <1>1, <1>2, TypeCorrect, JobsAreConserved, ShutdownInvariant, PTL DEF Spec, Abstract!Spec
=============================================================================
