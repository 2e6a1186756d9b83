----------------------------- MODULE Debouncer -----------------------------
(***************************************************************************)
(* The sliding-window debouncer (internal/infrastructure/debouncer/        *)
(* timed.go): guest messages of one conversation are buffered until the    *)
(* conversation has been quiet for Window, but never longer than MaxWait   *)
(* after the first of them, and are then handed on as one turn.            *)
(*                                                                         *)
(* Each critical section of the mutex is one action.  Three things happen  *)
(* outside it and are steps of their own: the runtime starting the         *)
(* callback of an expired timer (after which timer.Stop() no longer helps),*)
(* the callback obtaining the mutex, and the call of flush once the mutex  *)
(* is released.  Time is discrete and relative: buffers carry their age    *)
(* and timers the time they have left, both saturating, so no bound on the *)
(* clock is needed.  A timer may be late: Tick does not wait for it.       *)
(*                                                                         *)
(* A message is a pair <<n, p>>: the n-th message the debouncer accepted,  *)
(* carrying PostID p.  The number names the occurrence, and the timer its  *)
(* Push armed; the code compares PostIDs.                                  *)
(***************************************************************************)
EXTENDS Integers, Sequences, FiniteSets

CONSTANTS Keys,       \* conversation keys
          Posts,      \* PostIDs
          KeyOf,      \* the conversation of each post
          Window,     \* the sliding quiet window
          MaxWait,    \* the hard ceiling from the first Push of a buffer
          MaxAccepted \* bound: messages accepted in one behaviour

ASSUME KeyOfAssumption == KeyOf \in [Posts -> Keys]
ASSUME WindowAssumption == Window \in Nat /\ MaxWait \in Nat
ASSUME MaxAcceptedAssumption == MaxAccepted \in Nat

VARIABLES msgs,     \* key -> buffered messages; <<>> when there is no buffer
          age,      \* key -> clock.Since(createdAt) of its buffer, up to MaxWait
          timers,   \* running timers: [id: arming message, key, left: time left]
          quiet,    \* key -> history: time since the last append, up to Window
          pending,  \* key -> started callbacks that wait for the mutex
          inflight, \* turns taken out of the map, flush not called yet
          stopped,
          accepted, \* history: number of messages appended to a buffer
          flushed,  \* history: messages handed to flush
          dropped   \* history: messages discarded by a host reply or by Stop

vars == <<msgs, age, timers, quiet, pending, inflight, stopped,
          accepted, flushed, dropped>>

AtMost(a, b) == IF a < b THEN a ELSE b

Elements(s) == {s[i] : i \in 1..Len(s)}

Messages == (1..MaxAccepted) \X Posts
Timers == [id : 1..MaxAccepted, key : Keys, left : 0..Window]

Init ==
    /\ msgs = [k \in Keys |-> <<>>]
    /\ age = [k \in Keys |-> 0]
    /\ timers = {}
    /\ quiet = [k \in Keys |-> 0]
    /\ pending = [k \in Keys |-> 0]
    /\ inflight = {}
    /\ stopped = FALSE
    /\ accepted = 0
    /\ flushed = {}
    /\ dropped = {}

(* buf.timer: the timer armed by the last message appended to the buffer.  *)
LastId(k) == msgs[k][Len(msgs[k])][1]
Own(k) == {t \in timers : msgs[k] # <<>> /\ t.id = LastId(k)}

\* Mutant: with less than a window left before the ceiling it fires at once.
windowClampedImpatient(sinceFirst) ==
    IF MaxWait - sinceFirst < Window THEN 0 ELSE Window

(* The wait of a re-armed timer, given the age of the buffer.              *)
windowClamped(sinceFirst) ==
    IF MaxWait - sinceFirst < Window
      THEN IF MaxWait - sinceFirst < 0 THEN 0 ELSE MaxWait - sinceFirst
      ELSE Window

(* The age of the buffer Push appends to: a fresh buffer is created now.   *)
BufferAge(k) == IF msgs[k] = <<>> THEN 0 ELSE age[k]

Buffered(p) == \E m \in Elements(msgs[KeyOf[p]]) : m[2] = p

Arm(k) ==
    [id |-> accepted + 1, key |-> k, left |-> windowClamped(BufferAge(k))]

\* Mutant: every message starts a new buffer.
PushFreshBuffer(p) ==
    LET k == KeyOf[p]
    IN  /\ ~stopped
        /\ accepted < MaxAccepted
        /\ ~Buffered(p)
        /\ accepted' = accepted + 1
        /\ msgs' = [msgs EXCEPT ![k] = <<<<accepted + 1, p>>>>]
        /\ age' = [age EXCEPT ![k] = 0]
        /\ timers' = (timers \ Own(k)) \cup {Arm(k)}
        /\ quiet' = [quiet EXCEPT ![k] = 0]
        /\ UNCHANGED <<pending, inflight, stopped, flushed, dropped>>

\* Mutant: a PostID that is in the buffer is appended again.
PushNoDedup(p) ==
    LET k == KeyOf[p]
    IN  /\ ~stopped
        /\ accepted < MaxAccepted
        /\ accepted' = accepted + 1
        /\ msgs' = [msgs EXCEPT ![k] = Append(@, <<accepted + 1, p>>)]
        /\ age' = [age EXCEPT ![k] = BufferAge(k)]
        /\ timers' = (timers \ Own(k)) \cup {Arm(k)}
        /\ quiet' = [quiet EXCEPT ![k] = 0]
        /\ UNCHANGED <<pending, inflight, stopped, flushed, dropped>>

\* Mutant: a later message stops the timer and does not arm a new one.
PushNoRearm(p) ==
    LET k == KeyOf[p]
    IN  /\ ~stopped
        /\ accepted < MaxAccepted
        /\ ~Buffered(p)
        /\ accepted' = accepted + 1
        /\ msgs' = [msgs EXCEPT ![k] = Append(@, <<accepted + 1, p>>)]
        /\ age' = [age EXCEPT ![k] = BufferAge(k)]
        /\ timers' = IF msgs[k] = <<>> THEN timers \cup {Arm(k)}
                                       ELSE timers \ Own(k)
        /\ quiet' = [quiet EXCEPT ![k] = 0]
        /\ UNCHANGED <<pending, inflight, stopped, flushed, dropped>>

(***************************************************************************)
(* Push appends and re-arms.  timer.Stop() cancels the buffer's previous   *)
(* timer only if it has not expired: a callback already counted in pending *)
(* stays.  A PostID that is in the buffer, and any Push after Stop, is a   *)
(* no-op and leaves no trace, so only the accepting case is an action.     *)
(***************************************************************************)
Push(p) ==
    LET k == KeyOf[p]
    IN  /\ ~stopped
        /\ accepted < MaxAccepted
        /\ ~Buffered(p)
        /\ accepted' = accepted + 1
        /\ msgs' = [msgs EXCEPT ![k] = Append(@, <<accepted + 1, p>>)]
        /\ age' = [age EXCEPT ![k] = BufferAge(k)]
        /\ timers' = (timers \ Own(k)) \cup {Arm(k)}
        /\ quiet' = [quiet EXCEPT ![k] = 0]
        /\ UNCHANGED <<pending, inflight, stopped, flushed, dropped>>

(* A host (or otherwise non-guest) message: the buffer is discarded.       *)
CancelIfHostReplied(k) ==
    /\ msgs[k] # <<>>
    /\ dropped' = dropped \cup Elements(msgs[k])
    /\ msgs' = [msgs EXCEPT ![k] = <<>>]
    /\ timers' = timers \ Own(k)
    /\ UNCHANGED <<age, quiet, pending, inflight, stopped, accepted, flushed>>

Stop ==
    /\ ~stopped
    /\ stopped' = TRUE
    /\ dropped' = dropped \cup UNION {Elements(msgs[k]) : k \in Keys}
    /\ msgs' = [k \in Keys |-> <<>>]
    /\ timers' = timers \ UNION {Own(k) : k \in Keys}
    /\ UNCHANGED <<age, quiet, pending, inflight, accepted, flushed>>

(* time.AfterFunc: the timer is due and the runtime starts the callback.   *)
TimerExpires(t) ==
    /\ t.left = 0
    /\ timers' = timers \ {t}
    /\ pending' = [pending EXCEPT ![t.key] = @ + 1]
    /\ UNCHANGED <<msgs, age, quiet, inflight, stopped, accepted, flushed, dropped>>

(***************************************************************************)
(* fire(k), its critical section.  It looks k up by name: whatever buffer  *)
(* is there now is taken, whether or not this callback's timer armed it.   *)
(* The timer of the buffer it takes is not stopped, so it may still expire *)
(* and start a callback that finds nothing, or a later buffer.             *)
(***************************************************************************)
Fire(k) ==
    /\ pending[k] > 0
    /\ pending' = [pending EXCEPT ![k] = @ - 1]
    /\ inflight' = IF msgs[k] = <<>> THEN inflight ELSE inflight \cup {msgs[k]}
    /\ msgs' = [msgs EXCEPT ![k] = <<>>]
    /\ UNCHANGED <<age, timers, quiet, stopped, accepted, flushed, dropped>>

(* fire, after the unlock: the call of flush with the turn.                *)
Flush(t) ==
    /\ inflight' = inflight \ {t}
    /\ flushed' = flushed \cup Elements(t)
    /\ UNCHANGED <<msgs, age, timers, quiet, pending, stopped, accepted, dropped>>

Tick ==
    /\ age' = [k \in Keys |-> AtMost(age[k] + 1, MaxWait)]
    /\ timers' = {[t EXCEPT !.left = IF @ = 0 THEN 0 ELSE @ - 1] : t \in timers}
    /\ quiet' = [k \in Keys |-> AtMost(quiet[k] + 1, Window)]
    /\ UNCHANGED <<msgs, pending, inflight, stopped, accepted, flushed, dropped>>

Next ==
    \/ \E p \in Posts : Push(p)
    \/ \E k \in Keys : CancelIfHostReplied(k)
    \/ Stop
    \/ \E t \in timers : TimerExpires(t)
    \/ \E k \in Keys : Fire(k)
    \/ \E t \in inflight : Flush(t)
    \/ Tick

Spec == Init /\ [][Next]_vars

(***************************************************************************)
(* Time passes, the runtime starts due callbacks, callbacks obtain the     *)
(* mutex and call flush.  Guests, hosts and the operator owe nothing.      *)
(***************************************************************************)
Fairness ==
    /\ WF_vars(Tick)
    /\ WF_vars(\E t \in timers : TimerExpires(t))
    /\ \A k \in Keys : WF_vars(Fire(k))
    /\ WF_vars(\E t \in inflight : Flush(t))

FairSpec == Spec /\ Fairness

-----------------------------------------------------------------------------
(* Every variable holds a value of its type.                               *)
TypeOK ==
    /\ msgs \in [Keys -> Seq(Messages)]
    /\ age \in [Keys -> 0..MaxWait]
    /\ timers \in SUBSET Timers
    /\ quiet \in [Keys -> 0..Window]
    /\ pending \in [Keys -> Nat]
    /\ inflight \in SUBSET Seq(Messages)
    /\ stopped \in BOOLEAN
    /\ accepted \in 0..MaxAccepted
    /\ flushed \in SUBSET Messages
    /\ dropped \in SUBSET Messages

(* A message is in one place at a time: it is buffered, or in one turn on  *)
(* its way to flush, or flushed, or discarded; so no message reaches the   *)
(* orchestrator twice, whatever stale callbacks, host replies and Stop do, *)
(* and one that was discarded is not flushed afterwards (Push, fire,       *)
(* CancelIfHostReplied, Stop).                                             *)
InBuffers == UNION {Elements(msgs[k]) : k \in Keys}
InFlight == UNION {Elements(t) : t \in inflight}

EachMessageOnce ==
    /\ InBuffers \cap (InFlight \cup flushed \cup dropped) = {}
    /\ InFlight \cap (flushed \cup dropped) = {}
    /\ flushed \cap dropped = {}
    /\ \A t1, t2 \in inflight : t1 # t2 => Elements(t1) \cap Elements(t2) = {}

(* Nothing accepted disappears: after any interleaving the accepted        *)
(* messages are those buffered, on their way, flushed or discarded.        *)
NothingVanishes ==
    {m[1] : m \in InBuffers \cup InFlight \cup flushed \cup dropped} = 1..accepted

(* Both together: the accepted messages are partitioned, whatever stale    *)
(* callbacks, host replies and Stop do (Push, fire, CancelIfHostReplied).  *)
MessagesConserved == EachMessageOnce /\ NothingVanishes

(* A buffer cannot be stranded: while it exists its own timer runs or a    *)
(* callback for its conversation is on its way to the mutex.  Push relies  *)
(* on this when it stops one timer and arms the next.                      *)
BufferHasWakeup ==
    \A k \in Keys : msgs[k] # <<>> => Own(k) # {} \/ pending[k] > 0

(* The ceiling: a buffer's timer is never due later than MaxWait after the *)
(* first message, unless it is due at once (windowClamped).                *)
CeilingRespected ==
    \A k \in Keys : \A t \in Own(k) :
        t.left = 0 \/ age[k] + t.left <= MaxWait

(* The window: when the buffer's own timer has expired, the conversation   *)
(* has been quiet for Window or the buffer has reached MaxWait.            *)
OwnTimerMeansQuiet ==
    \A k \in Keys :
        msgs[k] # <<>> /\ Own(k) = {} => quiet[k] = Window \/ age[k] = MaxWait

(* The state of a buffer: it is well-formed, and a wake-up for it is due   *)
(* within the ceiling and not before the conversation is quiet, whichever  *)
(* of Push and fire came last.                                             *)
WakeupInv == TypeOK /\ BufferHasWakeup /\ CeilingRespected /\ OwnTimerMeansQuiet

(* A turn lists its messages in the order they were accepted and never     *)
(* repeats a PostID, so LastPostID, which drives idempotency and memory,   *)
(* is that of the newest message of the burst.                             *)
Ordered(t) == \A i, j \in 1..Len(t) : i < j => t[i][1] < t[j][1] /\ t[i][2] # t[j][2]

TurnsOrdered ==
    /\ \A k \in Keys : Ordered(msgs[k])
    /\ \A t \in inflight : Ordered(t)

(* The debouncer implements Collector: whatever stale callbacks, re-armed  *)
(* timers, host replies and Stop do, a message leaves once, with all that  *)
(* its conversation held, or is discarded; and it does leave, also when    *)
(* Push keeps replacing the timer, for the buffer's age is limited.        *)
Abstract == INSTANCE Collector
              WITH held <- [k \in Keys |-> Elements(msgs[k])],
                   leaving <- {Elements(t) : t \in inflight},
                   out <- flushed, discarded <- dropped,
                   closed <- stopped, count <- accepted

ImplementsCollector == Abstract!FairSpec
=============================================================================
