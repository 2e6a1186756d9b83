--------------------------- MODULE PipelineProofs ---------------------------
(***************************************************************************)
(* Proofs about the whole path of a post, for any posts, conversations,    *)
(* queue size, number of workers, fixtures, deliveries, crashes and        *)
(* restarts: no delivered post goes missing, a claim is completed only     *)
(* with an outcome on record, and with an idempotency store that outlives  *)
(* the process no worker runs a post twice.                                *)
(*                                                                         *)
(* The last one is an argument about tokens: while its claim stands, a     *)
(* post is in at most one place of the process, in one turn there, and has *)
(* not been run until a worker starts on it.  OnceAt says so; the other    *)
(* parts of the invariant say that nobody completes a claim without an     *)
(* outcome and that only a delivered post is claimed.                      *)
(***************************************************************************)
EXTENDS Pipeline, FiniteSetTheorems, TLAPS

(* A post is buffered under its own conversation, and no turn is empty, so *)
(* that LastPost is one of its posts; the auto-replay is inside a fixture  *)
(* only if there is one and the process is alive.                          *)
ShapeInv ==
    /\ IsFiniteSet(running)
    /\ \A k \in Keys : \A p \in Elements(buf[k]) : KeyOf[p] = k
    /\ \A f \in firing : f.turn # <<>>
    /\ \A i \in 1..Len(queue) : queue[i] # <<>>
    /\ \A r \in running : r.turn # <<>>
    /\ replay.at # "idle" => replay.left # <<>> /\ phase # "down"

TypeInv == TypeOK /\ ShapeInv

(* Whoever is about to complete a claim has its outcome on record.         *)
OutcomeInv ==
    /\ CompleteMeansOutcome
    /\ \A r \in running :
         r.at = "complete" => \A p \in Elements(r.turn) : "outcome" \in fate[p]
    /\ replay.at = "complete" => "outcome" \in fate[Head(replay.left)]

(* A claim is made for a post that was delivered.                          *)
ClaimInv == \A p \in Posts : idem[p] = "claimed" => deliveries[p] > 0

(* Where a claimed post can be on its way through the process.             *)
Buffered(p) == \E k \in Keys : p \in Elements(buf[k])
Fired(p) == \E f \in firing : p \in Elements(f.turn)
Queued(p) == \E i \in 1..Len(queue) : p \in Elements(queue[i])
WithWorker(p) == \E r \in running : p \in Elements(r.turn)
Nowhere(p) ==
    p \notin handling /\ ~Buffered(p) /\ ~Fired(p) /\ ~Queued(p) /\ ~WithWorker(p)

(* It is in one turn of the ones being enqueued, queued or run.            *)
OneFired(p) ==
    \A f, g \in firing : p \in Elements(f.turn) /\ p \in Elements(g.turn) => f = g
OneQueued(p) ==
    \A i, j \in 1..Len(queue) :
        p \in Elements(queue[i]) /\ p \in Elements(queue[j]) => i = j
OneRunning(p) ==
    \A r, s \in running : p \in Elements(r.turn) /\ p \in Elements(s.turn) => r = s

(* It is in one place only, and in one turn there.                         *)
InOnePlace(p) ==
    /\ p \in handling => ~Buffered(p) /\ ~Fired(p) /\ ~Queued(p) /\ ~WithWorker(p)
    /\ Buffered(p) => ~Fired(p) /\ ~Queued(p) /\ ~WithWorker(p)
    /\ Fired(p) => ~Queued(p) /\ ~WithWorker(p)
    /\ Queued(p) => ~WithWorker(p)
    /\ OneFired(p) /\ OneQueued(p) /\ OneRunning(p)

(* Until a worker starts Run on it, it has not been run.                   *)
Fetching(p) == \E r \in running : r.at = "fetch" /\ p \in Elements(r.turn)
NotRunYet(p) ==
    p \in handling \/ Buffered(p) \/ Fired(p) \/ Queued(p) \/ Fetching(p)
    => runs[p] = 0

(* The life of a post whose claim has not expired, with a store that       *)
(* outlives the process.                                                   *)
OnceAt(p) ==
    /\ idem[p] = "new" => Nowhere(p) /\ runs[p] = 0
    /\ p \in replayed => Nowhere(p) /\ runs[p] = 0 /\ idem[p] # "new"
    /\ InOnePlace(p)
    /\ NotRunYet(p)
    /\ runs[p] <= 1

OnceInv == store = "redis" => \A p \in Posts \ expired : OnceAt(p)

-----------------------------------------------------------------------------
(* Turns and queues as sequences.                                          *)
LEMMA SequenceElements ==
    ASSUME NEW S, NEW s \in Seq(S)
    PROVE  /\ Elements(s) \subseteq S
           /\ s # <<>> => /\ s[Len(s)] \in Elements(s) /\ s[Len(s)] \in S
                          /\ Head(s) \in Elements(s) /\ Head(s) \in S
                          /\ Tail(s) \in Seq(S)
  BY DEF Elements

(* An empty buffer or channel has no elements.                             *)
LEMMA NoElements == Elements(<<>>) = {}
  BY DEF Elements

(* Appending, as Push and the pool's send do.                              *)
LEMMA AppendElements ==
    ASSUME NEW S, NEW s \in Seq(S), NEW x \in S
    PROVE  /\ Append(s, x) \in Seq(S) /\ Append(s, x) # <<>>
           /\ Len(s) \in Nat /\ Len(Append(s, x)) = Len(s) + 1
           /\ Append(s, x)[Len(s) + 1] = x
           /\ \A i \in 1..Len(s) : Append(s, x)[i] = s[i]
           /\ Elements(Append(s, x)) = Elements(s) \cup {x}
<1>1. /\ Append(s, x) \in Seq(S) /\ Append(s, x) # <<>>
      /\ Len(s) \in Nat /\ Len(Append(s, x)) = Len(s) + 1
      /\ Append(s, x)[Len(s) + 1] = x
      /\ \A i \in 1..Len(s) : Append(s, x)[i] = s[i]
  OBVIOUS
<1>2. 1..(Len(s) + 1) = 1..Len(s) \cup {Len(s) + 1}
  BY <1>1
<1>3. Elements(Append(s, x)) = Elements(s) \cup {x}
  BY <1>1, <1>2 DEF Elements
<1> QED
  BY <1>1, <1>3

(* Taking the head, as a worker's receive does.                            *)
LEMMA TailIndices ==
    ASSUME NEW S, NEW s \in Seq(S), s # <<>>
    PROVE  /\ Head(s) \in S /\ Head(s) = s[1] /\ Tail(s) \in Seq(S)
           /\ Len(s) \in Nat \ {0} /\ Len(Tail(s)) = Len(s) - 1
           /\ \A i \in 1..Len(Tail(s)) : Tail(s)[i] = s[i + 1] /\ i + 1 \in 2..Len(s)
  OBVIOUS

(* Mark only adds to the fates, and adds f to the posts it names.          *)
LEMMA MarkAdds ==
    ASSUME TypeOK, NEW posts, NEW f \in Fates, Mark(posts, f)
    PROVE  /\ fate' \in [Posts -> SUBSET Fates]
           /\ \A p \in Posts : fate[p] \subseteq fate'[p] /\ (p \in posts => f \in fate'[p])
<1>1. fate \in [Posts -> SUBSET Fates]
  BY DEF TypeOK
<1> QED
  BY <1>1 DEF Mark

-----------------------------------------------------------------------------
(* The type invariant, in what is on its way through the process and the   *)
(* rest.                                                                   *)
flow == <<handling, buf, firing, queue, running>>

FlowOK ==
    /\ handling \in SUBSET Posts
    /\ buf \in [Keys -> Seq(Posts)]
    /\ firing \in SUBSET [turn : Seq(Posts), checked : BOOLEAN]
    /\ queue \in Seq(Seq(Posts)) /\ Len(queue) <= QueueSize
    /\ Cardinality(running) <= Workers
    /\ running \in SUBSET [turn : Seq(Posts), at : {"fetch", "run", "complete"}]
    /\ IsFiniteSet(running)
    /\ \A k \in Keys : \A p \in Elements(buf[k]) : KeyOf[p] = k
    /\ \A f \in firing : f.turn # <<>>
    /\ \A i \in 1..Len(queue) : queue[i] # <<>>
    /\ \A r \in running : r.turn # <<>>

BooksOK ==
    /\ store \in Stores
    /\ phase \in Phases
    /\ upsets \in 0..MaxUpsets
    /\ deliveries \in [Posts -> Nat]
    /\ \A p \in Posts : deliveries[p] <= MaxDeliveries[p]
    /\ idem \in [Posts -> {"new", "claimed", "complete"}]
    /\ hosted \in BOOLEAN
    /\ answered \in SUBSET Posts
    /\ replay \in [left : Seq(Posts), at : {"idle", "run", "complete"}]
    /\ replay.at # "idle" => replay.left # <<>> /\ phase # "down"
    /\ replayed \in SUBSET Posts /\ expired \in SUBSET Posts
    /\ runs \in [Posts -> Nat]
    /\ fate \in [Posts -> SUBSET Fates]

(* TypeInv in two parts: where posts are, and the books kept of them.      *)
LEMMA TypeParts == TypeInv <=> FlowOK /\ BooksOK
  BY DEF TypeInv, TypeOK, ShapeInv, FlowOK, BooksOK

(* The same after a step.                                                  *)
LEMMA TypePartsNext == TypeInv' <=> FlowOK' /\ BooksOK'
  BY DEF TypeInv, TypeOK, ShapeInv, FlowOK, BooksOK

(* A worker's turn moves on to another program point, or is done.          *)
LEMMA RunningChanges ==
    ASSUME FlowOK, NEW r \in running, NEW at \in {"fetch", "run", "complete"},
           running' \in {running \ {r}, (running \ {r}) \cup {[r EXCEPT !.at = at]}},
           UNCHANGED <<handling, buf, firing, queue>>
    PROVE  /\ FlowOK'
           /\ [r EXCEPT !.at = at].turn = r.turn
           /\ [r EXCEPT !.at = at].at = at
           /\ r.turn \in Seq(Posts) /\ r.turn # <<>>
           /\ r = [turn |-> r.turn, at |-> r.at]
<1> DEFINE moved == [r EXCEPT !.at = at]
<1>1. /\ r \in [turn : Seq(Posts), at : {"fetch", "run", "complete"}]
      /\ r.turn \in Seq(Posts) /\ r.turn # <<>>
      /\ r = [turn |-> r.turn, at |-> r.at]
  BY DEF FlowOK
<1>2. /\ moved \in [turn : Seq(Posts), at : {"fetch", "run", "complete"}]
      /\ moved.turn = r.turn /\ moved.at = at
  BY <1>1
<1>3. /\ IsFiniteSet(running \ {r}) /\ Cardinality(running) \in Nat
      /\ Cardinality(running \ {r}) = Cardinality(running) - 1
  BY FS_RemoveElement, FS_CardinalityType DEF FlowOK
<1>4. /\ IsFiniteSet((running \ {r}) \cup {moved})
      /\ \/ Cardinality((running \ {r}) \cup {moved}) = Cardinality(running \ {r})
         \/ Cardinality((running \ {r}) \cup {moved}) = Cardinality(running \ {r}) + 1
  BY <1>3, FS_AddElement
<1>5. IsFiniteSet(running') /\ Cardinality(running') <= Workers
  <2>1. Cardinality(running) <= Workers /\ Workers \in Nat
    BY PipelineAssumption DEF FlowOK
  <2>2. CASE running' = running \ {r}
    BY <1>3, <2>1, <2>2
  <2>3. CASE running' = (running \ {r}) \cup {moved}
    <3> HIDE DEF moved
    <3> QED
      BY <1>3, <1>4, <2>1, <2>3
  <2> QED
    BY <2>2, <2>3
<1> HIDE DEF moved
<1>6. FlowOK'
  BY <1>1, <1>2, <1>5 DEF FlowOK, moved
<1> QED
  BY <1>1, <1>2, <1>6 DEF moved

(* What the auto-replay has before it, and its steps through a fixture.    *)
Replay == [left : Seq(Posts), at : {"idle", "run", "complete"}]

(* Each of them leaves it well formed.                                     *)
LEMMA ReplaySteps ==
    ASSUME NEW q \in Replay, q.left # <<>>
    PROVE  /\ [q EXCEPT !.at = "run"] \in Replay /\ [q EXCEPT !.at = "run"].left # <<>>
           /\ [q EXCEPT !.at = "complete"] \in Replay /\ [q EXCEPT !.at = "complete"].left # <<>>
           /\ [q EXCEPT !.left = Tail(@)] \in Replay /\ [q EXCEPT !.left = Tail(@)].at = q.at
           /\ [left |-> Tail(q.left), at |-> "idle"] \in Replay
<1>1. q.left \in Seq(Posts) /\ Tail(q.left) \in Seq(Posts)
  BY SequenceElements DEF Replay
<1> QED
  BY <1>1 DEF Replay

(* The steps that leave the flow of posts alone.                           *)
BookStep ==
    \/ \E p \in Posts : WebhookEmptyBody(p) \/ WebhookClaimFails(p) \/ ClaimExpires(p)
    \/ \E k \in Keys : HostReply(k)
    \/ ShutdownPool \/ PoolFinished \/ Restart \/ ResetIdempotency \/ AutoReplay

(* The steps that move no post keep the types of both parts.               *)
LEMMA BookStepTyped ==
    ASSUME TypeInv, BookStep
    PROVE  FlowOK' /\ BooksOK' /\ UNCHANGED flow
<1>1. UNCHANGED flow
  BY DEF BookStep, flow, WebhookEmptyBody, WebhookClaimFails, ClaimExpires, HostReply,
     ShutdownPool, PoolFinished, Restart, ResetIdempotency, AutoReplay, ReplayBegin,
     ReplaySkip, ReplayOutcome, ReplayComplete, replaying
<1>2. FlowOK'
  BY <1>1, TypeParts DEF FlowOK, flow
<1> SUFFICES BooksOK'
  BY <1>1, <1>2
<1> USE TypeParts, PipelineAssumption DEF BooksOK, booted
<1>3. ASSUME NEW p \in Posts, WebhookEmptyBody(p) PROVE BooksOK'
  <2>1. fate' \in [Posts -> SUBSET Fates]
    BY <1>3, MarkAdds DEF WebhookEmptyBody, Fates, TypeInv
  <2>2. deliveries' \in [Posts -> Nat] /\ \A q \in Posts : deliveries'[q] <= MaxDeliveries[q]
    BY <1>3 DEF WebhookEmptyBody, Delivers
  <2> QED
    BY <1>3, <2>1, <2>2 DEF WebhookEmptyBody
<1>3a. ASSUME NEW p \in Posts, WebhookClaimFails(p) PROVE BooksOK'
  <2>1. fate' \in [Posts -> SUBSET Fates]
    BY <1>3a, MarkAdds DEF WebhookClaimFails, Fates, TypeInv
  <2>2. deliveries' \in [Posts -> Nat] /\ \A q \in Posts : deliveries'[q] <= MaxDeliveries[q]
    BY <1>3a, SMTT(30) DEF WebhookClaimFails, Delivers
  <2>3. idem' \in [Posts -> {"new", "claimed", "complete"}]
    <3>1. UNCHANGED idem \/ idem' = [idem EXCEPT ![p] = "claimed"]
      BY <1>3a DEF WebhookClaimFails
    <3> QED
      BY <3>1
  <2>4. upsets' \in 0..MaxUpsets
    BY <1>3a DEF WebhookClaimFails
  <2> QED
    BY <1>3a, <2>1, <2>2, <2>3, <2>4 DEF WebhookClaimFails
<1>4. ASSUME NEW p \in Posts, ClaimExpires(p) PROVE BooksOK'
  <2>1. /\ idem' \in [Posts -> {"new", "claimed", "complete"}]
        /\ upsets' \in 0..MaxUpsets /\ expired' \in SUBSET Posts
    BY <1>4 DEF ClaimExpires
  <2> QED
    BY <1>4, <2>1 DEF ClaimExpires
<1>5. ASSUME NEW k \in Keys, HostReply(k) PROVE BooksOK'
  BY <1>5 DEF HostReply
<1>6. CASE ShutdownPool
  BY <1>6 DEF ShutdownPool, Phases
<1>7. CASE PoolFinished
  BY <1>7 DEF PoolFinished, Phases
<1>8. CASE Restart
  <2>1. idem' \in [Posts -> {"new", "claimed", "complete"}]
    BY <1>8 DEF Restart
  <2>2. replay' \in [left : Seq(Posts), at : {"idle", "run", "complete"}] /\ replay'.at = "idle"
    BY <1>8 DEF Restart, AtBoot
  <2>3. phase' \in Phases /\ upsets' \in 0..MaxUpsets
    BY <1>8 DEF Restart, Phases
  <2> QED
    BY <1>8, <2>1, <2>2, <2>3 DEF Restart
<1>9. CASE ResetIdempotency
  <2>1. idem' \in [Posts -> {"new", "claimed", "complete"}] /\ upsets' \in 0..MaxUpsets
    BY <1>9 DEF ResetIdempotency
  <2> QED
    BY <1>9, <2>1 DEF ResetIdempotency
<1>10. CASE AutoReplay
  <2>1. /\ UNCHANGED replaying
        /\ replay.left # <<>>
    BY <1>10 DEF AutoReplay, ReplayBegin, ReplaySkip, ReplayOutcome, ReplayComplete
  <2>2. /\ Head(replay.left) \in Posts /\ Tail(replay.left) \in Seq(Posts)
        /\ replay = [left |-> replay.left, at |-> replay.at]
    BY <2>1, SequenceElements
  <2>3. /\ [replay EXCEPT !.at = "run"] \in Replay /\ [replay EXCEPT !.at = "run"].left # <<>>
        /\ [replay EXCEPT !.at = "complete"] \in Replay
        /\ [replay EXCEPT !.at = "complete"].left # <<>>
        /\ [replay EXCEPT !.left = Tail(@)] \in Replay
        /\ [replay EXCEPT !.left = Tail(@)].at = replay.at
        /\ [left |-> Tail(replay.left), at |-> "idle"] \in Replay
    BY <2>1, ReplaySteps DEF Replay
  <2>4. ASSUME replay' \in Replay, replay'.at # "idle" => replay'.left # <<>> /\ phase # "down",
               idem' \in [Posts -> {"new", "claimed", "complete"}], replayed' \in SUBSET Posts,
               fate' \in [Posts -> SUBSET Fates]
        PROVE  BooksOK'
    BY <2>1, <2>4 DEF replaying, Replay
  <2>5. CASE ReplayBegin
    <3>1. replay' \in Replay /\ replay'.left # <<>> /\ phase # "down"
      BY <2>3, <2>5 DEF ReplayBegin
    <3> QED
      BY <2>4, <2>5, <3>1 DEF ReplayBegin
  <2>6. CASE ReplaySkip
    <3>1. replay' \in Replay /\ replay'.at = "idle"
      BY <2>3, <2>6 DEF ReplaySkip
    <3> QED
      BY <2>4, <2>6, <3>1 DEF ReplaySkip
  <2>7. CASE ReplayOutcome
    <3>1. fate' \in [Posts -> SUBSET Fates]
      BY <2>7, MarkAdds DEF ReplayOutcome, Fates, TypeInv
    <3>2. replay' \in Replay /\ replay'.left # <<>>
      BY <2>3, <2>7 DEF ReplayOutcome
    <3>3. phase # "down" /\ UNCHANGED <<idem, replayed>>
      BY <2>7 DEF ReplayOutcome
    <3> QED
      BY <2>4, <3>1, <3>2, <3>3
  <2>8. CASE ReplayComplete
    <3>1. idem' \in [Posts -> {"new", "claimed", "complete"}] /\ replayed' \in SUBSET Posts
      BY <2>2, <2>8 DEF ReplayComplete
    <3>2. replay' \in Replay /\ replay'.at = "idle"
      BY <2>3, <2>8 DEF ReplayComplete
    <3>3. fate' = fate
      BY <2>8 DEF ReplayComplete
    <3> QED
      BY <2>4, <3>1, <3>2, <3>3
  <2> QED
    BY <1>10, <2>5, <2>6, <2>7, <2>8 DEF AutoReplay
<1> QED
  BY <1>3, <1>3a, <1>4, <1>5, <1>6, <1>7, <1>8, <1>9, <1>10 DEF BookStep

(* The webhook of a guest message and the Push that follows a claim.       *)
LEMMA WebhookTyped ==
    ASSUME TypeInv, NEW p \in Posts, Webhook(p)
    PROVE  FlowOK' /\ BooksOK'
<1>1. /\ handling' \in SUBSET Posts /\ idem' \in [Posts -> {"new", "claimed", "complete"}]
      /\ deliveries' \in [Posts -> Nat] /\ \A q \in Posts : deliveries'[q] <= MaxDeliveries[q]
  <2>1. handling' \in SUBSET Posts /\ idem' \in [Posts -> {"new", "claimed", "complete"}]
    <3>1. \/ UNCHANGED <<idem, handling>>
          \/ idem' = [idem EXCEPT ![p] = "claimed"] /\ handling' = handling \cup {p}
      BY DEF Webhook, SeenOrClaim
    <3> QED
      BY <3>1 DEF TypeInv, TypeOK
  <2>2. deliveries' \in [Posts -> Nat] /\ \A q \in Posts : deliveries'[q] <= MaxDeliveries[q]
    <3>1. deliveries[p] < MaxDeliveries[p] /\ deliveries' = [deliveries EXCEPT ![p] = @ + 1]
      BY DEF Webhook, Delivers
    <3> QED
      BY <3>1, TypeParts, PipelineAssumption DEF BooksOK
  <2> QED
    BY <2>1, <2>2
<1>2. FlowOK'
  BY <1>1, TypeParts DEF FlowOK, Webhook
<1>3. BooksOK'
  BY <1>1, TypeParts DEF BooksOK, Webhook, booted
<1> QED
  BY <1>2, <1>3

(* What stays of the books when only fates are added.                      *)
LEMMA OnlyFates ==
    ASSUME TypeInv, fate' \in [Posts -> SUBSET Fates], runs' \in [Posts -> Nat],
           idem' \in [Posts -> {"new", "claimed", "complete"}],
           UNCHANGED <<store, upsets, deliveries, hosted, answered, booted>>,
           UNCHANGED phase \/ phase' = "debouncerStopped"
    PROVE  BooksOK'
<1>1. phase' \in Phases /\ (phase # "down" => phase' # "down")
  BY DEF TypeInv, TypeOK, Phases
<1> QED
  BY <1>1, TypeParts DEF BooksOK, booted

(* Push after the claim: the buffer takes the post, or it is lost.         *)
LEMMA PushTyped ==
    ASSUME TypeInv, NEW p \in Posts, PushClaimed(p)
    PROVE  FlowOK' /\ BooksOK'
<1>1. fate' \in [Posts -> SUBSET Fates]
  <2>1. CASE UNCHANGED fate
    BY <2>1 DEF TypeInv, TypeOK
  <2>2. CASE Mark({p}, "lost")
    BY <2>2, MarkAdds DEF TypeInv, Fates
  <2> QED
    BY <2>1, <2>2 DEF PushClaimed
<1>2. /\ buf' \in [Keys -> Seq(Posts)]
      /\ \A k \in Keys : \A q \in Elements(buf'[k]) : KeyOf[q] = k
  <2> DEFINE pushed == Append(buf[KeyOf[p]], p)
  <2>1. /\ KeyOf[p] \in Keys /\ buf \in [Keys -> Seq(Posts)]
        /\ \A k \in Keys : \A q \in Elements(buf[k]) : KeyOf[q] = k
    BY TypeParts, PipelineAssumption DEF FlowOK
  <2>2. pushed \in Seq(Posts) /\ Elements(pushed) = Elements(buf[KeyOf[p]]) \cup {p}
    BY <2>1, AppendElements
  <2> HIDE DEF pushed
  <2>3. UNCHANGED buf \/ buf' = [buf EXCEPT ![KeyOf[p]] = pushed]
    <3>1. \/ UNCHANGED buf
          \/ buf' = [buf EXCEPT ![KeyOf[p]] =
                        IF p \in Elements(buf[KeyOf[p]]) THEN buf[KeyOf[p]] ELSE pushed]
      BY DEF PushClaimed, pushed
    <3> QED
      BY <2>1, <3>1
  <2>4. CASE UNCHANGED buf
    BY <2>1, <2>4
  <2>5. CASE buf' = [buf EXCEPT ![KeyOf[p]] = pushed]
    <3>1. buf' \in [Keys -> Seq(Posts)]
      BY <2>1, <2>2, <2>5
    <3>2. \A k \in Keys : k # KeyOf[p] => buf'[k] = buf[k]
      BY <2>1, <2>5
    <3>3. buf'[KeyOf[p]] = pushed
      BY <2>1, <2>5
    <3>4. ASSUME NEW k \in Keys, NEW q \in Elements(buf'[k]) PROVE KeyOf[q] = k
      <4>1. CASE k # KeyOf[p]
        BY <2>1, <3>2, <3>4, <4>1
      <4>2. CASE k = KeyOf[p]
        <5>1. q \in Elements(buf[k]) \/ q = p
          BY <2>2, <3>3, <3>4, <4>2
        <5> QED
          BY <2>1, <4>2, <5>1
      <4> QED
        BY <4>1, <4>2
    <3> QED
      BY <3>1, <3>4
  <2> QED
    BY <2>3, <2>4, <2>5
<1>3. FlowOK'
  BY <1>2, TypeParts DEF FlowOK, PushClaimed
<1>4. BooksOK'
  BY <1>1, OnlyFates DEF TypeInv, TypeOK, PushClaimed
<1> QED
  BY <1>3, <1>4

(* The host's webhook empties a buffer, the callback of the debouncer      *)
(* hands one over.                                                         *)
LEMMA BufferTyped ==
    ASSUME TypeInv, NEW k \in Keys, WebhookNonGuest(k) \/ Fire(k)
    PROVE  FlowOK' /\ BooksOK'
<1>1. /\ buf[k] \in Seq(Posts) /\ buf[k] # <<>>
      /\ buf' = [buf EXCEPT ![k] = <<>>] /\ buf' \in [Keys -> Seq(Posts)]
      /\ \A l \in Keys : \A q \in Elements(buf'[l]) : KeyOf[q] = l
      /\ UNCHANGED <<handling, queue, running>>
  <2>1. /\ buf \in [Keys -> Seq(Posts)] /\ <<>> \in Seq(Posts)
        /\ \A l \in Keys : \A q \in Elements(buf[l]) : KeyOf[q] = l
    BY TypeParts DEF FlowOK
  <2>2. /\ buf[k] # <<>> /\ buf' = [buf EXCEPT ![k] = <<>>]
        /\ UNCHANGED <<handling, queue, running>>
    BY DEF WebhookNonGuest, Fire
  <2> QED
    BY <2>1, <2>2, NoElements
<1>2. CASE WebhookNonGuest(k)
  <2>1. fate' \in [Posts -> SUBSET Fates] /\ UNCHANGED firing
    BY <1>2, MarkAdds DEF TypeInv, Fates, WebhookNonGuest
  <2>2. FlowOK'
    BY <1>1, <2>1, TypeParts DEF FlowOK
  <2>3. BooksOK'
    BY <1>2, <2>1, OnlyFates DEF TypeInv, TypeOK, WebhookNonGuest
  <2> QED
    BY <2>2, <2>3
<1>3. CASE Fire(k)
  <2> DEFINE f == [turn |-> buf[k], checked |-> FALSE]
  <2>1. firing' = firing \cup {f} /\ UNCHANGED fate
    BY <1>3 DEF Fire
  <2>2. f \in [turn : Seq(Posts), checked : BOOLEAN] /\ f.turn # <<>>
    BY <1>1
  <2> HIDE DEF f
  <2>3. FlowOK'
    BY <1>1, <2>1, <2>2, TypeParts DEF FlowOK
  <2>4. BooksOK'
    BY <1>3, <2>1, OnlyFates DEF TypeInv, TypeOK, Fire
  <2> QED
    BY <2>3, <2>4
<1> QED
  BY <1>2, <1>3

(* Enqueue: the open check, then the send or the escalation.               *)
LEMMA EnqueueTyped ==
    ASSUME TypeInv, NEW f \in firing, EnqueueCheck(f) \/ EnqueueSend(f)
    PROVE  FlowOK' /\ BooksOK'
<1>1. /\ f.turn \in Seq(Posts) /\ f.turn # <<>>
      /\ f \in [turn : Seq(Posts), checked : BOOLEAN]
  BY TypeParts DEF FlowOK
<1>2. fate' \in [Posts -> SUBSET Fates]
  <2>1. CASE UNCHANGED fate
    BY <2>1 DEF TypeInv, TypeOK
  <2>2. CASE Mark(Elements(f.turn), "outcome")
    BY <2>2, MarkAdds DEF TypeInv, Fates
  <2> QED
    BY <2>1, <2>2 DEF EnqueueCheck, EnqueueSend
<1>3. BooksOK'
  BY <1>2, OnlyFates DEF TypeInv, TypeOK, EnqueueCheck, EnqueueSend
<1>4. CASE EnqueueCheck(f)
  <2> DEFINE g == [f EXCEPT !.checked = TRUE]
  <2>1. g \in [turn : Seq(Posts), checked : BOOLEAN] /\ g.turn # <<>>
    BY <1>1
  <2>2. firing' \in {firing \ {f}, (firing \ {f}) \cup {g}} /\ UNCHANGED <<handling, buf, queue, running>>
    BY <1>4 DEF EnqueueCheck
  <2> HIDE DEF g
  <2>3. FlowOK'
    BY <2>1, <2>2, TypeParts DEF FlowOK
  <2> QED
    BY <1>3, <2>3
<1>5. CASE EnqueueSend(f)
  <2>1. firing' = firing \ {f} /\ UNCHANGED <<handling, buf, running>>
    BY <1>5 DEF EnqueueSend
  <2>2. /\ queue' \in Seq(Seq(Posts)) /\ Len(queue') <= QueueSize
        /\ \A i \in 1..Len(queue') : queue'[i] # <<>>
    <3>1. CASE UNCHANGED queue
      BY <3>1, TypeParts DEF FlowOK
    <3>2. CASE Len(queue) < QueueSize /\ queue' = Append(queue, f.turn)
      <4>1. /\ queue' \in Seq(Seq(Posts)) /\ Len(queue) \in Nat
            /\ Len(queue') = Len(queue) + 1 /\ queue'[Len(queue) + 1] = f.turn
            /\ \A i \in 1..Len(queue) : queue'[i] = queue[i]
        BY <1>1, <3>2, TypeParts, AppendElements DEF FlowOK
      <4>2. \A i \in 1..Len(queue) : queue[i] # <<>>
        BY TypeParts DEF FlowOK
      <4>3. \A i \in 1..Len(queue') : i \in 1..Len(queue) \/ i = Len(queue) + 1
        BY <4>1
      <4>4. Len(queue') <= QueueSize
        BY <3>2, <4>1, PipelineAssumption
      <4> QED
        BY <1>1, <4>1, <4>2, <4>3, <4>4
    <3> QED
      BY <1>5, <3>1, <3>2 DEF EnqueueSend
  <2>3. FlowOK'
    BY <2>1, <2>2, TypeParts DEF FlowOK
  <2> QED
    BY <1>3, <2>3
<1> QED
  BY <1>4, <1>5

(* A worker takes a turn while one is free.                                *)
LEMMA TakeTyped ==
    ASSUME TypeInv, WorkerTake
    PROVE  FlowOK' /\ BooksOK'
<1> DEFINE r == [turn |-> Head(queue), at |-> "fetch"]
<1>1. /\ queue # <<>> /\ Cardinality(running) < Workers
      /\ running' = running \cup {r} /\ queue' = Tail(queue)
      /\ UNCHANGED <<handling, buf, firing>>
  BY DEF WorkerTake
<1>2. /\ queue \in Seq(Seq(Posts)) /\ \A i \in 1..Len(queue) : queue[i] # <<>>
      /\ Len(queue) <= QueueSize /\ QueueSize \in Nat /\ Workers \in Nat
  BY TypeParts, PipelineAssumption DEF FlowOK
<1>3. /\ Head(queue) \in Seq(Posts) /\ Head(queue) = queue[1] /\ Tail(queue) \in Seq(Seq(Posts))
      /\ Len(queue) \in Nat \ {0} /\ Len(Tail(queue)) = Len(queue) - 1
      /\ \A i \in 1..Len(Tail(queue)) :
           Tail(queue)[i] = queue[i + 1] /\ i + 1 \in 2..Len(queue)
  BY <1>1, <1>2, TailIndices
<1>4. /\ queue' \in Seq(Seq(Posts)) /\ Len(queue') <= QueueSize
      /\ \A i \in 1..Len(queue') : queue'[i] # <<>>
  BY <1>1, <1>2, <1>3
<1>5. /\ r \in [turn : Seq(Posts), at : {"fetch", "run", "complete"}]
      /\ r.turn # <<>>
  <2>1. Head(queue) # <<>>
    BY <1>2, <1>3
  <2> QED
    BY <1>3, <2>1
<1> HIDE DEF r
<1>6. IsFiniteSet(running') /\ Cardinality(running') <= Workers
  <2>1. IsFiniteSet(running) /\ Cardinality(running) \in Nat
    BY TypeParts, FS_CardinalityType DEF FlowOK
  <2>2. /\ IsFiniteSet(running \cup {r})
        /\ \/ Cardinality(running \cup {r}) = Cardinality(running)
           \/ Cardinality(running \cup {r}) = Cardinality(running) + 1
    BY <2>1, FS_AddElement
  <2> QED
    BY <1>1, <1>2, <2>1, <2>2
<1>7. FlowOK'
  BY <1>1, <1>4, <1>5, <1>6, TypeParts DEF FlowOK
<1>8. BooksOK'
  BY OnlyFates DEF TypeInv, TypeOK, WorkerTake
<1> QED
  BY <1>7, <1>8

(* The steps of the flush function and of Run.                             *)
LEMMA WorkerTyped ==
    ASSUME TypeInv, NEW r \in running,
           FetchFailed(r) \/ Fetched(r) \/ RunOutcome(r) \/ RunComplete(r)
    PROVE  FlowOK' /\ BooksOK'
<1>1. r.turn \in Seq(Posts) /\ r.turn # <<>>
  BY TypeParts DEF FlowOK
<1>2. /\ UNCHANGED <<handling, buf, firing, queue>>
      /\ \E at \in {"fetch", "run", "complete"} :
           running' \in {running \ {r}, (running \ {r}) \cup {[r EXCEPT !.at = at]}}
  BY DEF FetchFailed, Fetched, RunOutcome, RunComplete
<1>3. FlowOK'
  BY <1>2, TypeParts, RunningChanges
<1>4. fate' \in [Posts -> SUBSET Fates]
  <2>1. CASE UNCHANGED fate
    BY <2>1 DEF TypeInv, TypeOK
  <2>2. ASSUME NEW f \in Fates, Mark(Elements(r.turn), f) PROVE fate' \in [Posts -> SUBSET Fates]
    BY <2>2, MarkAdds DEF TypeInv
  <2>3. {"outcome", "hostReplied", "fetchFailed"} \subseteq Fates
    BY DEF Fates
  <2> QED
    BY <2>1, <2>2, <2>3 DEF FetchFailed, Fetched, RunOutcome, RunComplete
<1>5. runs' \in [Posts -> Nat]
  <2>1. \/ UNCHANGED runs
        \/ runs' = [p \in Posts |-> IF p \in Elements(r.turn) THEN runs[p] + 1 ELSE runs[p]]
    BY DEF FetchFailed, Fetched, RunOutcome, RunComplete
  <2>2. runs \in [Posts -> Nat]
    BY DEF TypeInv, TypeOK
  <2> QED
    BY <2>1, <2>2
<1>6. idem' \in [Posts -> {"new", "claimed", "complete"}]
  <2>1. UNCHANGED idem \/ idem' = [idem EXCEPT ![LastPost(r.turn)] = "complete"]
    BY DEF FetchFailed, Fetched, RunOutcome, RunComplete
  <2> QED
    BY <2>1 DEF TypeInv, TypeOK
<1>7. UNCHANGED <<store, phase, upsets, deliveries, hosted, answered, booted>>
  BY DEF FetchFailed, Fetched, RunOutcome, RunComplete
<1>8. BooksOK'
  BY <1>4, <1>5, <1>6, <1>7, OnlyFates
<1> QED
  BY <1>3, <1>8

(* The first stage of the shutdown, and the end of the process.            *)
LEMMA StopTyped ==
    ASSUME TypeInv, ShutdownDebouncer \/ ShutdownServer \/ Crash
    PROVE  FlowOK' /\ BooksOK'
<1>1. /\ buf' \in [Keys -> Seq(Posts)]
      /\ \A k \in Keys : \A p \in Elements(buf'[k]) : KeyOf[p] = k
  <2>1. buf' = [k \in Keys |-> <<>>]
    BY DEF ShutdownDebouncer, ShutdownServer, Crash, Vanish
  <2>2. \A k \in Keys : buf'[k] = <<>>
    BY <2>1
  <2>3. \A k \in Keys : Elements(buf'[k]) = {}
    BY <2>2, NoElements
  <2>4. buf' \in [Keys -> Seq(Posts)]
    BY <2>1
  <2> QED
    BY <2>3, <2>4
<1>2. CASE ShutdownDebouncer
  <2>1. fate' \in [Posts -> SUBSET Fates]
    BY <1>2, MarkAdds DEF TypeInv, ShutdownDebouncer, Fates
  <2>2. BooksOK'
    BY <1>2, <2>1, OnlyFates DEF TypeInv, TypeOK, ShutdownDebouncer
  <2>3. FlowOK'
    BY <1>1, <1>2, TypeParts DEF FlowOK, ShutdownDebouncer
  <2> QED
    BY <2>2, <2>3
<1>3. CASE Vanish
  <2>1. fate' \in [Posts -> SUBSET Fates] /\ phase' \in Phases
    BY <1>3, MarkAdds DEF TypeInv, Vanish, Fates, Phases
  <2>2. /\ replay' \in [left : Seq(Posts), at : {"idle", "run", "complete"}]
        /\ replay'.at = "idle"
    BY <1>3 DEF Vanish
  <2>3. BooksOK'
    BY <1>3, <2>1, <2>2, TypeParts DEF BooksOK, Vanish
  <2>4. /\ queue' \in Seq(Seq(Posts)) /\ Len(queue') = 0
        /\ IsFiniteSet(running') /\ Cardinality(running') = 0
    BY <1>3, FS_EmptySet DEF Vanish
  <2>5. FlowOK'
    BY <1>1, <1>3, <2>4, PipelineAssumption DEF FlowOK, Vanish
  <2> QED
    BY <2>3, <2>5
<1> QED
  BY <1>2, <1>3 DEF ShutdownServer, Crash

(* Next, split by what the step does to the flow of posts.                 *)
LEMMA NextCases ==
    ASSUME Next
    PROVE  \/ BookStep
           \/ \E p \in Posts : Webhook(p) \/ PushClaimed(p)
           \/ \E k \in Keys : WebhookNonGuest(k) \/ Fire(k)
           \/ \E f \in firing : EnqueueCheck(f) \/ EnqueueSend(f)
           \/ WorkerTake
           \/ \E r \in running :
                FetchFailed(r) \/ Fetched(r) \/ RunOutcome(r) \/ RunComplete(r)
           \/ ShutdownDebouncer \/ ShutdownServer \/ Crash
  BY DEF Next, Progress, BookStep

(* The queue and the workers stay within their limits and everything on    *)
(* its way is well formed, through every step of the server.               *)
THEOREM TypeCorrect == Spec => []TypeInv
<1>1. Init => TypeInv
  <2> SUFFICES ASSUME Init PROVE FlowOK /\ BooksOK
    BY TypeParts
  <2>1. /\ queue \in Seq(Seq(Posts)) /\ Len(queue) = 0
        /\ IsFiniteSet(running) /\ Cardinality(running) = 0
    BY FS_EmptySet DEF Init
  <2>2. FlowOK
    BY <2>1, PipelineAssumption, NoElements DEF Init, FlowOK
  <2>3. replay \in [left : Seq(Posts), at : {"idle", "run", "complete"}] /\ replay.at = "idle"
    BY PipelineAssumption DEF Init, AtBoot
  <2>4. phase \in Phases
    BY DEF Init, Phases
  <2>5. /\ deliveries \in [Posts -> Nat] /\ \A p \in Posts : deliveries[p] <= MaxDeliveries[p]
        /\ upsets \in 0..MaxUpsets
    BY PipelineAssumption DEF Init
  <2>6. BooksOK
    BY <2>3, <2>4, <2>5 DEF Init, BooksOK
  <2> QED
    BY <2>2, <2>6
<1>2. TypeInv /\ [Next]_vars => TypeInv'
  <2> SUFFICES ASSUME TypeInv, [Next]_vars PROVE FlowOK' /\ BooksOK'
    BY TypePartsNext
  <2>1. CASE Next
    BY <2>1, NextCases, BookStepTyped, WebhookTyped, PushTyped, BufferTyped,
       EnqueueTyped, TakeTyped, WorkerTyped, StopTyped
  <2>2. CASE UNCHANGED vars
    BY <2>2, TypeParts DEF FlowOK, BooksOK, vars
  <2> QED
    BY <2>1, <2>2
<1> QED
  BY <1>1, <1>2, PTL DEF Spec

-----------------------------------------------------------------------------
(* Claims and outcomes.                                                    *)

(* What is on record stays on record.                                      *)
LEMMA FateGrows ==
    ASSUME TypeInv, Next
    PROVE  \A p \in Posts : fate[p] \subseteq fate'[p]
<1>1. CASE UNCHANGED fate
  BY <1>1
<1>2. ASSUME NEW posts, NEW f \in Fates, Mark(posts, f)
      PROVE  \A p \in Posts : fate[p] \subseteq fate'[p]
  BY <1>2, MarkAdds DEF TypeInv
<1>3. UNCHANGED fate \/ \E f \in Fates : \E posts : Mark(posts, f)
  <2>1. {"outcome", "hostReplied", "fetchFailed", "lost", "refused"} = Fates
    BY DEF Fates
  <2>2. CASE BookStep
    BY <2>1, <2>2 DEF BookStep, WebhookEmptyBody, WebhookClaimFails, ClaimExpires,
       HostReply, ShutdownPool, PoolFinished, Restart, ResetIdempotency, AutoReplay,
       ReplayBegin, ReplaySkip, ReplayOutcome, ReplayComplete
  <2>3. CASE \E p \in Posts : Webhook(p) \/ PushClaimed(p)
    BY <2>1, <2>3 DEF Webhook, PushClaimed
  <2>4. CASE \E k \in Keys : WebhookNonGuest(k) \/ Fire(k)
    BY <2>1, <2>4 DEF WebhookNonGuest, Fire
  <2>5. CASE \E f \in firing : EnqueueCheck(f) \/ EnqueueSend(f)
    BY <2>1, <2>5 DEF EnqueueCheck, EnqueueSend
  <2>6. CASE WorkerTake
    BY <2>6 DEF WorkerTake
  <2>7. CASE \E r \in running :
               FetchFailed(r) \/ Fetched(r) \/ RunOutcome(r) \/ RunComplete(r)
    BY <2>1, <2>7 DEF FetchFailed, Fetched, RunOutcome, RunComplete
  <2>8. CASE ShutdownDebouncer \/ ShutdownServer \/ Crash
    BY <2>1, <2>8 DEF ShutdownDebouncer, ShutdownServer, Crash, Vanish
  <2> QED
    BY <2>2, <2>3, <2>4, <2>5, <2>6, <2>7, <2>8, NextCases
<1> QED
  BY <1>1, <1>2, <1>3

(* What a step may do to the claim of a post: nothing, forget it, make it  *)
(* on a delivery, or complete it with the outcome on record.               *)
LEMMA ClaimChanges ==
    ASSUME TypeInv, OutcomeInv, Next, NEW p \in Posts
    PROVE  /\ deliveries[p] \in Nat /\ deliveries'[p] \in Nat /\ deliveries'[p] >= deliveries[p]
           /\ \/ idem'[p] = idem[p]
              \/ idem'[p] = "new"
              \/ idem'[p] = "claimed" /\ deliveries'[p] > 0
              \/ idem'[p] = "complete" /\ "outcome" \in fate[p]
<1>1. deliveries \in [Posts -> Nat] /\ idem \in [Posts -> {"new", "claimed", "complete"}]
  BY DEF TypeInv, TypeOK
<1>2. ASSUME NEW q \in Posts, Webhook(q)
      PROVE  /\ deliveries'[p] \in Nat /\ deliveries'[p] >= deliveries[p]
             /\ \/ idem'[p] = idem[p]
                \/ idem'[p] = "claimed" /\ deliveries'[p] > 0
  BY <1>1, <1>2 DEF Webhook, Delivers, SeenOrClaim
<1>3. ASSUME NEW q \in Posts, WebhookEmptyBody(q)
      PROVE  /\ deliveries'[p] \in Nat /\ deliveries'[p] >= deliveries[p]
             /\ idem'[p] = idem[p]
  BY <1>1, <1>3 DEF WebhookEmptyBody, Delivers
<1>3a. ASSUME NEW q \in Posts, WebhookClaimFails(q)
      PROVE  /\ deliveries'[p] \in Nat /\ deliveries'[p] >= deliveries[p]
             /\ \/ idem'[p] = idem[p]
                \/ idem'[p] = "claimed" /\ deliveries'[p] > 0
  BY <1>1, <1>3a DEF WebhookClaimFails, Delivers
<1>4. ASSUME NEW r \in running, RunComplete(r)
      PROVE  /\ UNCHANGED deliveries
             /\ \/ idem'[p] = idem[p]
                \/ idem'[p] = "complete" /\ "outcome" \in fate[p]
  <2>1. LastPost(r.turn) \in Elements(r.turn) /\ LastPost(r.turn) \in Posts
    BY TypeParts, SequenceElements DEF FlowOK, LastPost
  <2>2. "outcome" \in fate[LastPost(r.turn)]
    BY <1>4, <2>1 DEF OutcomeInv, RunComplete
  <2> QED
    BY <1>1, <1>4, <2>1, <2>2 DEF RunComplete
<1>5. ASSUME ReplayComplete
      PROVE  /\ UNCHANGED deliveries
             /\ \/ idem'[p] = idem[p]
                \/ idem'[p] = "complete" /\ "outcome" \in fate[p]
  BY <1>1, <1>5 DEF OutcomeInv, ReplayComplete, replaying
<1>6. ASSUME Restart \/ ResetIdempotency \/ \E q \in Posts : ClaimExpires(q)
      PROVE  UNCHANGED deliveries /\ (idem'[p] = idem[p] \/ idem'[p] = "new")
  BY <1>1, <1>6 DEF Restart, ResetIdempotency, ClaimExpires
<1>7. \/ UNCHANGED <<deliveries, idem>>
      \/ \E q \in Posts : Webhook(q) \/ WebhookClaimFails(q) \/ WebhookEmptyBody(q)
      \/ \E r \in running : RunComplete(r)
      \/ ReplayComplete
      \/ Restart \/ ResetIdempotency \/ \E q \in Posts : ClaimExpires(q)
  BY DEF Next, Progress, PushClaimed, Fire, EnqueueCheck, EnqueueSend, WorkerTake,
     FetchFailed, Fetched, RunOutcome, AutoReplay, ReplayBegin, ReplaySkip, ReplayOutcome,
     replaying, HostReply, WebhookNonGuest, ShutdownDebouncer, ShutdownPool, PoolFinished,
     ShutdownServer, Crash, Vanish
<1> QED
  BY <1>1, <1>2, <1>3, <1>3a, <1>4, <1>5, <1>6, <1>7

(* A worker's turn is at "complete" only after RunOutcome recorded it.     *)
LEMMA RunningComplete ==
    ASSUME TypeInv, OutcomeInv, Next, NEW s \in running', s.at = "complete",
           NEW p \in Elements(s.turn)
    PROVE  "outcome" \in fate'[p]
<1>1. p \in Posts
  <2>1. FlowOK'
    BY NextCases, BookStepTyped, WebhookTyped, PushTyped, BufferTyped,
       EnqueueTyped, TakeTyped, WorkerTyped, StopTyped
  <2>2. s.turn \in Seq(Posts)
    BY <2>1 DEF FlowOK
  <2> QED
    BY <2>2, SequenceElements
<1>2. CASE s \in running
  BY <1>1, <1>2, FateGrows DEF OutcomeInv
<1>3. CASE s \notin running
  <2>1. \/ WorkerTake
        \/ \E r \in running : Fetched(r) \/ RunOutcome(r)
    BY <1>3 DEF Next, Progress, PushClaimed, Fire, EnqueueCheck, EnqueueSend, FetchFailed,
       RunComplete, AutoReplay, ReplayBegin, ReplaySkip, ReplayOutcome, ReplayComplete,
       replaying, Webhook, WebhookEmptyBody, WebhookClaimFails, HostReply, WebhookNonGuest,
       ShutdownDebouncer, ShutdownPool, PoolFinished, ShutdownServer, Crash, Vanish,
       Restart, ResetIdempotency, ClaimExpires
  <2>2. ~WorkerTake
    BY <1>3 DEF WorkerTake
  <2>3. PICK r \in running : Fetched(r) \/ RunOutcome(r)
    BY <2>1, <2>2
  <2>4. r = [turn |-> r.turn, at |-> r.at]
    BY TypeParts DEF FlowOK
  <2>5. ~Fetched(r)
    BY <1>3, <2>4 DEF Fetched
  <2>6. s.turn = r.turn /\ Mark(Elements(r.turn), "outcome")
    BY <1>3, <2>3, <2>4, <2>5 DEF RunOutcome
  <2> QED
    BY <1>1, <2>6, MarkAdds DEF TypeInv, Fates
<1> QED
  BY <1>2, <1>3

(* Every step keeps a complete claim tied to an outcome.                   *)
LEMMA OutcomeStep ==
    ASSUME TypeInv, OutcomeInv, Next
    PROVE  OutcomeInv'
<1>1. CompleteMeansOutcome'
  BY ClaimChanges, FateGrows DEF OutcomeInv, CompleteMeansOutcome
<1>2. ASSUME replay'.at = "complete" PROVE "outcome" \in fate'[Head(replay'.left)]
  <2>1. replay = [left |-> replay.left, at |-> replay.at]
    BY TypeParts DEF BooksOK
  <2>2. UNCHANGED replay \/ AutoReplay \/ Vanish \/ Restart
    BY DEF Next, Progress, PushClaimed, Fire, EnqueueCheck, EnqueueSend, WorkerTake,
       FetchFailed, Fetched, RunOutcome, RunComplete, Webhook, WebhookEmptyBody,
       WebhookClaimFails, HostReply, WebhookNonGuest, ShutdownDebouncer, ShutdownPool,
       PoolFinished, ShutdownServer, Crash, ResetIdempotency, ClaimExpires, booted
  <2>3. ~ReplayBegin /\ ~ReplaySkip /\ ~ReplayComplete /\ ~Vanish /\ ~Restart
    <3>1. ReplayBegin => replay'.at = "run"
      BY <2>1 DEF ReplayBegin
    <3>2. ReplaySkip => replay'.at = "idle"
      BY <2>1 DEF ReplaySkip
    <3>3. ReplayComplete \/ Vanish \/ Restart => replay'.at = "idle"
      BY DEF ReplayComplete, Vanish, Restart, AtBoot
    <3> QED
      BY <1>2, <3>1, <3>2, <3>3
  <2>4. CASE UNCHANGED replay
    <3>1. Head(replay.left) \in Posts
      BY <1>2, <2>4, TypeParts, SequenceElements DEF BooksOK
    <3> QED
      BY <1>2, <2>4, <3>1, FateGrows DEF OutcomeInv
  <2>5. CASE ReplayOutcome
    <3>1. Head(replay.left) \in Posts /\ replay = [left |-> replay.left, at |-> replay.at]
      BY <2>5, TypeParts, SequenceElements DEF BooksOK, ReplayOutcome
    <3>2. replay'.left = replay.left
      BY <2>5, <3>1 DEF ReplayOutcome
    <3> QED
      BY <2>5, <3>1, <3>2, MarkAdds DEF ReplayOutcome, TypeInv, Fates
  <2> QED
    BY <2>2, <2>3, <2>4, <2>5 DEF AutoReplay
<1> QED
  BY <1>1, <1>2, RunningComplete DEF OutcomeInv

(* Every step keeps a claim tied to a delivery.                            *)
LEMMA ClaimStep ==
    ASSUME TypeInv, OutcomeInv, ClaimInv, Next
    PROVE  ClaimInv'
<1> SUFFICES ASSUME NEW p \in Posts, idem'[p] = "claimed" PROVE deliveries'[p] > 0
  BY DEF ClaimInv
<1> QED
  BY ClaimChanges DEF ClaimInv

-----------------------------------------------------------------------------
(* No delivered post goes missing.                                         *)

(* The posts in the process are the ones in a place of the flow, and the   *)
(* fixture the auto-replay is in.                                          *)
LEMMA InProcessIs ==
    ASSUME NEW p
    PROVE  /\ p \in InProcess <=> ~Nowhere(p) \/ p \in InReplay
           /\ (p \in InProcess)' <=> ~Nowhere(p)' \/ (p \in InReplay)'
  BY SMTT(30) DEF InProcess, InBuffers, InFiring, InQueue, InRunning, Nowhere, Buffered, Fired,
     Queued, WithWorker, Elements

(* What leaves the buffers.                                                *)
LEMMA BufferLeavers ==
    ASSUME TypeInv, NEW p \in Posts, Buffered(p), NEW k \in Keys,
           buf' = [buf EXCEPT ![k] = <<>>]
    PROVE  Buffered(p)' \/ p \in Elements(buf[k])
<1>1. buf \in [Keys -> Seq(Posts)]
  BY DEF TypeInv, TypeOK
<1>2. PICK l \in Keys : p \in Elements(buf[l])
  BY DEF Buffered
<1>3. l # k => buf'[l] = buf[l]
  BY <1>1
<1> QED
  BY <1>2, <1>3 DEF Buffered

(* A step takes a post on to its next place, or puts its end on record.    *)
LEMMA NotForgotten ==
    ASSUME TypeInv, OutcomeInv, Next, NEW p \in Posts, p \in InProcess
    PROVE  (p \in InProcess)' \/ fate'[p] # {}
<1> SUFFICES ASSUME ~Nowhere(p) \/ p \in InReplay
             PROVE  ~Nowhere(p)' \/ (p \in InReplay)' \/ fate'[p] # {}
  BY InProcessIs
<1>1. ASSUME NEW posts, NEW f \in Fates, Mark(posts, f), p \in posts
      PROVE  fate'[p] # {}
  BY <1>1, MarkAdds DEF TypeInv
<1>2. {"outcome", "hostReplied", "fetchFailed", "lost", "refused"} = Fates
  BY DEF Fates
<1>3. CASE BookStep
  <2>1. Nowhere(p)' = Nowhere(p)
    BY <1>3, BookStepTyped DEF flow, Nowhere, Buffered, Fired, Queued, WithWorker, Elements
  <2>2. CASE p \in InReplay
    <3>1. replay.at # "idle" /\ p = Head(replay.left) /\ phase # "down"
      BY <2>2, TypeParts DEF InReplay, BooksOK
    <3>2. CASE UNCHANGED replay
      BY <2>2, <3>2 DEF InReplay
    <3>3. CASE ReplayOutcome
      BY <1>1, <1>2, <3>1, <3>3 DEF ReplayOutcome
    <3>4. CASE ReplayComplete
      BY <3>1, <3>4, FateGrows DEF ReplayComplete, OutcomeInv
    <3>5. ~ReplayBegin /\ ~ReplaySkip /\ ~Restart
      BY <3>1 DEF ReplayBegin, ReplaySkip, Restart
    <3>6. UNCHANGED replay \/ ReplayOutcome \/ ReplayComplete
      BY <1>3, <3>5 DEF BookStep, AutoReplay, WebhookEmptyBody, WebhookClaimFails,
         ClaimExpires, HostReply, ShutdownPool, PoolFinished, ResetIdempotency, booted
    <3> QED
      BY <3>2, <3>3, <3>4, <3>6
  <2> QED
    BY <2>1, <2>2
<1>4. CASE ShutdownServer \/ Crash
  BY <1>1, <1>2, <1>4 DEF ShutdownServer, Crash, Vanish
<1>5. ASSUME UNCHANGED replay, p \in InReplay PROVE (p \in InReplay)'
  BY <1>5 DEF InReplay
<1>6. CASE \E q \in Posts : Webhook(q) \/ PushClaimed(q)
  <2>1. PICK q \in Posts : Webhook(q) \/ PushClaimed(q)
    BY <1>6
  <2>2. CASE Webhook(q)
    <3>1. UNCHANGED <<replay, buf, firing, queue, running>> /\ handling \subseteq handling'
      BY <2>2 DEF Webhook, SeenOrClaim, booted
    <3> QED
      BY <1>5, <3>1 DEF Nowhere, Buffered, Fired, Queued, WithWorker, Elements
  <2>3. CASE PushClaimed(q)
    <3>1. UNCHANGED <<replay, firing, queue, running>> /\ handling' = handling \ {q}
      BY <2>3 DEF PushClaimed, booted
    <3>2. Fired(p)' = Fired(p) /\ Queued(p)' = Queued(p) /\ WithWorker(p)' = WithWorker(p)
      BY <3>1 DEF Fired, Queued, WithWorker, Elements
    <3>3. CASE Mark({q}, "lost") /\ UNCHANGED buf
      <4>1. Buffered(p)' = Buffered(p)
        BY <3>3 DEF Buffered, Elements
      <4> QED
        BY <1>1, <1>2, <1>5, <3>1, <3>2, <3>3, <4>1 DEF Nowhere
    <3>4. CASE buf' = [buf EXCEPT ![KeyOf[q]] =
                           IF q \in Elements(@) THEN @ ELSE Append(@, q)]
      <4>1. KeyOf[q] \in Keys /\ buf \in [Keys -> Seq(Posts)]
        BY PipelineAssumption DEF TypeInv, TypeOK
      <4>2. Elements(Append(buf[KeyOf[q]], q)) = Elements(buf[KeyOf[q]]) \cup {q}
        BY <4>1, AppendElements
      <4>3. \/ buf'[KeyOf[q]] = buf[KeyOf[q]] /\ q \in Elements(buf[KeyOf[q]])
            \/ buf'[KeyOf[q]] = Append(buf[KeyOf[q]], q)
        BY <3>4, <4>1
      <4>4. \A k \in Keys : k # KeyOf[q] => buf'[k] = buf[k]
        BY <3>4, <4>1
      <4>5. \A k \in Keys : Elements(buf[k]) \subseteq Elements(buf'[k])
        BY <4>2, <4>3, <4>4
      <4>6. q \in Elements(buf'[KeyOf[q]])
        BY <4>2, <4>3
      <4>7. (Buffered(p) \/ p = q) => Buffered(p)'
        BY <4>1, <4>5, <4>6 DEF Buffered
      <4> QED
        BY <1>5, <3>1, <3>2, <4>7 DEF Nowhere
    <3> QED
      BY <2>3, <3>3, <3>4 DEF PushClaimed
  <2> QED
    BY <2>1, <2>2, <2>3
<1>7. CASE \E k \in Keys : WebhookNonGuest(k) \/ Fire(k)
  <2>1. PICK k \in Keys : WebhookNonGuest(k) \/ Fire(k)
    BY <1>7
  <2>2. /\ UNCHANGED <<replay, handling, queue, running>>
        /\ buf' = [buf EXCEPT ![k] = <<>>]
    BY <2>1 DEF WebhookNonGuest, Fire, booted
  <2>3. Queued(p)' = Queued(p) /\ WithWorker(p)' = WithWorker(p)
    BY <2>2 DEF Queued, WithWorker, Elements
  <2>4. Buffered(p) => Buffered(p)' \/ p \in Elements(buf[k])
    BY <2>2, BufferLeavers
  <2>5. Fired(p) => Fired(p)'
    BY <2>1 DEF WebhookNonGuest, Fire, Fired
  <2>6. p \in Elements(buf[k]) => Fired(p)' \/ fate'[p] # {}
    <3>1. CASE WebhookNonGuest(k)
      BY <1>1, <1>2, <3>1 DEF WebhookNonGuest
    <3>2. CASE Fire(k)
      <4> DEFINE f == [turn |-> buf[k], checked |-> FALSE]
      <4>1. f \in firing' /\ f.turn = buf[k]
        BY <3>2 DEF Fire
      <4> HIDE DEF f
      <4> QED
        BY <4>1 DEF Fired
    <3> QED
      BY <2>1, <3>1, <3>2
  <2> QED
    BY <1>5, <2>2, <2>3, <2>4, <2>5, <2>6 DEF Nowhere
<1>8. CASE \E f \in firing : EnqueueCheck(f) \/ EnqueueSend(f)
  <2>1. PICK f \in firing : EnqueueCheck(f) \/ EnqueueSend(f)
    BY <1>8
  <2>2. UNCHANGED <<replay, handling, buf, running>> /\ firing \ {f} \subseteq firing'
    BY <2>1 DEF EnqueueCheck, EnqueueSend, booted
  <2>3. Buffered(p)' = Buffered(p) /\ WithWorker(p)' = WithWorker(p)
    BY <2>2 DEF Buffered, WithWorker, Elements
  <2>4. Fired(p) => Fired(p)' \/ p \in Elements(f.turn)
    BY <2>2 DEF Fired
  <2>5. f.turn \in Seq(Posts) /\ queue \in Seq(Seq(Posts)) /\ f = [turn |-> f.turn, checked |-> f.checked]
    BY TypeParts DEF FlowOK
  <2>6. Queued(p) => Queued(p)'
    <3>1. UNCHANGED queue \/ queue' = Append(queue, f.turn)
      BY <2>1 DEF EnqueueCheck, EnqueueSend
    <3>2. Len(queue) <= Len(queue') /\ \A i \in 1..Len(queue) : i \in 1..Len(queue') /\ queue'[i] = queue[i]
      BY <2>5, <3>1, AppendElements
    <3> QED
      BY <3>2 DEF Queued
  <2>7. p \in Elements(f.turn) => Fired(p)' \/ Queued(p)' \/ fate'[p] # {}
    <3>1. CASE Mark(Elements(f.turn), "outcome")
      BY <1>1, <1>2, <3>1
    <3>2. CASE firing' = (firing \ {f}) \cup {[f EXCEPT !.checked = TRUE]}
      <4> DEFINE g == [f EXCEPT !.checked = TRUE]
      <4>1. g \in firing' /\ g.turn = f.turn
        BY <2>5, <3>2
      <4> HIDE DEF g
      <4> QED
        BY <4>1 DEF Fired
    <3>3. CASE queue' = Append(queue, f.turn)
      <4>1. Len(queue) + 1 \in 1..Len(queue') /\ queue'[Len(queue) + 1] = f.turn
        BY <2>5, <3>3, AppendElements
      <4> QED
        BY <4>1 DEF Queued
    <3> QED
      BY <2>1, <3>1, <3>2, <3>3 DEF EnqueueCheck, EnqueueSend
  <2> QED
    BY <1>5, <2>2, <2>3, <2>4, <2>6, <2>7 DEF Nowhere
<1>9. CASE WorkerTake
  <2>1. /\ UNCHANGED <<replay, handling, buf, firing>> /\ queue # <<>>
        /\ running' = running \cup {[turn |-> Head(queue), at |-> "fetch"]}
        /\ queue' = Tail(queue)
    BY <1>9 DEF WorkerTake, booted
  <2>2. Buffered(p)' = Buffered(p) /\ Fired(p)' = Fired(p)
    BY <2>1 DEF Buffered, Fired, Elements
  <2>3. WithWorker(p) => WithWorker(p)'
    BY <2>1 DEF WithWorker
  <2>4. /\ Head(queue) = queue[1] /\ Len(queue) \in Nat \ {0} /\ Len(queue') = Len(queue) - 1
        /\ \A i \in 1..Len(queue') : queue'[i] = queue[i + 1]
    BY <2>1, TypeParts, TailIndices DEF FlowOK
  <2>5. p \in Elements(queue[1]) => WithWorker(p)'
    <3> DEFINE r == [turn |-> Head(queue), at |-> "fetch"]
    <3>1. r \in running' /\ r.turn = queue[1]
      BY <2>1, <2>4
    <3> HIDE DEF r
    <3> QED
      BY <3>1 DEF WithWorker
  <2>6. Queued(p) => Queued(p)' \/ p \in Elements(queue[1])
    <3>1. SUFFICES ASSUME NEW i \in 1..Len(queue), p \in Elements(queue[i]), i # 1
                   PROVE  Queued(p)'
      BY DEF Queued
    <3>2. i - 1 \in 1..Len(queue') /\ queue'[i - 1] = queue[(i - 1) + 1] /\ (i - 1) + 1 = i
      BY <2>4, <3>1
    <3> QED
      BY <3>1, <3>2 DEF Queued
  <2> QED
    BY <1>5, <2>1, <2>2, <2>3, <2>5, <2>6 DEF Nowhere
<1>10. CASE \E r \in running :
              FetchFailed(r) \/ Fetched(r) \/ RunOutcome(r) \/ RunComplete(r)
  <2>1. PICK r \in running : FetchFailed(r) \/ Fetched(r) \/ RunOutcome(r) \/ RunComplete(r)
    BY <1>10
  <2>2. UNCHANGED <<replay, handling, buf, firing, queue>> /\ running \ {r} \subseteq running'
    BY <2>1 DEF FetchFailed, Fetched, RunOutcome, RunComplete, booted
  <2>3. Buffered(p)' = Buffered(p) /\ Fired(p)' = Fired(p) /\ Queued(p)' = Queued(p)
    BY <2>2 DEF Buffered, Fired, Queued, Elements
  <2>4. WithWorker(p) => WithWorker(p)' \/ p \in Elements(r.turn)
    BY <2>2 DEF WithWorker
  <2>5. p \in Elements(r.turn) => WithWorker(p)' \/ fate'[p] # {}
    <3>1. CASE \E f \in Fates : Mark(Elements(r.turn), f)
      BY <1>1, <3>1
    <3>2. CASE running' = (running \ {r}) \cup {[r EXCEPT !.at = "run"]}
      <4> DEFINE s == [r EXCEPT !.at = "run"]
      <4>1. s \in running' /\ s.turn = r.turn
        <5>1. r = [turn |-> r.turn, at |-> r.at]
          BY TypeParts DEF FlowOK
        <5> QED
          BY <3>2, <5>1
      <4> HIDE DEF s
      <4> QED
        BY <4>1 DEF WithWorker
    <3>3. CASE RunComplete(r)
      BY <3>3, FateGrows DEF RunComplete, OutcomeInv
    <3> QED
      BY <1>2, <2>1, <3>1, <3>2, <3>3 DEF FetchFailed, Fetched, RunOutcome
  <2> QED
    BY <1>5, <2>2, <2>3, <2>4, <2>5 DEF Nowhere
<1>11. CASE ShutdownDebouncer
  <2>1. UNCHANGED <<replay, handling, firing, queue, running>> /\ Mark(InBuffers, "lost")
    BY <1>11 DEF ShutdownDebouncer, booted
  <2>2. Fired(p)' = Fired(p) /\ Queued(p)' = Queued(p) /\ WithWorker(p)' = WithWorker(p)
    BY <2>1 DEF Fired, Queued, WithWorker, Elements
  <2>3. Buffered(p) => p \in InBuffers
    BY DEF Buffered, InBuffers
  <2> QED
    BY <1>1, <1>2, <1>5, <2>1, <2>2, <2>3 DEF Nowhere
<1> QED
  BY <1>3, <1>4, <1>6, <1>7, <1>8, <1>9, <1>10, <1>11, NextCases

(* A delivery of a post that is not new finds it in the process or with    *)
(* its end on record already; a first one claims it, escalates it or is    *)
(* refused.                                                                *)
LEMMA AccountStep ==
    ASSUME TypeInv, OutcomeInv, ClaimInv, DeliveredIsAccounted, Next
    PROVE  DeliveredIsAccounted'
<1> SUFFICES ASSUME NEW p \in Posts, deliveries'[p] > 0
             PROVE  (p \in InProcess)' \/ fate'[p] # {}
  BY DEF DeliveredIsAccounted
<1>1. deliveries \in [Posts -> Nat] /\ idem \in [Posts -> {"new", "claimed", "complete"}]
  BY DEF TypeInv, TypeOK
<1>2. CASE p \in InProcess \/ fate[p] # {}
  BY <1>2, NotForgotten, FateGrows
<1>3. CASE p \notin InProcess /\ fate[p] = {}
  <2>1. deliveries[p] = 0 /\ idem[p] = "new"
    BY <1>1, <1>3 DEF DeliveredIsAccounted, ClaimInv, OutcomeInv, CompleteMeansOutcome
  <2>2. Webhook(p) \/ WebhookClaimFails(p) \/ WebhookEmptyBody(p)
    <3>1. \/ UNCHANGED deliveries
          \/ \E q \in Posts : Webhook(q) \/ WebhookClaimFails(q) \/ WebhookEmptyBody(q)
      BY DEF Next, Progress, PushClaimed, Fire, EnqueueCheck, EnqueueSend, WorkerTake,
         FetchFailed, Fetched, RunOutcome, RunComplete, AutoReplay, ReplayBegin,
         ReplaySkip, ReplayOutcome, ReplayComplete, replaying, HostReply, WebhookNonGuest,
         ShutdownDebouncer, ShutdownPool, PoolFinished, ShutdownServer, Crash, Vanish,
         Restart, ResetIdempotency, ClaimExpires
    <3>2. ASSUME NEW q \in Posts, q # p,
                 Webhook(q) \/ WebhookClaimFails(q) \/ WebhookEmptyBody(q)
          PROVE  deliveries'[p] = deliveries[p]
      BY <1>1, <3>2 DEF Webhook, WebhookClaimFails, WebhookEmptyBody, Delivers
    <3> QED
      BY <2>1, <3>1, <3>2
  <2>3. CASE Webhook(p)
    <3>1. p \in handling'
      BY <2>1, <2>3 DEF Webhook, SeenOrClaim
    <3> QED
      BY <3>1 DEF InProcess
  <2>4. CASE WebhookEmptyBody(p)
    BY <2>4, MarkAdds DEF WebhookEmptyBody, TypeInv, Fates
  <2>5. CASE WebhookClaimFails(p)
    BY <2>5, MarkAdds DEF WebhookClaimFails, TypeInv, Fates
  <2> QED
    BY <2>2, <2>3, <2>4, <2>5
<1> QED
  BY <1>2, <1>3

-----------------------------------------------------------------------------
(* The token argument: where a post may go in one step.                    *)

(* A part of the flow that a step leaves alone keeps its posts.            *)
LEMMA PlacesKept ==
    ASSUME NEW p
    PROVE  /\ UNCHANGED buf => Buffered(p)' = Buffered(p)
           /\ UNCHANGED firing => Fired(p)' = Fired(p) /\ OneFired(p)' = OneFired(p)
           /\ UNCHANGED queue => Queued(p)' = Queued(p) /\ OneQueued(p)' = OneQueued(p)
           /\ UNCHANGED running =>
                WithWorker(p)' = WithWorker(p) /\ OneRunning(p)' = OneRunning(p)
                /\ Fetching(p)' = Fetching(p)
  BY DEF Buffered, Fired, Queued, WithWorker, OneFired, OneQueued, OneRunning, Fetching,
     Elements

(* Push: from the handler into the buffer.                                 *)
LEMMA OncePush ==
    ASSUME TypeInv, NEW q \in Posts, PushClaimed(q), NEW p \in Posts, OnceAt(p)
    PROVE  OnceAt(p)'
<1>1. UNCHANGED <<firing, queue, running, idem, runs, replayed>> /\ handling' = handling \ {q}
      /\ q \in handling
  BY DEF PushClaimed, booted
<1>2. Buffered(p)' => Buffered(p) \/ p = q
  <2>1. CASE UNCHANGED buf
    BY <2>1, PlacesKept
  <2>2. CASE buf' = [buf EXCEPT ![KeyOf[q]] = IF q \in Elements(@) THEN @ ELSE Append(@, q)]
    <3>1. KeyOf[q] \in Keys /\ buf \in [Keys -> Seq(Posts)]
      BY PipelineAssumption DEF TypeInv, TypeOK
    <3>2. Elements(Append(buf[KeyOf[q]], q)) = Elements(buf[KeyOf[q]]) \cup {q}
      BY <3>1, AppendElements
    <3>3. buf'[KeyOf[q]] \in {buf[KeyOf[q]], Append(buf[KeyOf[q]], q)}
      BY <2>2, <3>1
    <3>4. \A k \in Keys : k # KeyOf[q] => buf'[k] = buf[k]
      BY <2>2, <3>1
    <3>5. \A k \in Keys : Elements(buf'[k]) \subseteq Elements(buf[k]) \cup {q}
      BY <3>2, <3>3, <3>4
    <3> QED
      BY <3>5 DEF Buffered
  <2> QED
    BY <2>1, <2>2 DEF PushClaimed
<1> QED
  BY <1>1, <1>2, PlacesKept DEF OnceAt, InOnePlace, NotRunYet, Nowhere

(* Fire: from the buffer into a turn of its own; the host's webhook drops  *)
(* the buffer.  A post is in the buffer of its own conversation only.      *)
LEMMA OnceBuffer ==
    ASSUME TypeInv, NEW k \in Keys, WebhookNonGuest(k) \/ Fire(k), NEW p \in Posts, OnceAt(p)
    PROVE  OnceAt(p)'
<1>1. /\ UNCHANGED <<handling, queue, running, idem, runs, replayed>>
      /\ buf' = [buf EXCEPT ![k] = <<>>]
  BY DEF WebhookNonGuest, Fire, booted
<1>2. Buffered(p)' => Buffered(p) /\ p \notin Elements(buf[k])
  <2>1. /\ buf \in [Keys -> Seq(Posts)]
        /\ \A l \in Keys : \A q \in Elements(buf[l]) : KeyOf[q] = l
    BY TypeParts DEF FlowOK
  <2>2. SUFFICES ASSUME NEW l \in Keys, p \in Elements(buf'[l])
                 PROVE  Buffered(p) /\ p \notin Elements(buf[k])
    BY DEF Buffered
  <2>3. buf'[k] = <<>> /\ (l # k => buf'[l] = buf[l])
    BY <1>1, <2>1
  <2>4. l # k /\ p \in Elements(buf[l])
    BY <2>2, <2>3, NoElements
  <2> QED
    BY <2>1, <2>4 DEF Buffered
<1>3. CASE WebhookNonGuest(k)
  <2>1. UNCHANGED firing
    BY <1>3 DEF WebhookNonGuest
  <2> QED
    BY <1>1, <1>2, <2>1, PlacesKept DEF OnceAt, InOnePlace, NotRunYet, Nowhere
<1>4. CASE Fire(k)
  <2> DEFINE f == [turn |-> buf[k], checked |-> FALSE]
  <2>1. firing' = firing \cup {f} /\ f.turn = buf[k]
    BY <1>4 DEF Fire
  <2> HIDE DEF f
  <2>2. Fired(p)' => Fired(p) \/ p \in Elements(buf[k])
    BY <2>1 DEF Fired
  <2>3. p \in Elements(buf[k]) => Buffered(p)
    BY DEF Buffered
  <2>4. OneFired(p)'
    <3>1. OneFired(p) /\ (p \in Elements(buf[k]) => ~Fired(p))
      BY <2>3 DEF OnceAt, InOnePlace
    <3> QED
      BY <2>1, <3>1 DEF OneFired, Fired
  <2> QED
    BY <1>1, <1>2, <2>2, <2>3, <2>4, PlacesKept DEF OnceAt, InOnePlace, NotRunYet, Nowhere
<1> QED
  BY <1>3, <1>4

(* Enqueue: from its turn into the queue, or to an escalation.             *)
LEMMA OnceEnqueue ==
    ASSUME TypeInv, NEW f \in firing, EnqueueCheck(f) \/ EnqueueSend(f),
           NEW p \in Posts, OnceAt(p)
    PROVE  OnceAt(p)'
<1>1. UNCHANGED <<handling, buf, running, idem, runs, replayed>>
  BY DEF EnqueueCheck, EnqueueSend, booted
<1>2. f = [turn |-> f.turn, checked |-> f.checked] /\ f.turn \in Seq(Posts)
  BY TypeParts DEF FlowOK
<1>3. OneFired(p) /\ OneQueued(p)
  BY DEF OnceAt, InOnePlace
<1>4. CASE EnqueueCheck(f)
  <2> DEFINE g == [f EXCEPT !.checked = TRUE]
  <2>1. UNCHANGED queue /\ firing' \subseteq (firing \ {f}) \cup {g} /\ g.turn = f.turn
    BY <1>2, <1>4 DEF EnqueueCheck
  <2> HIDE DEF g
  <2>2. Fired(p)' => Fired(p)
    BY <2>1 DEF Fired
  <2>3. OneFired(p)'
    BY <1>3, <2>1 DEF OneFired
  <2> QED
    BY <1>1, <2>1, <2>2, <2>3, PlacesKept DEF OnceAt, InOnePlace, NotRunYet, Nowhere
<1>5. CASE EnqueueSend(f)
  <2>1. firing' = firing \ {f}
    BY <1>5 DEF EnqueueSend
  <2>2. Fired(p)' => Fired(p) /\ p \notin Elements(f.turn)
    BY <1>3, <2>1 DEF Fired, OneFired
  <2>3. OneFired(p)'
    BY <1>3, <2>1 DEF OneFired
  <2>4. p \in Elements(f.turn) => Fired(p)
    BY DEF Fired
  <2>5. CASE UNCHANGED queue
    BY <1>1, <2>2, <2>3, <2>5, PlacesKept DEF OnceAt, InOnePlace, NotRunYet, Nowhere
  <2>6. CASE queue' = Append(queue, f.turn)
    <3>1. /\ Len(queue) \in Nat /\ Len(queue') = Len(queue) + 1
          /\ queue'[Len(queue) + 1] = f.turn
          /\ \A i \in 1..Len(queue) : queue'[i] = queue[i]
      BY <1>2, <2>6, TypeParts, AppendElements DEF FlowOK
    <3>2. \A i \in 1..Len(queue') : i \in 1..Len(queue) \/ i = Len(queue) + 1
      BY <3>1
    <3>3. Queued(p)' => Queued(p) \/ p \in Elements(f.turn)
      BY <3>1, <3>2 DEF Queued
    <3>4. OneQueued(p)'
      <4>1. p \in Elements(f.turn) => ~Queued(p)
        BY <2>4 DEF OnceAt, InOnePlace
      <4>2. ASSUME NEW i \in 1..Len(queue'), NEW j \in 1..Len(queue'),
                   p \in Elements(queue'[i]), p \in Elements(queue'[j])
            PROVE  i = j
        <5>1. CASE i \in 1..Len(queue) /\ j \in 1..Len(queue)
          BY <1>3, <3>1, <4>2, <5>1 DEF OneQueued
        <5>2. CASE i = Len(queue) + 1 /\ j = Len(queue) + 1
          BY <5>2
        <5>3. CASE i \in 1..Len(queue) /\ j = Len(queue) + 1
          BY <3>1, <4>1, <4>2, <5>3 DEF Queued
        <5>4. CASE i = Len(queue) + 1 /\ j \in 1..Len(queue)
          BY <3>1, <4>1, <4>2, <5>4 DEF Queued
        <5> QED
          BY <3>2, <5>1, <5>2, <5>3, <5>4
      <4> QED
        BY <4>2 DEF OneQueued
    <3> QED
      BY <1>1, <2>2, <2>3, <2>4, <3>3, <3>4, PlacesKept
      DEF OnceAt, InOnePlace, NotRunYet, Nowhere
  <2> QED
    BY <1>5, <2>5, <2>6 DEF EnqueueSend
<1> QED
  BY <1>4, <1>5

(* A worker takes the turn at the head of the queue.                       *)
LEMMA OnceTake ==
    ASSUME TypeInv, WorkerTake, NEW p \in Posts, OnceAt(p)
    PROVE  OnceAt(p)'
<1> DEFINE r == [turn |-> Head(queue), at |-> "fetch"]
<1>1. /\ UNCHANGED <<handling, buf, firing, idem, runs, replayed>> /\ queue # <<>>
      /\ running' = running \cup {r} /\ queue' = Tail(queue)
  BY DEF WorkerTake, booted
<1>2. /\ Head(queue) = queue[1] /\ Len(queue) \in Nat \ {0} /\ Len(queue') = Len(queue) - 1
      /\ \A i \in 1..Len(queue') : queue'[i] = queue[i + 1] /\ i + 1 \in 2..Len(queue)
  BY <1>1, TypeParts, TailIndices DEF FlowOK
<1>3. r.turn = queue[1] /\ 1 \in 1..Len(queue)
  BY <1>2
<1> HIDE DEF r
<1>4. OneQueued(p) /\ OneRunning(p) /\ (p \in Elements(queue[1]) => Queued(p) /\ ~WithWorker(p))
  <2>1. p \in Elements(queue[1]) => Queued(p)
    BY <1>3 DEF Queued
  <2> QED
    BY <2>1 DEF OnceAt, InOnePlace
<1>5. Queued(p)' => Queued(p) /\ p \notin Elements(queue[1])
  <2>1. SUFFICES ASSUME NEW i \in 1..Len(queue'), p \in Elements(queue'[i])
                 PROVE  Queued(p) /\ p \notin Elements(queue[1])
    BY DEF Queued
  <2>2. i + 1 \in 1..Len(queue) /\ i + 1 # 1 /\ p \in Elements(queue[i + 1])
    BY <1>2, <2>1
  <2> QED
    BY <1>3, <1>4, <2>2 DEF Queued, OneQueued
<1>6. OneQueued(p)'
  <2>1. SUFFICES ASSUME NEW i \in 1..Len(queue'), NEW j \in 1..Len(queue'),
                        p \in Elements(queue'[i]), p \in Elements(queue'[j])
                 PROVE  i = j
    BY DEF OneQueued
  <2>2. /\ i + 1 \in 1..Len(queue) /\ p \in Elements(queue[i + 1])
        /\ j + 1 \in 1..Len(queue) /\ p \in Elements(queue[j + 1])
    BY <1>2, <2>1
  <2>3. i + 1 = j + 1
    BY <1>4, <2>2 DEF OneQueued
  <2> QED
    BY <1>2, <2>3
<1>7. /\ WithWorker(p)' => WithWorker(p) \/ p \in Elements(queue[1])
      /\ Fetching(p)' => Fetching(p) \/ p \in Elements(queue[1])
  BY <1>1, <1>3 DEF WithWorker, Fetching
<1>8. OneRunning(p)'
  BY <1>1, <1>3, <1>4 DEF OneRunning, WithWorker
<1> QED
  BY <1>1, <1>4, <1>5, <1>6, <1>7, <1>8, PlacesKept DEF OnceAt, InOnePlace, NotRunYet, Nowhere

(* The flush function and Run: the only step that counts a run finds the   *)
(* post with this worker, and never run before.                            *)
LEMMA OnceWorker ==
    ASSUME TypeInv, NEW r \in running,
           FetchFailed(r) \/ Fetched(r) \/ RunOutcome(r) \/ RunComplete(r),
           NEW p \in Posts, OnceAt(p)
    PROVE  OnceAt(p)'
<1>1. UNCHANGED <<handling, buf, firing, queue, replayed>>
  BY DEF FetchFailed, Fetched, RunOutcome, RunComplete, booted
<1>2. r = [turn |-> r.turn, at |-> r.at] /\ r.turn \in Seq(Posts)
  BY TypeParts DEF FlowOK
<1>3. PICK at \in {"run", "complete"} :
        running' \subseteq (running \ {r}) \cup {[r EXCEPT !.at = at]}
  BY DEF FetchFailed, Fetched, RunOutcome, RunComplete
<1> DEFINE s == [r EXCEPT !.at = at]
<1>4. s.turn = r.turn /\ s.at # "fetch" /\ running' \subseteq (running \ {r}) \cup {s}
  BY <1>2, <1>3
<1> HIDE DEF s
<1>5. OneRunning(p)
  BY DEF OnceAt, InOnePlace
<1>6. (WithWorker(p)' => WithWorker(p)) /\ OneRunning(p)'
  BY <1>4, <1>5 DEF WithWorker, OneRunning
<1>7. Fetching(p)' => Fetching(p) /\ p \notin Elements(r.turn)
  BY <1>4, <1>5 DEF Fetching, OneRunning
<1>8. p \in Elements(r.turn) => WithWorker(p)
  BY DEF WithWorker
<1>9. idem'[p] = idem[p] \/ idem'[p] = "complete"
  BY DEF TypeInv, TypeOK, FetchFailed, Fetched, RunOutcome, RunComplete
<1>10. runs \in [Posts -> Nat]
  BY DEF TypeInv, TypeOK
<1>11. CASE runs'[p] = runs[p]
  BY <1>1, <1>6, <1>7, <1>9, <1>11, PlacesKept DEF OnceAt, InOnePlace, NotRunYet, Nowhere
<1>12. CASE r.at = "fetch" /\ p \in Elements(r.turn) /\ runs'[p] = runs[p] + 1
  <2>1. Fetching(p)
    BY <1>12 DEF Fetching
  <2>2. runs'[p] = 1
    BY <1>12, <2>1 DEF OnceAt, NotRunYet
  <2>3. WithWorker(p) /\ ~Fetching(p)' /\ ~Nowhere(p)
    BY <1>7, <1>8, <1>12 DEF Nowhere
  <2>4. idem[p] # "new" /\ p \notin replayed
    BY <2>3 DEF OnceAt
  <2> QED
    BY <1>1, <1>6, <1>9, <2>2, <2>3, <2>4, PlacesKept DEF OnceAt, InOnePlace, NotRunYet, Nowhere
<1>13. \/ runs'[p] = runs[p]
       \/ r.at = "fetch" /\ p \in Elements(r.turn) /\ runs'[p] = runs[p] + 1
  BY <1>10 DEF FetchFailed, Fetched, RunOutcome, RunComplete
<1> QED
  BY <1>11, <1>12, <1>13

(* The steps outside the flow: of the claims that have not expired, the    *)
(* auto-replay completes one and a failed delivery makes one for nobody.   *)
LEMMA OnceBooks ==
    ASSUME TypeInv, BookStep, store = "redis", NEW p \in Posts, p \notin expired', OnceAt(p)
    PROVE  OnceAt(p)'
<1>1. UNCHANGED flow
  BY BookStepTyped
<1>2. runs'[p] = runs[p]
  BY DEF BookStep, WebhookEmptyBody, WebhookClaimFails, ClaimExpires, HostReply,
     ShutdownPool, PoolFinished, Restart, ResetIdempotency, AutoReplay, ReplayBegin,
     ReplaySkip, ReplayOutcome, ReplayComplete, replaying
<1>3. \/ UNCHANGED <<idem, replayed>>
      \/ \E q \in Posts : ClaimExpires(q) \/ WebhookClaimFails(q)
      \/ ReplayComplete
  BY DEF BookStep, WebhookEmptyBody, WebhookClaimFails, HostReply, ShutdownPool, PoolFinished,
     Restart, ResetIdempotency, AutoReplay, ReplayBegin, ReplaySkip, ReplayOutcome, booted
<1>4. idem \in [Posts -> {"new", "claimed", "complete"}]
  BY DEF TypeInv, TypeOK
<1>5. \/ idem'[p] = idem[p] /\ (p \in replayed' => p \in replayed)
      \/ idem'[p] = "complete" /\ (p \in replayed' => p \in replayed \/ idem[p] = "new")
      \/ idem[p] = "new" /\ idem'[p] = "claimed" /\ replayed' = replayed
  <2>1. ASSUME NEW q \in Posts, ClaimExpires(q)
        PROVE  idem'[p] = idem[p] /\ (p \in replayed' => p \in replayed)
    <3>1. q # p
      BY <2>1 DEF ClaimExpires
    <3> QED
      BY <1>4, <2>1, <3>1 DEF ClaimExpires
  <2>2. CASE ReplayComplete
    BY <1>4, <2>2 DEF ReplayComplete
  <2>3. ASSUME NEW q \in Posts, WebhookClaimFails(q)
        PROVE  /\ replayed' = replayed
               /\ idem'[p] = idem[p] \/ (idem[p] = "new" /\ idem'[p] = "claimed")
    BY <1>4, <2>3 DEF WebhookClaimFails, booted
  <2> QED
    BY <1>3, <2>1, <2>2, <2>3
<1> QED
  BY <1>1, <1>2, <1>5, PlacesKept DEF flow, OnceAt, InOnePlace, NotRunYet, Nowhere

(* A delivery claims a post only if it is new, and so nowhere.             *)
LEMMA OnceWebhook ==
    ASSUME TypeInv, NEW q \in Posts, Webhook(q), NEW p \in Posts, OnceAt(p)
    PROVE  OnceAt(p)'
<1>1. UNCHANGED <<buf, firing, queue, running, runs, replayed>>
  BY DEF Webhook, booted
<1>2. \/ idem'[p] = idem[p] /\ (p \in handling' <=> p \in handling)
      \/ idem[p] = "new" /\ idem'[p] = "claimed"
  BY DEF Webhook, SeenOrClaim, TypeInv, TypeOK
<1> QED
  BY <1>1, <1>2, PlacesKept DEF OnceAt, InOnePlace, NotRunYet, Nowhere

(* A shutdown and a crash only empty places.                               *)
LEMMA OnceStop ==
    ASSUME TypeInv, ShutdownDebouncer \/ ShutdownServer \/ Crash, NEW p \in Posts, OnceAt(p)
    PROVE  OnceAt(p)'
<1>1. UNCHANGED <<idem, runs, replayed>> /\ buf' = [k \in Keys |-> <<>>]
  BY DEF ShutdownDebouncer, ShutdownServer, Crash, Vanish, booted
<1>2. ~Buffered(p)'
  BY <1>1, NoElements DEF Buffered
<1>3. CASE ShutdownDebouncer
  <2>1. UNCHANGED <<handling, firing, queue, running>>
    BY <1>3 DEF ShutdownDebouncer
  <2> QED
    BY <1>1, <1>2, <2>1, PlacesKept DEF OnceAt, InOnePlace, NotRunYet, Nowhere
<1>4. CASE Vanish
  <2>1. handling' = {} /\ firing' = {} /\ queue' = <<>> /\ running' = {}
    BY <1>4 DEF Vanish
  <2>2. 1..Len(<<>>) = {}
    OBVIOUS
  <2>3. /\ ~Fired(p)' /\ ~Queued(p)' /\ ~WithWorker(p)' /\ ~Fetching(p)'
        /\ OneFired(p)' /\ OneQueued(p)' /\ OneRunning(p)'
    BY <2>1, <2>2 DEF Fired, Queued, WithWorker, Fetching, OneFired, OneQueued, OneRunning
  <2> QED
    BY <1>1, <1>2, <2>1, <2>3 DEF OnceAt, InOnePlace, NotRunYet, Nowhere
<1> QED
  BY <1>3, <1>4 DEF ShutdownServer, Crash

(* Every step keeps at most one way left to run a post.                    *)
LEMMA OnceStep ==
    ASSUME TypeInv, OnceInv, Next
    PROVE  OnceInv'
<1>1. store' = store /\ expired \subseteq expired'
  BY DEF Next, Progress, PushClaimed, Fire, EnqueueCheck, EnqueueSend, WorkerTake,
     FetchFailed, Fetched, RunOutcome, RunComplete, AutoReplay, ReplayBegin, ReplaySkip,
     ReplayOutcome, ReplayComplete, replaying, Webhook, WebhookEmptyBody,
     WebhookClaimFails, HostReply, WebhookNonGuest, ShutdownDebouncer, ShutdownPool,
     PoolFinished, ShutdownServer, Crash, Vanish, Restart, ResetIdempotency, ClaimExpires,
     booted
<1> SUFFICES ASSUME store = "redis", NEW p \in Posts, p \notin expired' PROVE OnceAt(p)'
  BY <1>1 DEF OnceInv
<1>2. OnceAt(p)
  BY <1>1 DEF OnceInv
<1> QED
  BY <1>2, NextCases, OncePush, OnceBuffer, OnceEnqueue, OnceTake, OnceWorker, OnceBooks,
     OnceWebhook, OnceStop

-----------------------------------------------------------------------------
(* The invariant of the pipeline.                                          *)
IInv == TypeInv /\ OutcomeInv /\ ClaimInv /\ DeliveredIsAccounted /\ OnceInv

(* Before the first delivery there is nothing to account for.              *)
LEMMA InitEstablishes == Init => OutcomeInv /\ ClaimInv /\ DeliveredIsAccounted /\ OnceInv
<1> SUFFICES ASSUME Init PROVE OutcomeInv /\ ClaimInv /\ DeliveredIsAccounted /\ OnceInv
  OBVIOUS
<1>1. OutcomeInv /\ ClaimInv /\ DeliveredIsAccounted
  BY DEF Init, AtBoot, OutcomeInv, CompleteMeansOutcome, ClaimInv, DeliveredIsAccounted
<1>2. ASSUME NEW p \in Posts PROVE OnceAt(p)
  <2>1. 1..Len(<<>>) = {}
    OBVIOUS
  <2>2. ~Buffered(p)
    BY NoElements DEF Init, Buffered
  <2>3. /\ ~Fired(p) /\ ~Queued(p) /\ ~WithWorker(p) /\ ~Fetching(p)
        /\ OneFired(p) /\ OneQueued(p) /\ OneRunning(p)
    BY <2>1 DEF Init, Fired, Queued, WithWorker, Fetching, OneFired, OneQueued, OneRunning
  <2>4. idem[p] = "new" /\ runs[p] = 0 /\ p \notin replayed /\ p \notin handling
    BY DEF Init
  <2> QED
    BY <2>2, <2>3, <2>4 DEF OnceAt, InOnePlace, NotRunYet, Nowhere
<1> QED
  BY <1>1, <1>2 DEF OnceInv

(* Every part of the invariant holds through deliveries and redeliveries,  *)
(* pushes, fires, the pool, the workers, the auto-replay, the shutdown,    *)
(* crashes and restarts.                                                   *)
THEOREM Invariance == Spec => []IInv
<1>1. Init => OutcomeInv /\ ClaimInv /\ DeliveredIsAccounted /\ OnceInv
  BY InitEstablishes
<1>2. TypeInv /\ IInv /\ [Next]_vars /\ TypeInv'
      => (OutcomeInv /\ ClaimInv /\ DeliveredIsAccounted /\ OnceInv)'
  <2> SUFFICES ASSUME IInv, [Next]_vars
               PROVE  (OutcomeInv /\ ClaimInv /\ DeliveredIsAccounted /\ OnceInv)'
    OBVIOUS
  <2>1. CASE Next
    BY <2>1, OutcomeStep, ClaimStep, AccountStep, OnceStep DEF IInv
  <2>2. CASE UNCHANGED vars
    <3>1. OutcomeInv' /\ ClaimInv'
      BY <2>2 DEF IInv, vars, OutcomeInv, CompleteMeansOutcome, ClaimInv, Elements
    <3>2. DeliveredIsAccounted'
      BY <2>2 DEF IInv, vars, DeliveredIsAccounted, InProcess, InBuffers, InFiring, InQueue,
         InRunning, InReplay, Elements
    <3>3. OnceInv'
      BY <2>2, PlacesKept DEF IInv, vars, OnceInv, OnceAt, InOnePlace, NotRunYet, Nowhere
    <3> QED
      BY <3>1, <3>2, <3>3
  <2> QED
    BY <2>1, <2>2
<1> QED
  BY <1>1, <1>2, TypeCorrect, PTL DEF Spec, IInv

(* No delivered message is missing from the books: it is on its way or its *)
(* end is recorded, and the queue and the workers are within their limits  *)
(* (the handler, enqueueFlushFn, makeFlushFn and the shutdown of main.go). *)
THEOREM NoPostGoesMissing == Spec => []AccountInv
<1>1. IInv => AccountInv
  BY DEF IInv, TypeInv, AccountInv
<1> QED
  BY <1>1, Invariance, PTL

(* With a store that outlives the process, the workers run no post twice   *)
(* while its claim lasts (SeenOrClaim before Push, and no other way in).   *)
THEOREM NoPostRunsTwice == Spec => []RunAtMostOnce
<1>1. IInv => RunAtMostOnce
  BY DEF IInv, OnceInv, OnceAt, RunAtMostOnce
<1> QED
  BY <1>1, Invariance, PTL

(* Complete is called with the outcome recorded, by Run and by the         *)
(* auto-replay.                                                            *)
THEOREM CompletedHasOutcome == Spec => []CompleteMeansOutcome
<1>1. IInv => CompleteMeansOutcome
  BY DEF IInv, OutcomeInv
<1> QED
  BY <1>1, Invariance, PTL
=============================================================================
