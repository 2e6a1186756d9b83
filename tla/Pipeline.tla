------------------------------ MODULE Pipeline ------------------------------
(***************************************************************************)
(* One post's way through the server: webhook handler, idempotency store,  *)
(* debouncer, worker pool, flush function and orchestrator                 *)
(* (internal/transport/http/handler.go, the stores' SeenOrClaim and        *)
(* Complete, cmd/server/main.go), with redelivered webhooks, host replies, *)
(* the replay of fixtures at boot (processinquiry/autoreplay.go), which    *)
(* runs beside all that and without a claim, the three-stage shutdown,     *)
(* crashes, restarts and claims that expire.                               *)
(*                                                                         *)
(* The parts appear by what they promise: the debouncer as in Debouncer    *)
(* (one buffer per conversation, taken at some moment), the pool as in     *)
(* Dispatch (the open check and the send of Enqueue are two steps), Run as *)
(* in Inquiry (an outcome, then Complete of LastPostID).  A turn is the    *)
(* sequence of its posts; its last one is LastPostID.                      *)
(***************************************************************************)
EXTENDS Integers, Sequences, FiniteSets

CONSTANTS Keys,          \* conversations
          Posts,         \* guest messages
          EmptyPosts,    \* the ones without a body
          KeyOf,         \* the conversation of each post
          QueueSize,     \* capacity of the dispatch queue
          Workers,       \* number of dispatch workers
          Stores,        \* idempotency stores a behaviour may be configured with
          Fixtures,      \* AUTO_REPLAY_FIXTURES_DIR: the posts replayed at boot
          MaxDeliveries, \* bound: post -> webhook deliveries of it
          MaxUpsets      \* bound: host replies, restarts, resets, expiries and failing claims

ASSUME PipelineAssumption ==
    /\ KeyOf \in [Posts -> Keys]
    /\ EmptyPosts \subseteq Posts
    /\ QueueSize \in Nat \ {0}
    /\ Workers \in Nat \ {0}
    /\ Stores \subseteq {"memstore", "redis"}
    /\ Fixtures \in Seq(Posts)
    /\ MaxDeliveries \in [Posts -> Nat]
    /\ MaxUpsets \in Nat

VARIABLES store,      \* the idempotency store; set when the server is wired
          phase,      \* of the process: see Phases
          upsets,     \* host replies, restarts, resets, expiries and failing claims so far
          deliveries, \* post -> webhooks delivered so far
          idem,       \* post -> state of its claim
          handling,   \* posts a handler has claimed and not pushed yet
          buf,        \* conversation -> buffered posts
          firing,     \* turns in enqueueFlushFn: [turn, checked]
          queue,      \* turns accepted by the pool
          running,    \* turns in a worker: [turn, at]
          hosted,     \* whether the host has written in Guesty
          answered,   \* posts older than the last host reply of their conversation
          replay,     \* the auto-replay: [left: fixtures to do, at: in the first]
          replayed,   \* history: posts it completed before anyone claimed them
          expired,    \* history: posts whose claim expired
          runs,       \* post -> Runs by a worker of a turn that holds it
          fate        \* post -> what happened to the turns that held it

vars == <<store, phase, upsets, deliveries, idem, handling, buf, firing, queue,
          running, hosted, answered, replay, replayed, expired, runs, fate>>

booted == <<replay, replayed, expired>>

Phases == {"up", "debouncerStopped", "poolStopping", "poolStopped", "down"}
(* An auto-send or an escalation; the host was faster; the conversation    *)
(* could not be fetched; gone with a stopped debouncer or with the process; *)
(* answered with a 500.                                                    *)
Fates == {"outcome", "hostReplied", "fetchFailed", "lost", "refused"}

Elements(s) == {s[i] : i \in 1..Len(s)}
LastPost(turn) == turn[Len(turn)]

(* The posts of the given turns all meet fate f.                           *)
Mark(posts, f) ==
    fate' = [p \in Posts |->
                IF p \in posts THEN fate[p] \cup {f} ELSE fate[p]]

InBuffers == UNION {Elements(buf[k]) : k \in Keys}
InFiring == UNION {Elements(f.turn) : f \in firing}
InQueue == UNION {Elements(t) : t \in Elements(queue)}
InRunning == UNION {Elements(r.turn) : r \in running}
InReplay == IF replay.at = "idle" THEN {} ELSE {Head(replay.left)}
InProcess ==
    handling \cup InBuffers \cup InFiring \cup InQueue \cup InRunning \cup InReplay

AtBoot == [left |-> Fixtures, at |-> "idle"]

Init ==
    /\ store \in Stores
    /\ phase = "up"
    /\ upsets = 0
    /\ deliveries = [p \in Posts |-> 0]
    /\ idem = [p \in Posts |-> "new"]
    /\ handling = {}
    /\ buf = [k \in Keys |-> <<>>]
    /\ firing = {}
    /\ queue = <<>>
    /\ running = {}
    /\ hosted = FALSE
    /\ answered = {}
    /\ replay = AtBoot
    /\ replayed = {}
    /\ expired = {}
    /\ runs = [p \in Posts |-> 0]
    /\ fate = [p \in Posts |-> {}]

(* The HTTP server accepts until the last stage of the shutdown.           *)
Listening == phase # "down"

Delivers(p) ==
    /\ Listening
    /\ deliveries[p] < MaxDeliveries[p]
    /\ deliveries' = [deliveries EXCEPT ![p] = @ + 1]

\* Mutant: only a complete entry counts as seen.
SeenOrClaimComplete(p) ==
    IF idem[p] = "complete"
      THEN UNCHANGED <<idem, handling>>
      ELSE /\ idem' = [idem EXCEPT ![p] = "claimed"]
           /\ handling' = handling \cup {p}

(* Atomic: the first delivery claims the post, which its handler goes on   *)
(* to push; every other one is answered "duplicate".                       *)
SeenOrClaim(p) ==
    IF idem[p] # "new"
      THEN UNCHANGED <<idem, handling>>
      ELSE /\ idem' = [idem EXCEPT ![p] = "claimed"]
           /\ handling' = handling \cup {p}

(***************************************************************************)
(* Webhook and dispatch up to SeenOrClaim.  The webhook log is not read by *)
(* the server and is left out.                                             *)
(***************************************************************************)
Webhook(p) ==
    /\ p \notin EmptyPosts
    /\ Delivers(p)
    /\ SeenOrClaim(p)
    /\ UNCHANGED <<store, phase, upsets, buf, firing, queue, running, hosted, answered, runs, fate, booted>>

(* SeenOrClaim fails, which the store in memory never does: 500, and Guesty *)
(* may deliver again.  The answer of Redis may be all that was lost: the   *)
(* claim is there, nobody works on it and the redelivery is a duplicate.   *)
WebhookClaimFails(p) ==
    /\ p \notin EmptyPosts
    /\ store = "redis"
    /\ upsets < MaxUpsets
    /\ upsets' = upsets + 1
    /\ Delivers(p)
    /\ \/ idem[p] = "new" /\ idem' = [idem EXCEPT ![p] = "claimed"]
       \/ UNCHANGED idem
    /\ Mark({p}, "refused")
    /\ UNCHANGED <<store, phase, handling, buf, firing, queue, running,
                   hosted, answered, runs, booted>>

(* dispatch on an empty body: escalate at once, before SeenOrClaim.        *)
WebhookEmptyBody(p) ==
    /\ p \in EmptyPosts
    /\ Delivers(p)
    /\ Mark({p}, "outcome")
    /\ UNCHANGED <<store, phase, upsets, idem, handling, buf, firing, queue, running,
                   hosted, answered, runs, booted>>

(* dispatch after the claim: Push, a no-op once the debouncer is stopped   *)
(* and on a post that is in the buffer.                                    *)
PushClaimed(p) ==
    /\ p \in handling
    /\ handling' = handling \ {p}
    /\ IF phase = "up"
         THEN /\ buf' = [buf EXCEPT ![KeyOf[p]] =
                            IF p \in Elements(@) THEN @ ELSE Append(@, p)]
              /\ UNCHANGED fate
         ELSE /\ Mark({p}, "lost")
              /\ UNCHANGED buf
    /\ UNCHANGED <<store, phase, upsets, deliveries, idem, firing, queue, running,
                   hosted, answered, runs, booted>>

(* The host writes in Guesty; the webhook about it may come later or never. *)
HostReply(k) ==
    /\ upsets < MaxUpsets
    /\ upsets' = upsets + 1
    /\ hosted' = TRUE
    /\ answered' = answered \cup {p \in Posts : KeyOf[p] = k /\ deliveries[p] > 0}
    /\ UNCHANGED <<store, phase, deliveries, idem, handling, buf, firing, queue,
                   running, runs, fate, booted>>

(* The webhook of a non-guest message: CancelIfHostReplied.                *)
WebhookNonGuest(k) ==
    /\ Listening
    /\ hosted
    /\ buf[k] # <<>>
    /\ Mark(Elements(buf[k]), "hostReplied")
    /\ buf' = [buf EXCEPT ![k] = <<>>]
    /\ UNCHANGED <<store, phase, upsets, deliveries, idem, handling, firing, queue, running,
                   hosted, answered, runs, booted>>

(* The debouncer's callback takes the buffer.                              *)
Fire(k) ==
    /\ phase = "up"
    /\ buf[k] # <<>>
    /\ firing' = firing \cup {[turn |-> buf[k], checked |-> FALSE]}
    /\ buf' = [buf EXCEPT ![k] = <<>>]
    /\ UNCHANGED <<store, phase, upsets, deliveries, idem, handling, queue, running,
                   hosted, answered, runs, fate, booted>>

-----------------------------------------------------------------------------
(* enqueueFlushFn: Enqueue in two steps, and the backpressure_drop         *)
(* escalation when it refuses.                                             *)
PoolOpen == phase \in {"up", "debouncerStopped"}

EnqueueCheck(f) ==
    /\ ~f.checked
    /\ IF PoolOpen
         THEN /\ firing' = (firing \ {f}) \cup {[f EXCEPT !.checked = TRUE]}
              /\ UNCHANGED fate
         ELSE /\ firing' = firing \ {f}
              /\ Mark(Elements(f.turn), "outcome")
    /\ UNCHANGED <<store, phase, upsets, deliveries, idem, handling, buf, queue, running,
                   hosted, answered, runs, booted>>

\* Mutant: the refusal of the pool is ignored.
EnqueueSendSilent(f) ==
    /\ f.checked
    /\ firing' = firing \ {f}
    /\ queue' = IF Len(queue) < QueueSize THEN Append(queue, f.turn) ELSE queue
    /\ UNCHANGED <<store, phase, upsets, deliveries, idem, handling, buf, running,
                   hosted, answered, runs, fate, booted>>

EnqueueSend(f) ==
    /\ f.checked
    /\ firing' = firing \ {f}
    /\ IF Len(queue) < QueueSize
         THEN /\ queue' = Append(queue, f.turn)
              /\ UNCHANGED fate
         ELSE /\ Mark(Elements(f.turn), "outcome")
              /\ UNCHANGED queue
    /\ UNCHANGED <<store, phase, upsets, deliveries, idem, handling, buf, running,
                   hosted, answered, runs, booted>>

(* A worker receives a turn; one that stops drains the queue first.        *)
WorkerTake ==
    /\ queue # <<>>
    /\ phase # "poolStopped"
    /\ Cardinality(running) < Workers
    /\ running' = running \cup {[turn |-> Head(queue), at |-> "fetch"]}
    /\ queue' = Tail(queue)
    /\ UNCHANGED <<store, phase, upsets, deliveries, idem, handling, buf, firing,
                   hosted, answered, runs, fate, booted>>

\* Mutant: a failed fetch completes the claim as if the turn were handled.
FetchFailedCompletes(r) ==
    /\ r.at = "fetch"
    /\ running' = running \ {r}
    /\ Mark(Elements(r.turn), "fetchFailed")
    /\ idem' = [idem EXCEPT ![LastPost(r.turn)] = "complete"]
    /\ UNCHANGED <<store, phase, upsets, deliveries, handling, buf, firing, queue,
                   hosted, answered, runs, booted>>

\* Mutant: a turn whose fetch failed goes back to the queue.
FetchFailedRequeues(r) ==
    /\ r.at = "fetch"
    /\ Len(queue) < QueueSize
    /\ running' = running \ {r}
    /\ queue' = Append(queue, r.turn)
    /\ UNCHANGED <<store, phase, upsets, deliveries, idem, handling, buf, firing,
                   hosted, answered, runs, fate, booted>>

(* makeFlushFn: GetConversation fails, or a host reply is newer than the   *)
(* turn, or Run begins.                                                    *)
FetchFailed(r) ==
    /\ r.at = "fetch"
    /\ running' = running \ {r}
    /\ Mark(Elements(r.turn), "fetchFailed")
    /\ UNCHANGED <<store, phase, upsets, deliveries, idem, handling, buf, firing, queue,
                   hosted, answered, runs, booted>>

hostAlreadyReplied(turn) == LastPost(turn) \in answered

Fetched(r) ==
    /\ r.at = "fetch"
    /\ IF hostAlreadyReplied(r.turn)
         THEN /\ running' = running \ {r}
              /\ Mark(Elements(r.turn), "hostReplied")
              /\ UNCHANGED runs
         ELSE /\ running' = (running \ {r}) \cup {[r EXCEPT !.at = "run"]}
              /\ runs' = [p \in Posts |->
                             IF p \in Elements(r.turn) THEN runs[p] + 1 ELSE runs[p]]
              /\ UNCHANGED fate
    /\ UNCHANGED <<store, phase, upsets, deliveries, idem, handling, buf, firing, queue,
                   hosted, answered, booted>>

(* Run produces its outcome ...                                            *)
RunOutcome(r) ==
    /\ r.at = "run"
    /\ Mark(Elements(r.turn), "outcome")
    /\ running' = (running \ {r}) \cup {[r EXCEPT !.at = "complete"]}
    /\ UNCHANGED <<store, phase, upsets, deliveries, idem, handling, buf, firing, queue,
                   hosted, answered, runs, booted>>

(* ... and completes the claim of LastPostID, of that post only; a Redis   *)
(* that does not take it is only logged.                                   *)
RunComplete(r) ==
    /\ r.at = "complete"
    /\ \/ idem' = [idem EXCEPT ![LastPost(r.turn)] = "complete"]
       \/ store = "redis" /\ UNCHANGED idem
    /\ running' = running \ {r}
    /\ UNCHANGED <<store, phase, upsets, deliveries, handling, buf, firing, queue,
                   hosted, answered, runs, fate, booted>>

-----------------------------------------------------------------------------
(* shutdown: debouncer.Stop, pool.Stop with a timeout, and only then       *)
(* srv.Shutdown.  Whatever is still in the process dies with it.           *)
ShutdownDebouncer ==
    /\ phase = "up"
    /\ phase' = "debouncerStopped"
    /\ Mark(InBuffers, "lost")
    /\ buf' = [k \in Keys |-> <<>>]
    /\ UNCHANGED <<store, upsets, deliveries, idem, handling, firing, queue, running,
                   hosted, answered, runs, booted>>

ShutdownPool ==
    /\ phase = "debouncerStopped"
    /\ phase' = "poolStopping"
    /\ UNCHANGED <<store, upsets, deliveries, idem, handling, buf, firing, queue, running,
                   hosted, answered, runs, fate, booted>>

(* pool.Stop returns in time: the queue is empty and the last worker left. *)
(* A turn sent after that stays where it is.                               *)
PoolFinished ==
    /\ phase = "poolStopping"
    /\ queue = <<>> /\ running = {}
    /\ phase' = "poolStopped"
    /\ UNCHANGED <<store, upsets, deliveries, idem, handling, buf, firing, queue,
                   running, hosted, answered, runs, fate, booted>>

(* The process is gone: at the end of the shutdown, or by a crash.         *)
Vanish ==
    /\ phase' = "down"
    /\ Mark(InProcess, "lost")
    /\ handling' = {}
    /\ buf' = [k \in Keys |-> <<>>]
    /\ firing' = {}
    /\ queue' = <<>>
    /\ running' = {}
    /\ replay' = [left |-> <<>>, at |-> "idle"]
    /\ UNCHANGED <<store, upsets, deliveries, idem, hosted, answered, replayed, expired,
                   runs>>

(* After pool.Stop, whether it finished or ran out of time.                *)
ShutdownServer == phase \in {"poolStopping", "poolStopped"} /\ Vanish

Crash == phase # "down" /\ Vanish

Restart ==
    /\ phase = "down"
    /\ upsets < MaxUpsets
    /\ upsets' = upsets + 1
    /\ phase' = "up"
    /\ idem' = IF store = "redis" THEN idem ELSE [p \in Posts |-> "new"]
    /\ replay' = AtBoot
    /\ UNCHANGED <<store, deliveries, handling, buf, firing, queue, running, hosted,
                   answered, replayed, expired, runs, fate>>

(* The demo's reset forgets every claim, whatever is in progress; only the *)
(* store in memory has one.                                                *)
ResetIdempotency ==
    /\ store = "memstore"
    /\ Listening
    /\ upsets < MaxUpsets
    /\ upsets' = upsets + 1
    /\ idem' = [p \in Posts |-> "new"]
    /\ UNCHANGED <<store, phase, deliveries, handling, buf, firing, queue, running,
                   hosted, answered, runs, fate, booted>>

(* The TTL of a Redis entry runs out: the post is new again.               *)
ClaimExpires(p) ==
    /\ store = "redis"
    /\ idem[p] # "new"
    /\ upsets < MaxUpsets
    /\ upsets' = upsets + 1
    /\ idem' = [idem EXCEPT ![p] = "new"]
    /\ expired' = expired \cup {p}
    /\ UNCHANGED <<store, phase, deliveries, handling, buf, firing, queue, running,
                   hosted, answered, replay, replayed, runs, fate>>

-----------------------------------------------------------------------------
(***************************************************************************)
(* startAutoReplay: one goroutine runs the orchestrator on one fixture     *)
(* after the other, past the claim, the debouncer, the pool and the check  *)
(* for a host reply.  The context of the process is looked at between      *)
(* fixtures; shutdown does not wait for this goroutine.                    *)
(***************************************************************************)
replaying == <<store, phase, upsets, deliveries, handling, buf, firing, queue, running,
               hosted, answered, expired, runs>>

ReplayBegin ==
    /\ phase = "up"
    /\ replay.at = "idle" /\ replay.left # <<>>
    /\ replay' = [replay EXCEPT !.at = "run"]
    /\ UNCHANGED <<replaying, idem, replayed, fate>>

(* A fixture that cannot be read or mapped is skipped.                     *)
ReplaySkip ==
    /\ phase = "up"
    /\ replay.at = "idle" /\ replay.left # <<>>
    /\ replay' = [replay EXCEPT !.left = Tail(@)]
    /\ UNCHANGED <<replaying, idem, replayed, fate>>

ReplayOutcome ==
    /\ replay.at = "run"
    /\ Mark({Head(replay.left)}, "outcome")
    /\ replay' = [replay EXCEPT !.at = "complete"]
    /\ UNCHANGED <<replaying, idem, replayed>>

(* Complete of a post that nobody may have claimed.  Redis may not take    *)
(* the entry; a shutdown cancels the context, and then it never does.      *)
ReplayComplete ==
    LET p == Head(replay.left)
    IN  /\ replay.at = "complete"
        /\ \/ /\ store = "redis" => phase = "up"
              /\ idem' = [idem EXCEPT ![p] = "complete"]
              /\ replayed' = IF idem[p] = "new" THEN replayed \cup {p} ELSE replayed
           \/ store = "redis" /\ UNCHANGED <<idem, replayed>>
        /\ replay' = [left |-> Tail(replay.left), at |-> "idle"]
        /\ UNCHANGED <<replaying, fate>>

AutoReplay == ReplayBegin \/ ReplaySkip \/ ReplayOutcome \/ ReplayComplete

(* The part of Next that only moves posts along, and what disturbs it.     *)
Progress ==
    \/ \E p \in Posts : PushClaimed(p)
    \/ \E k \in Keys : Fire(k)
    \/ \E f \in firing : EnqueueCheck(f) \/ EnqueueSend(f)
    \/ WorkerTake
    \/ \E r \in running : FetchFailed(r) \/ Fetched(r) \/ RunOutcome(r) \/ RunComplete(r)
    \/ AutoReplay

Next ==
    \/ Progress
    \/ \E p \in Posts : Webhook(p) \/ WebhookClaimFails(p) \/ WebhookEmptyBody(p)
    \/ \E k \in Keys : HostReply(k) \/ WebhookNonGuest(k)
    \/ ShutdownDebouncer
    \/ ShutdownPool
    \/ PoolFinished
    \/ ShutdownServer
    \/ Crash
    \/ Restart
    \/ ResetIdempotency
    \/ \E p \in Posts : ClaimExpires(p)

Spec == Init /\ [][Next]_vars

(* Goroutines run, timers fire, calls time out, and a shutdown that began  *)
(* gets to its end; nobody owes a webhook, a shutdown or a restart.        *)
FairSpec == Spec /\ WF_vars(Progress) /\ WF_vars(ShutdownPool) /\ WF_vars(ShutdownServer)

-----------------------------------------------------------------------------
(* Every variable holds a value of its type, the queue and the workers     *)
(* within their limits.                                                    *)
TypeOK ==
    /\ store \in Stores
    /\ phase \in Phases
    /\ upsets \in 0..MaxUpsets
    /\ deliveries \in [Posts -> Nat]
    /\ \A p \in Posts : deliveries[p] <= MaxDeliveries[p]
    /\ idem \in [Posts -> {"new", "claimed", "complete"}]
    /\ handling \in SUBSET Posts
    /\ buf \in [Keys -> Seq(Posts)]
    /\ firing \in SUBSET [turn : Seq(Posts), checked : BOOLEAN]
    /\ queue \in Seq(Seq(Posts)) /\ Len(queue) <= QueueSize
    /\ Cardinality(running) <= Workers
    /\ running \in SUBSET [turn : Seq(Posts), at : {"fetch", "run", "complete"}]
    /\ hosted \in BOOLEAN
    /\ answered \in SUBSET Posts
    /\ replay \in [left : Seq(Posts), at : {"idle", "run", "complete"}]
    /\ replayed \in SUBSET Posts /\ expired \in SUBSET Posts
    /\ runs \in [Posts -> Nat]
    /\ fate \in [Posts -> SUBSET Fates]

(* A message that was delivered is always accounted for: it is somewhere   *)
(* in the process or one of the Fates has met it, through duplicates,      *)
(* failing claims, backpressure, host replies, shutdown, crashes and       *)
(* resets.                                                                 *)
DeliveredIsAccounted ==
    \A p \in Posts : deliveries[p] > 0 => p \in InProcess \/ fate[p] # {}

(* The books of the server: well-formed, the queue and the workers within  *)
(* their limits, and no delivered post missing from them.                  *)
AccountInv == TypeOK /\ DeliveredIsAccounted

(* With an idempotency store that outlives the process, no sequence of     *)
(* redeliveries, crashes, restarts and replays makes the workers run a     *)
(* post twice while its claim lasts, nor once after the auto-replay        *)
(* completed it, though the replay never claimed it.                       *)
RunAtMostOnce ==
    store = "redis" =>
        \A p \in Posts \ expired : /\ runs[p] <= 1
                                   /\ p \in replayed => runs[p] = 0

(* A claim is complete only when its turn has its outcome; a crash or a    *)
(* failed fetch leaves it merely claimed.                                  *)
CompleteMeansOutcome ==
    \A p \in Posts : idem[p] = "complete" => "outcome" \in fate[p]

(* No post stays in the process for ever: not in a buffer, not in the      *)
(* queue, not with a worker, also when a shutdown catches it on its way.   *)
EveryPostLeaves == \A p \in Posts : (p \in InProcess) ~> (p \notin InProcess)

-----------------------------------------------------------------------------
(* main.go on enqueueFlushFn: "every turn still terminates in exactly one  *)
(* of {auto-send, escalation}".  The code does not meet it: a turn whose   *)
(* GetConversation failed has neither.                                     *)
TurnsEndInOutcome ==
    \A p \in Posts : "fetchFailed" \in fate[p] => "outcome" \in fate[p]
=============================================================================
