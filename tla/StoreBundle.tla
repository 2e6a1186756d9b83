---------------------------- MODULE StoreBundle ----------------------------
(***************************************************************************)
(* What a turn leaves behind in the stores that wire.go                    *)
(* (internal/infrastructure/store) puts together: webhooks,                *)
(* classifications, replies, escalations, conversation memory and          *)
(* conversions, in files with the escalation ring of memstore before one   *)
(* of them, or in Mongo collections; and the claim of the post in either   *)
(* idempotency store.                                                      *)
(*                                                                         *)
(* Bundle.Build opens the stores one by one, Bundle.Reset wipes them one   *)
(* by one while turns are running, Bundle.LogClosers closes them one by    *)
(* one while turns that outlived the dispatch timeout may still be         *)
(* running.  Each store locks itself and nothing locks the bundle.  A      *)
(* write may fail with nothing, with part or with all of its line in the   *)
(* file; the line after a torn one is glued to it and neither can be read. *)
(* Mongo takes a document or does not, its answer may be lost, and its     *)
(* stores have no Reset.                                                   *)
(*                                                                         *)
(* A run is one delivery of a post of a conversation and what follows from *)
(* it; of a record the model keeps which run wrote it, of the snapshots of *)
(* the memory which runs the newest one knows.  What memory and            *)
(* conversions make of their records is in modules of their own.           *)
(***************************************************************************)
EXTENDS Integers, Sequences, FiniteSets, SequencesExt

CONSTANTS Posts,
          Runs,         \* deliveries of a post, each with the Run it leads to
          NoPost,       \* a run that has not begun
          Durables,     \* STORE_BACKEND of a behaviour: "file", "mongo"
          Backends,     \* IDEMPOTENCY_BACKEND: "memstore", "redis"
          Capacity,     \* of the escalation ring
          MaxFaults,    \* bound: failing file operations in one behaviour
          MaxResets,    \* bound: resets in one behaviour
          MaxRestarts,  \* bound: restarts in one behaviour
          MaxMishaps,   \* bound: all of these together
          MaxClosing    \* bound: resets before the files are closed in order

ASSUME StoreBundleAssumption ==
    /\ NoPost \notin Posts
    /\ Durables \subseteq {"file", "mongo"}
    /\ Backends \subseteq {"memstore", "redis"}
    /\ Capacity \in 1..500    \* wire.go makes a ring of 500; admin.go lists as many
    /\ {MaxFaults, MaxResets, MaxRestarts, MaxMishaps, MaxClosing} \subseteq Nat

(* The logs of Puts and Appends that a run makes before its claim is       *)
(* complete, and the two that keep a conversation and its reservation.     *)
TurnLogs == {"webhooks", "classifications", "replies", "escalations"}
Logs == TurnLogs \cup {"memory", "conversions"}

(* The order of buildFile.                                                 *)
FileOrder == <<"webhooks", "classifications", "replies", "escalations", "memory", "conversions">>

\* Mutant: the claims are dropped first.
ResetOrderClaimsFirst ==
    <<"idempotency", "webhooks", "classifications", "replies", "escalations", "ring",
      "memory", "conversions">>

(* The list in Bundle.Reset; the ring belongs to the escalations.          *)
ResetOrder ==
    <<"webhooks", "classifications", "replies", "escalations", "ring", "idempotency",
      "memory", "conversions">>

VARIABLES durable,  \* where the records are
          backend,  \* the idempotency store
          phase,    \* of the process: "building", "up", "closing" or "down"
          closers,  \* Bundle.closers: the stores opened, oldest first
          open,     \* stores whose writer or client is usable
          log,      \* log -> runs with a readable line in it
          torn,     \* logs that end in a torn line
          ring,     \* the escalation ring, oldest first
          known,    \* runs in the records of the file store of the memory
          idem,     \* post -> its claim
          post,     \* run -> its post
          pc,       \* run -> its next step
          outcome,  \* run -> how it ended for the guest
          wiping,   \* the stores a Reset has still to do
          failed,   \* firstErr of that Reset is set
          kept,     \* history: stores whose last Reset failed
          ended,    \* history: runs that were over when the last Reset began
          cleared,  \* history: the same for the last Reset that dropped the claims
          wiped,    \* history: the same for the Resets that returned nil
          lost,     \* history: runs whose escalation a failing write kept off the disk
          faults, tears, resets, restarts

config == <<durable, backend>>
data == <<log, torn, ring, known, idem>>
handles == <<phase, closers, open>>
turns == <<post, pc, outcome>>
reset == <<wiping, failed, kept, ended, cleared, wiped, resets>>
vars == <<config, handles, data, turns, reset, lost, faults, tears, restarts>>

Over == {"done", "duplicate", "refused", "dead"}
Ended == {r \in Runs : pc[r] \in Over}

(* One more failing operation, reset or restart is within the bounds.      *)
Within(n, max) == n < max /\ faults + resets + restarts < MaxMishaps

Init ==
    /\ durable \in Durables
    /\ backend \in Backends
    /\ phase = "building"
    /\ closers = <<>>
    /\ open = {}
    /\ log = [l \in Logs |-> {}]
    /\ torn = {}
    /\ ring = <<>>
    /\ known = {}
    /\ idem = [p \in Posts |-> "new"]
    /\ post = [r \in Runs |-> NoPost]
    /\ pc = [r \in Runs |-> "idle"]
    /\ outcome = [r \in Runs |-> "none"]
    /\ wiping = <<>>
    /\ failed = FALSE
    /\ kept = {} /\ ended = {} /\ cleared = {} /\ wiped = {} /\ lost = {}
    /\ faults = 0 /\ tears = 0 /\ resets = 0 /\ restarts = 0

-----------------------------------------------------------------------------
(* Build: buildDurable, the files or the one Mongo client, then            *)
(* buildIdempotency.                                                       *)
DurableOrder == IF durable = "mongo" THEN <<"mongo">> ELSE FileOrder
BuildOrder == IF backend = "redis" THEN Append(DurableOrder, "redis") ELSE DurableOrder

BuildStep ==
    /\ phase = "building"
    /\ Len(closers) < Len(BuildOrder)
    /\ LET s == BuildOrder[Len(closers) + 1]
       IN  /\ closers' = Append(closers, s)
           /\ open' = open \cup {s}
           /\ known' = IF s = "memory" THEN log["memory"] ELSE known   \* hydrateMemoryLog
    /\ UNCHANGED <<config, phase, log, torn, ring, idem, turns, reset, lost, faults, tears,
                   restarts>>

BuildDone ==
    /\ phase = "building"
    /\ Len(closers) = Len(BuildOrder)
    /\ phase' = "up"
    /\ UNCHANGED <<config, closers, open, data, turns, reset, lost, faults, tears, restarts>>

\* Mutant: the stores opened before the one that failed stay open.
BuildFailsOpen ==
    /\ phase = "building"
    /\ Len(closers) < Len(BuildOrder)
    /\ Within(faults, MaxFaults)
    /\ faults' = faults + 1
    /\ phase' = "down"
    /\ UNCHANGED <<config, closers, open, data, turns, reset, lost, tears, restarts>>

(* A store does not open, or Mongo, once connected, does not take its      *)
(* schema and its indexes: Close runs over what is open.                   *)
BuildFails ==
    /\ phase = "building"
    /\ Len(closers) < Len(BuildOrder) \/ closers = <<"mongo">>
    /\ Within(faults, MaxFaults)
    /\ faults' = faults + 1
    /\ phase' = "down"
    /\ open' = open \ ToSet(closers)
    /\ closers' = <<>>
    /\ known' = {}
    /\ UNCHANGED <<config, log, torn, ring, idem, turns, reset, lost, tears, restarts>>

(* The end of run(): shutdown is over, deferred LogClosers begins.  The    *)
(* server has waited for its handlers, long enough for a Reset, which only *)
(* truncates files; nobody waited for the runs the pool gave up on.        *)
ShutdownClose ==
    /\ phase = "up"
    /\ wiping = <<>>
    /\ durable = "file" => resets <= MaxClosing
    /\ phase' = "closing"
    /\ UNCHANGED <<config, closers, open, data, turns, reset, lost, faults, tears, restarts>>

\* Mutant: the stores are closed in the order in which they were opened.
CloseStepForward ==
    /\ phase = "closing"
    /\ closers # <<>>
    /\ open' = open \ {Head(closers)}
    /\ closers' = Tail(closers)
    /\ UNCHANGED <<config, phase, data, turns, reset, lost, faults, tears, restarts>>

(* LogClosers: the store opened last is closed first.                      *)
CloseStep ==
    /\ phase = "closing"
    /\ closers # <<>>
    /\ open' = open \ {Last(closers)}
    /\ closers' = Front(closers)
    /\ UNCHANGED <<config, phase, data, turns, reset, lost, faults, tears, restarts>>

(* The process is gone, by its end or by a crash, and with it its runs,    *)
(* the ring and the claims of memstore.                                    *)
Exit ==
    /\ phase \in {"up", "closing"}
    /\ phase' = "down"
    /\ open' = {} /\ closers' = <<>>
    /\ ring' = <<>> /\ known' = {}
    /\ idem' = IF backend = "redis" THEN idem ELSE [p \in Posts |-> "new"]
    /\ pc' = [r \in Runs |-> IF pc[r] = "idle" THEN "idle" ELSE "dead"]
    /\ wiping' = <<>> /\ failed' = FALSE
    /\ kept' = {} /\ ended' = {} /\ cleared' = {}
    /\ UNCHANGED <<config, log, torn, post, outcome, wiped, lost, faults, tears, resets, restarts>>

Restart ==
    /\ phase = "down"
    /\ Within(restarts, MaxRestarts)
    /\ restarts' = restarts + 1
    /\ phase' = "building"
    /\ UNCHANGED <<config, closers, open, data, turns, reset, lost, faults, tears>>

-----------------------------------------------------------------------------
(* The writer or the client that takes what goes to log l.                 *)
Handle(l) == IF durable = "mongo" THEN "mongo" ELSE l

(* What a record of run r replaces: Mongo keeps one classification and one *)
(* reply per post and one conversion per reservation; of the lines of a    *)
(* file the newest counts.                                                 *)
Upserted(r, l) ==
    IF durable = "mongo"
      THEN CASE l \in {"classifications", "replies"} -> {r0 \in Runs : post[r0] = post[r]}
             [] l = "conversions" -> Runs
             [] OTHER -> {}
      ELSE {}

(* What a record of run r says: a line of the memory is a snapshot.        *)
Recorded(r, l) == IF durable = "file" /\ l = "memory" THEN known \cup {r} ELSE {r}

(* A record of run r reaches log l; glued to a torn line it is lost.       *)
Line(r, l) ==
    /\ log' = IF l \in torn THEN log
               ELSE [log EXCEPT ![l] = (@ \ Upserted(r, l)) \cup Recorded(r, l)]
    /\ torn' = torn \ {l}

(* Put and Append: lock, write the line, Sync; or one insert or upsert.    *)
WriteOK(r, l) == Handle(l) \in open /\ Line(r, l) /\ UNCHANGED <<faults, tears>>

(* The error: the handle is closed; or the write failed, with none, all    *)
(* or, in a file, part of the record written.                              *)
WriteFails(r, l) ==
    \/ Handle(l) \notin open /\ UNCHANGED <<log, torn, faults, tears>>
    \/ /\ Handle(l) \in open
       /\ Within(faults, MaxFaults)
       /\ faults' = faults + 1
       /\ \/ UNCHANGED <<log, torn, tears>>
          \/ Line(r, l) /\ UNCHANGED tears
          \/ /\ durable = "file"
             /\ torn' = torn \cup {l}
             /\ tears' = tears + 1
             /\ UNCHANGED log

(* The call as a whole, Mongo's one insert too, for callers that only log  *)
(* the error.                                                              *)
Write(r, l) == WriteOK(r, l) \/ WriteFails(r, l)

Go(r, step) == pc' = [pc EXCEPT ![r] = step]
Ends(r, how) == outcome' = [outcome EXCEPT ![r] = how]

(* Webhook: appendWebhookRecord comes before dispatch.                     *)
Deliver(r, p) ==
    /\ phase = "up"
    /\ pc[r] = "idle"
    /\ post' = [post EXCEPT ![r] = p]
    /\ Write(r, "webhooks")
    /\ Go(r, "claim")
    /\ UNCHANGED <<config, handles, ring, known, idem, outcome, reset, lost, restarts>>

(* The store of the claims answers: a closed Redis client does not.        *)
IdemUp == backend = "redis" => "redis" \in open

(* dispatch: SeenOrClaim.  Debouncer and pool, which the claimed post goes *)
(* through next, are left out.  (A Redis that fails while its client is    *)
(* open is in Pipeline.)                                                   *)
SeenOrClaim(r) ==
    /\ pc[r] = "claim"
    /\ \/ ~IdemUp /\ Go(r, "refused") /\ UNCHANGED idem
       \/ /\ IdemUp
          /\ IF idem[post[r]] # "new"
               THEN Go(r, "duplicate") /\ UNCHANGED idem
               ELSE /\ idem' = [idem EXCEPT ![post[r]] = "claimed"]
                    /\ Go(r, "classify")
    /\ UNCHANGED <<config, handles, log, torn, ring, known, post, outcome, reset, lost, faults,
                   tears, restarts>>

(* Run up to Classifications.Put, or out of an early escalation before it. *)
Classify(r) ==
    /\ pc[r] = "classify"
    /\ \/ Write(r, "classifications") /\ Go(r, "reply")
       \/ UNCHANGED <<log, torn, faults, tears>> /\ Go(r, "escalate")
    /\ UNCHANGED <<config, handles, ring, known, idem, post, outcome, reset, lost, restarts>>

(* Replies.Put, and then the note or an escalation; or a gate or a failed  *)
(* model without a reply.                                                  *)
PutReply(r) ==
    /\ pc[r] = "reply"
    /\ \/ Write(r, "replies") /\ Go(r, "manage") /\ Ends(r, "sent")
       \/ Write(r, "replies") /\ Go(r, "escalate") /\ UNCHANGED outcome
       \/ UNCHANGED <<log, torn, faults, tears, outcome>> /\ Go(r, "escalate")
    /\ UNCHANGED <<config, handles, ring, known, idem, post, reset, lost, restarts>>

(* markManaged after the note.  Posts are of conversations that have a     *)
(* reservation; for others it does nothing.                                *)
MarkManaged(r) ==
    /\ pc[r] = "manage"
    /\ Write(r, "conversions")
    /\ Go(r, "remember")
    /\ UNCHANGED <<config, handles, ring, known, idem, post, outcome, reset, lost, restarts>>

(* A failing write, of this record or before it in a torn line, has kept   *)
(* the record off the disk; a store that was closed is another matter.     *)
Spoilt(r) ==
    IF Handle("escalations") \in open /\ r \notin log'["escalations"] THEN {r} ELSE {}

(* Record of the Mongo store: an insert, and no ring.                      *)
RecordMongo(r) ==
    /\ durable = "mongo"
    /\ Write(r, "escalations")
    /\ Go(r, "remember")

\* Mutant: the ring is filled whether or not the file took the line.
RecordAppendAnyway(r) ==
    /\ pc[r] = "escalate"
    /\ \/ RecordMongo(r)
       \/ durable = "file" /\ Write(r, "escalations") /\ Go(r, "insert")
    /\ Ends(r, "escalated")
    /\ lost' = lost \cup Spoilt(r)
    /\ UNCHANGED <<config, handles, ring, known, idem, post, reset, restarts>>

(* EscalationRing.Record: the durable append; without it, no insert.  The  *)
(* error is only logged.                                                   *)
RecordAppend(r) ==
    /\ pc[r] = "escalate"
    /\ \/ RecordMongo(r)
       \/ durable = "file" /\ WriteOK(r, "escalations") /\ Go(r, "insert")
       \/ durable = "file" /\ WriteFails(r, "escalations") /\ Go(r, "remember")
    /\ Ends(r, "escalated")
    /\ lost' = lost \cup Spoilt(r)
    /\ UNCHANGED <<config, handles, ring, known, idem, post, reset, restarts>>

(* The oldest entry leaves a full ring.                                    *)
insert(b, r) == Append(IF Len(b) >= Capacity THEN Tail(b) ELSE b, r)

RecordInsert(r) ==
    /\ pc[r] = "insert"
    /\ ring' = insert(ring, r)
    /\ Go(r, "remember")
    /\ UNCHANGED <<config, handles, log, torn, known, idem, post, outcome, reset, lost, faults,
                   tears, restarts>>

(* closeTurn: Memory.Update changes the record, then appends the snapshot; *)
(* an error is only logged.                                                *)
Remember(r) ==
    /\ pc[r] = "remember"
    /\ Write(r, "memory")
    /\ known' = IF durable = "file" THEN known \cup {r} ELSE known
    /\ Go(r, "complete")
    /\ UNCHANGED <<config, handles, ring, idem, post, outcome, reset, lost, restarts>>

(* Idempotency.Complete, whose error is only logged.                       *)
Complete(r) ==
    /\ pc[r] = "complete"
    /\ idem' = IF IdemUp THEN [idem EXCEPT ![post[r]] = "complete"] ELSE idem
    /\ Go(r, "done")
    /\ UNCHANGED <<config, handles, log, torn, ring, known, post, outcome, reset, lost, faults,
                   tears, restarts>>

-----------------------------------------------------------------------------
(* PostReset: Bundle.Reset begins.  Mongo stores are skipped.              *)
ResetBegin ==
    /\ phase = "up"
    /\ wiping = <<>>
    /\ Within(resets, MaxResets)
    /\ resets' = resets + 1
    /\ wiping' = IF durable = "file" THEN ResetOrder ELSE <<"idempotency">>
    /\ failed' = FALSE
    /\ ended' = Ended
    /\ UNCHANGED <<config, handles, data, turns, kept, cleared, wiped, lost, faults, tears, restarts>>

\* Mutant: what Reset returns is the error of the last store.
WipedLastError(ok, rest) ==
    LET done == ToSet(wiping) \ ToSet(rest)
    IN  /\ wiping' = rest
        /\ failed' = ~ok
        /\ kept' = IF ok THEN kept \ done ELSE kept \cup done
        /\ wiped' = IF rest = <<>> /\ ~failed' THEN wiped \cup ended ELSE wiped

(* After a store: with an error the loop goes on, and the first one is     *)
(* what Reset returns.                                                     *)
Wiped(ok, rest) ==
    LET done == ToSet(wiping) \ ToSet(rest)
    IN  /\ wiping' = rest
        /\ failed' = (failed \/ ~ok)
        /\ kept' = IF ok THEN kept \ done ELSE kept \cup done
        /\ wiped' = IF rest = <<>> /\ ~failed' THEN wiped \cup ended ELSE wiped

Emptied(s) ==
    /\ log' = [log EXCEPT ![s] = {}]
    /\ torn' = torn \ {s}

(* Reset of a file store: close, truncate, reopen.                         *)
ResetFile ==
    LET s == Head(wiping)
    IN  /\ wiping # <<>>
        /\ s \in Logs
        /\ Emptied(s)
        /\ open' = open \cup {s}
        /\ known' = IF s = "memory" THEN {} ELSE known
        /\ Wiped(TRUE, Tail(wiping))
        /\ UNCHANGED <<config, phase, closers, ring, idem, turns, ended, cleared, resets, lost,
                       faults, tears, restarts>>

(* The truncation fails, or the reopening after it: the store keeps the    *)
(* writer that was just closed, and the ring, which Reset of the           *)
(* escalations clears last, and the records of the memory stay as they are.*)
ResetFileFails ==
    LET s == Head(wiping)
    IN  /\ wiping # <<>>
        /\ s \in Logs
        /\ Within(faults, MaxFaults)
        /\ faults' = faults + 1
        /\ Emptied(s) \/ UNCHANGED <<log, torn>>
        /\ open' = open \ {s}
        /\ Wiped(FALSE, IF s = "escalations" THEN Tail(Tail(wiping)) ELSE Tail(wiping))
        /\ UNCHANGED <<config, phase, closers, ring, known, idem, turns, ended, cleared, resets,
                       lost, tears, restarts>>

ResetRing ==
    /\ wiping # <<>>
    /\ Head(wiping) = "ring"
    /\ ring' = <<>>
    /\ Wiped(TRUE, Tail(wiping))
    /\ UNCHANGED <<config, handles, log, torn, known, idem, turns, ended, cleared, resets, lost,
                   faults, tears, restarts>>

(* The claims: memstore forgets them, Redis has no Reset and is skipped.   *)
ResetIdempotency ==
    /\ wiping # <<>>
    /\ Head(wiping) = "idempotency"
    /\ idem' = IF backend = "memstore" THEN [p \in Posts |-> "new"] ELSE idem
    /\ cleared' = ended
    /\ Wiped(TRUE, Tail(wiping))
    /\ UNCHANGED <<config, handles, log, torn, ring, known, turns, ended, resets, lost, faults,
                   tears, restarts>>

Run(r) ==
    \/ SeenOrClaim(r)
    \/ Classify(r)
    \/ PutReply(r)
    \/ MarkManaged(r)
    \/ RecordAppend(r)
    \/ RecordInsert(r)
    \/ Remember(r)
    \/ Complete(r)

Next ==
    \/ BuildStep \/ BuildDone \/ BuildFails
    \/ ShutdownClose \/ CloseStep \/ Exit \/ Restart
    \/ \E r \in Runs, p \in Posts : Deliver(r, p)
    \/ \E r \in Runs : Run(r)
    \/ ResetBegin \/ ResetFile \/ ResetFileFails \/ ResetRing \/ ResetIdempotency

Spec == Init /\ [][Next]_vars

(* List with a limit: the newest entries first.                            *)
List(limit) ==
    LET n == IF limit <= 0 \/ limit > Len(ring) THEN Len(ring) ELSE limit
    IN  [i \in 1..n |-> ring[Len(ring) + 1 - i]]

(* findEscalationByPostID looks in the listing, never in the file; on      *)
(* Mongo the listing is the collection, below its limit here.              *)
Listed(r) == IF durable = "file" THEN Contains(List(500), r) ELSE r \in log["escalations"]

-----------------------------------------------------------------------------
(* Every variable holds a value of its type, the ring within its capacity. *)
TypeOK ==
    /\ durable \in Durables
    /\ backend \in Backends
    /\ phase \in {"building", "up", "closing", "down"}
    /\ ToSet(closers) \subseteq ToSet(BuildOrder)
    /\ open \subseteq ToSet(BuildOrder)
    /\ log \in [Logs -> SUBSET Runs]
    /\ torn \in SUBSET Logs
    /\ ring \in Seq(Runs) /\ Len(ring) <= Capacity
    /\ known \in SUBSET Runs
    /\ idem \in [Posts -> {"new", "claimed", "complete"}]
    /\ post \in [Runs -> Posts \cup {NoPost}]
    /\ pc \in [Runs -> Over \cup {"idle", "claim", "classify", "reply", "escalate",
                                  "manage", "insert", "remember", "complete"}]
    /\ outcome \in [Runs -> {"none", "sent", "escalated"}]
    /\ ToSet(wiping) \subseteq ToSet(ResetOrder)
    /\ failed \in BOOLEAN
    /\ kept \subseteq ToSet(ResetOrder)
    /\ {ended, cleared, wiped, lost} \subseteq SUBSET Runs
    /\ faults \in 0..MaxFaults /\ tears \in 0..faults
    /\ resets \in 0..MaxResets /\ restarts \in 0..MaxRestarts

(* wire.go on Build: "It never partially opens resources".  A process that *)
(* did not come up, like one that went down, holds no store open.          *)
NothingLeaks == phase = "down" => open = {}

(* Without reset, restart and failing write an escalation that was         *)
(* recorded leaves the ring only when the ring is full of others; then     *)
(* findEscalationByPostID no longer finds it though the file has it.       *)
EvictedWhenFull ==
    resets = 0 /\ restarts = 0 /\ faults = 0 /\ phase # "down" =>
        \A r \in Runs : r \in log["escalations"] /\ pc[r] \in {"remember", "complete", "done"} =>
            Listed(r) \/ Len(ring) = Capacity

(* The bundle: well-formed, all or nothing open, evicting only when full.  *)
BundleInv == TypeOK /\ NothingLeaks /\ EvictedWhenFull

(* While nobody resets, what the ring shows can be read back from the      *)
(* file, so GET /escalations shows nothing that a crash would lose, except *)
(* that each torn write costs at most one later escalation its line:       *)
(* Append does not end the torn line before it writes the next.            *)
ListedIsDurable ==
    resets = 0 =>
        Cardinality({r \in Runs : Listed(r) /\ r \notin log["escalations"]}) <= tears

(* A Reset of the files that returned nil has forgotten every run that was *)
(* over when it began, in every store, memory and conversions included,    *)
(* whatever other runs and later resets do; a store whose reset failed     *)
(* makes it return an error though the loop goes on.                       *)
ResetForgets ==
    durable = "file" =>
        \A r \in wiped : ~Listed(r) /\ r \notin known /\ \A l \in Logs : r \notin log[l]

(* What is left of the earlier runs that a Reset promised to forget when   *)
(* run r claims its post again.                                            *)
Claims(r) == pc[r] = "claim" /\ pc'[r] = "classify"
Earlier(r) == {r0 \in cleared : post[r0] = post[r] /\ pc[r0] # "dead"}

(* Reset drops the claims after the logs of the turns: when a redelivery   *)
(* claims a post again, nothing that an earlier run of it left before the  *)
(* Reset is to be found in them and in the listing any more, except in a   *)
(* store whose own reset failed.  In the memory and in the conversions,    *)
(* which the loop reaches after the claims, it is to be found only as long *)
(* as that Reset is under way or where it failed.  (What a run of an       *)
(* earlier process left may be there: a restart forgets the claims of      *)
(* memstore and no record.)                                                *)
RerunStartsClean ==
    [][\A r \in Runs : durable = "file" /\ Claims(r) =>
          \A r0 \in Earlier(r) :
              /\ \A l \in Logs \ (kept \cup ToSet(wiping)) : r0 \notin log[l]
              /\ \A l \in TurnLogs \ kept : r0 \notin log[l]
              /\ "ring" \notin kept => ~Listed(r0)
              /\ "memory" \notin kept \cup ToSet(wiping) => r0 \notin known]_vars

(* A claim that is complete in Redis is never tried again, so its turn     *)
(* must have been sent or its escalation be on disk, unless a failing      *)
(* write kept that off the disk: recordEscalation only logs the error and  *)
(* closeTurn completes the claim all the same.  Shutdown is no such        *)
(* exception, also when it closes the stores under a run that outlived the *)
(* dispatch timeout: LogClosers closes Redis before the files or the Mongo *)
(* client.  On Mongo it holds through resets, which wire.go says must      *)
(* never lose durable data there.                                          *)
CompletedHasRecord ==
    backend = "redis" /\ (durable = "file" => resets = 0) =>
        \A p \in Posts : idem[p] = "complete" =>
            \E r \in Runs : /\ post[r] = p
                            /\ \/ outcome[r] = "sent"
                               \/ r \in log["escalations"]
                               \/ r \in lost /\ faults > 0
=============================================================================
