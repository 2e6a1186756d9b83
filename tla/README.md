# A TLA+ model of the guest-inquiry responder

The program answers guest inquiries of a short-stay host. Guesty delivers webhooks;
the server deduplicates them, collects the messages of a conversation into one turn,
classifies the turn with a language model, drafts a reply with a tool-using agent,
and either posts the reply as a Guesty note or escalates to a human. Around this run a
kill-switch, a daily budget, a conversation memory, an escalation list and conversion
tracking.

The modules here are translated from the Go code, with source lines for every definition in
`PROJECT.json` (`map`). TLC checks small instances; TLAPS proves every invariant and every step
property that the runs check for all instances, and the safety of the two refinements of abstract
specifications. Each checked property has a mutant in `PROJECT.json`: a
plausible slip in the code, written as an operator beside the definition it replaces,
under which TLC finds the property violated.

Running it:

    tlc -workers 2 -config MCDispatch.cfg MCDispatch
    tlapm DispatchProofs.tla

and the same for the other `MC...` and `...Proofs` modules.

## 1. Inventory

Paths are relative to `src/`; `internal/` is left out of package names.

| component | state it keeps | operations | correct when |
|---|---|---|---|
| Dispatch pool (`application/dispatch`) | buffered channel, done channel, worker goroutines | Start, Enqueue, Stop, run, drainRemaining | an accepted turn runs once; Stop drains what was queued |
| Debouncer (`infrastructure/debouncer`) | buffer and timer per conversation, stopped flag | Push, CancelIfHostReplied, Stop, timer callback, flush | each message leaves once, in order, within the ceiling; no buffer without a wake-up |
| Orchestrator (`application/processinquiry`) | none of its own; toggle, memory, idempotency and Guesty through ports | Run with its gates, escalate, closeTurn | one outcome per Run; only replies that pass all rules are posted; completed after the outcome |
| Domain rules and gates (`domain`, `application/decide`) | none | Decide, the validators, gate 1 and 2, risk escalations | risk codes and unbacked promises stop the reply |
| Commitment guard (`processinquiry`, `domain/commitment`) | none; reads memory, thread, stored replies | commitmentHandoff, hold lookups, mergeThread | an accepted offer passes only with a hold |
| Webhook handler (`transport/http`) | none; idempotency claim, debouncer | Webhook, dispatch, empty-body escalation | a redelivery changes nothing |
| Idempotency stores (`store/memstore`, `store/rediscache`) | post -> in flight or complete, in Redis with a TTL | SeenOrClaim, Complete, Reset, expiry | a post is claimed once while its claim lasts |
| Server wiring (`cmd/server`) | process phase, auto-replay goroutine | enqueueFlushFn, makeFlushFn, shutdown, startAutoReplay | every delivered post is accounted for |
| Budget watcher and toggle (`infrastructure/budget`, `toggles`) | day, spend, tripped flag; one Boolean | Record, tally, trip, SetAutoResponse | the cap darkens the bot once per day |
| Conversion tracking (`application/trackconversion`, `transport/http`, `store/filestore`, `store/mongostore`) | record per reservation, counter | reservation.updated webhook, MarkManaged, ReservationUpdated | counts only managed reservations, each once |
| Escalation, payload and webhook stores (`store/memstore`, `store/filestore`, `store/mongostore`) | ring in memory, JSONL files or Mongo collections | Record, Append, Put, List, Reset, Close | the ring shows the newest, and nothing the file has not |
| Store bundle (`store/wire.go`) | the open stores and their closers | Build, Reset, Close, LogClosers | nothing open after a failed Build; a Reset that succeeded forgot everything; a completed claim has its record unless the write of it failed |
| Conversation memory (`store/filestore`, `store/mongostore`, `processinquiry`) | records, guest index, JSONL log or collection | Update, fold with summary, Reset, load at start | acknowledged updates survive; thread within its cap; every Update returns |
| Guesty client (`infrastructure/guesty`) | shared circuit breaker | do with retries | the error tells the caller what it may conclude |
| Reply generator (`application/generatereply`) | agent loop and tool log of one call | Generate, tools, reflection | promises are backed by tool effects; it ends |
| Critic, classifier, qualifier, injection detector | none | one call each | seen by the orchestrator as an answer or a failure |
| Profiles, Mongo schema, event bus, admin reads, replay command, signatures, configuration, telemetry, evaluation harness | logs, settings | - | see section 7 |

How they meet. A webhook goes `handler.Webhook` -> idempotency claim -> `debouncer.Push`.
The debouncer's timer calls `enqueueFlushFn`, which hands the turn to the pool or escalates when the
queue is full. A worker calls `makeFlushFn`: it fetches the conversation, drops the turn
if the host replied, and calls the orchestrator's `Run`. Run calls the models, reads the toggle twice,
posts through the Guesty client, records in the memory, and completes the claim.
Each model call reports its cost to the budget watcher, which may set the toggle off
while Run is between its two reads. At boot a goroutine may replay fixtures through Run, past claim, debouncer and
pool. An operator may reset all stores at any time, and the end of the process closes them, in both cases one by
one and without waiting for turns that are still running.

What is hard here: two-step tests (Enqueue against Stop, ConvertedAt against
RecordConversion), callbacks that were already waiting for a lock, state
read before a model call and used after it, one conversation's turns running at the same time,
shutdown in an order that leaves webhooks coming in, stores wiped or closed under a running turn, crashes between claim and outcome, writes that
stop half way through a line, and calls to Guesty whose error does not say whether they took effect.
`PROJECT.json` lists 40 such places (`hazards`), each with the properties that would
catch it going wrong, and a note where the code itself does what a reader might not want and the properties state how far that goes.

## 2. Modules

| module | models | state and actions |
|---|---|---|
| `Dispatch` | `application/dispatch/pool.go` | `enq`, `queue`, `done`, `wpc`, `running`, `stop` are the program counters and channels. Enqueue is three steps (test done, then send or refuse); a worker receives, runs, sees done, drains, leaves |
| `TurnQueue` | what the pool promises | a turn is refused or accepted, handled, finished; Stop reports drained or gave up. `Dispatch` implements it (`ImplementsTurnQueue`) |
| `Debouncer` | `debouncer/timed.go` | buffers, running timers, callbacks waiting for the mutex (`pending`), turns taken and not flushed (`inflight`), a clock in ticks. A timer that expired can no longer be stopped, as with `time.AfterFunc` |
| `Collector` | what the debouncer promises | messages held per conversation leave together, once, or are discarded; no timers, no lock, no clock. `Debouncer` implements it (`ImplementsCollector`) |
| `Gates` | `domain/*.go`, `application/decide` | no state: the validators, gates and tag tables as predicates over records. What a regular expression finds in the text is one Boolean |
| `Inquiry` | `processinquiry/usecase.go` | `pc[t]` is the step of each turn's Run; one action per call that another process can come between. Toggle and memory are shared. `raised` is what Run escalated, `onRecord` what the escalation store took of it; `noted` what Guesty stored, `acked` what PostNote said it stored |
| `Commitment` | the guard of `processinquiry` | thread in Guesty, of which a turn gets one page, thread in memory, which folds, stored replies and holds, and what each turn, a burst of posts, read of them and when |
| `Pipeline` | `transport/http/handler.go`, `cmd/server/main.go`, `processinquiry/autoreplay.go`, idempotency stores | a post's way from delivery to outcome, phases of the process, crash, restart, reset, expiry of a claim, a Redis that fails, and the replay at boot as an actor beside it. Composes handler, store, debouncer, pool and Run, each reduced to what a post can see of it |
| `Budget` | `budget/watcher.go`, toggle | tally under the lock and trip after it are two steps; midnight falls anywhere |
| `Conversions` | `trackconversion`, `transport/http/reservation_handler.go`, both conversion stores | read, test and append of concurrent webhook handlers as separate steps |
| `StoreBundle` | `store/wire.go`, `memstore/escalation_ring.go`, the six stores a turn writes to on files and on Mongo, both idempotency stores | `closers` and `open` are the handles, `log` and `torn` the files or collections, `known` the records of the memory, `wiping` the rest of a Reset in progress. Composes the stores with the turns that write to them; Build, Reset and LogClosers take one store per step |
| `ConversationMemory` | `filestore/conversation_memory.go`, `mongostore/conversation_memory.go`, the record and fold of `processinquiry` | Update waits for `lock` and holds it through the mutation: one step per message of the burst, one for the reply and the fold, one for the summarizer |
| `GuestyClient` | `guesty/client.go` | attempts, waits, and the breaker (library gobreaker, modelled from its settings and use) |
| `Generator` | `application/generatereply` | the loop with its turn budget, the tools with their effects at Guesty, the reflection |

The proofs are in eight modules (section 4). `DispatchProofs`, `DebouncerProofs`, `InquiryProofs`, `PipelineProofs` and
`StoreBundleProofs` extend the module they are named after. The other three extend two modules each: `LimitsProofs` is about `GuestyClient` and
`Budget`, `RecordsProofs` about `ConversationMemory` and `Conversions`, `PromisesProofs` about `Commitment` and `Generator`. For
this the second of each pair has names of its own for what every specification has: `BudgetInit`, `BudgetNext`, `BudgetSpec`,
`BudgetTypeOK` and so on, and `Conversions` calls its store `ledger`, its program counter `step`, `Generator` its own `phase`, its
chats with the model `chats` and its result `returned`. The two halves of such a module share nothing but the library.

Each `MC...` module extends one of these and gives the constants that are not plain values: which
conversation a post belongs to, which answers the models may give, and symmetry sets. `MCParts` extends four, `GuestyClient`,
`Budget`, `Conversions` and `Generator`: they are small and share no variable, so one run checks them all, with `part` the one that moves in a
behaviour (section 3). `MCConversions` is `Conversions` alone, for the run that shows the double count.

`Gates` is used by `Inquiry` and `Generator` with the same definitions, so a rule weakened there
shows in both. `Pipeline` takes debouncer and pool at the level of `Collector` and `TurnQueue`: a buffer taken at some
moment, a turn refused or accepted in two steps. That the code's timers, locks, channel and workers
amount to this is what the two refinements show.

The refinement mappings. `TurnQueue`'s `status` of a turn is computed from the place it is in (`Status` in
`Dispatch`: finished, with a worker, in the channel, refused), its `report` from the state of Stop; the workers' states
and the steps inside Enqueue are gone. `Collector`'s `held` is the set of a buffer's messages, `leaving` the turns
between the callback's unlock and flush; timers, callbacks waiting for the mutex, and the clock are gone. A stale
callback is a `Take` like any other, which is why the abstract level does not promise quiet windows.

Abstraction of data: texts are Booleans or a few named bodies, confidences are above or
below the threshold, money is small integers, time is ticks or an unconstrained
event. Kept entirely: order of calls, early returns, error paths, what is inside
and outside a lock.

## 3. Runs

Twelve runs: eight hold, four show a disagreement between the code and what the repository says of it (section 6). The
state counts are distinct states.

| run | instance | states | checks |
|---|---|---|---|
| MCDispatch | 4 jobs, 2 workers, queue 2 | 97,387 | `PoolInv`, `JobsConserved`, `DrainedWhenFinished`; refinement with liveness `ImplementsTurnQueue` |
| MCDebouncer | 2 conversations, 3 posts, window 2, ceiling 3, 4 appends | 440,695 | `WakeupInv`, `MessagesConserved`, `TurnsOrdered`; refinement with liveness `ImplementsCollector` |
| MCInquiry | one turn with all model answers, or two turns of one conversation with few | 718,460 | `OutcomeInv`, `SentPassedGates`, `ToggleReadAfterDraft`, `MemoryMatchesDelivery` |
| MCInquiryCritic | the same | - | `FailClosedEscalates`, violated |
| MCInquiryOutcome | the same | - | `NeverBoth`, violated |
| MCPipeline | 2 posts (one delivered twice, the other also a fixture), an empty post, both stores, 1 worker, queue 1, 1 disturbance | 510,675 | `AccountInv`, `RunAtMostOnce`, `CompleteMeansOutcome`; liveness `EveryPostLeaves` |
| MCPipelineFetch | the same without fixtures, durable store | - | `TurnsEndInOutcome`, violated |
| MCStoreBundle | 2 deliveries of 1 or 2 posts, files or Mongo, both idempotency stores, ring of 1, 2 out of 1 fault, 1 reset, 1 restart | 5,860,643 | `BundleInv`, `ListedIsDurable`, `ResetForgets`, `CompletedHasRecord`; step property `RerunStartsClean` |
| MCConversationMemory | 2 turns of one conversation, one of them a burst of 2, both stores, cap 2, keep 2, summarizer, restarts, resets | 681,958 | `ThreadInv`, `AckedSurvives`; step property `LastTurnVerbatim`; liveness `UpdateReturns` |
| MCCommitment | 2 turns with 3 posts, 1 post of the host, 2 offers, pages of 3, cap 3, keep 2 | 4,427,736 | `ViewInv`, `PassedMeansHeld`, `BackedOfferFlows`, `HostOfferSeen` |
| MCParts, client | 3 callers, 1 retry, trip after 2 failures | 247,828 in all | `ProbeInv`, `ResultMeans`; liveness `BreakerRecovers` |
| MCParts, budget | 2 callers, costs 1 and 2, cap 2, 5 calls, 3 days, 2 flips, 1 restart | | `BucketInv`, `OneTripPerBucket`, `OverCapIsDark` |
| MCParts, conversions | 2 reservations, 2 handlers, 3 marks, 3 webhooks, both stores | | `CountInv`, `CountedStayConverted` |
| MCParts, generator | 2 listings, listing known or not, 2 rounds, 2 tools at once | | `HoldInv`, `PromisesBacked` |
| MCConversionsRace | 1 reservation, 2 handlers, Mongo | - | `CountedOnce`, violated |

The names ending in `Inv` are conjunctions of named parts, the type invariant of the module among them, and
the start of its inductive invariant:

| invariant | parts besides `TypeOK` |
|---|---|
| `PoolInv` | `ShutdownInv` |
| `WakeupInv` | `BufferHasWakeup`, `CeilingRespected`, `OwnTimerMeansQuiet` |
| `OutcomeInv` | `OneOutcomePerRun`, `CompletedMeansHandled` |
| `AccountInv` | `DeliveredIsAccounted` |
| `BucketInv` | `BucketIsTheDay` |
| `CountInv` | `CountedWereManaged`, `CountedOnceAlone` |
| `BundleInv` | `NothingLeaks`, `EvictedWhenFull` |
| `ThreadInv` | `ThreadBounded`, `IndexMatches` |
| `ProbeInv` | `OneProbe` |
| `HoldInv` | `HoldsOnThisListing`, `HoldsLogged`, `ExhaustedAborts` |
| `ViewInv` | `ViewComplete` |

`ShutdownInv` is a strengthening of `DrainedWhenFinished` (section 4). `MessagesConserved` is
`EachMessageOnce` and `NothingVanishes`.

What they show, beyond what the names say:

* **Dispatch.** A turn accepted is in exactly one place. Stop's promise holds for what was
  on the queue when the done channel was closed, and for no more: an Enqueue that tested the
  channel before may still send after the last worker left (`late`).
* **Debouncer.** The callback of a timer that expired while Push held the mutex meets the new buffer
  and flushes it early. That costs quietness, never a message: `OwnTimerMeansQuiet` is the
  part of the window that the code does guarantee.
* **Inquiry.** A posted reply passed both gates and every validator on its path, and if the critic was asked, it gave none of the blocking tags. That is
  less than it sounds: a critic that failed gives none (`FailClosedEscalates`). A draft finished in the dark is not posted while
  it stays dark. The claim is completed only when PostNote returned nil or the turn was escalated; whether the escalation store
  took the record is another matter, since Run only logs its error. A note that was stored without an answer counts as not sent: it is escalated
  too (`NeverBoth`) and not remembered.
* **Pipeline.** Every delivered post is in the process or has its end on record, the ends that
  nobody wanted included (`lost` in a crash or a shutdown, dropped by a failed fetch, `hostReplied`, `refused` because the claim
  failed): the list of them is what the module establishes, not that they are few. A claim that failed may be stored all the same; the
  redelivery is then a duplicate and the post is never run. With a durable store no post is run twice by the workers while its claim
  lasts, and not once after the replay at boot completed it. The replay claims nothing, so a post whose webhook
  was claimed before is answered by both: `RunAtMostOnce` counts the workers' runs only.
* **Budget.** trip runs after the lock is released; still each bucket trips once, and
  auto-response over the cap is on only by the operator or with the trip under way.
* **Conversions.** Only managed reservations are counted. One is counted again only when two handlers of it overlapped, or when the
  file store was told again that it is managed, or reset: then its record has no ConvertedAt any more. Neither happens on Mongo
  without overlapping handlers, and there what was counted stays converted.
* **Stores.** Torn lines cost at most the line after them; everything else acknowledged
  survives a restart. A Reset that returned nil has wiped what was there when it began; one that failed left a store
  with a closed writer, whose later writes all fail. The logs of the turns are wiped before the claims, so a post that can be
  claimed again finds nothing of the wiped run in them; memory and conversions are wiped after, and until then they are as they
  were. LogClosers closes in the reverse order of Build, Redis first: a turn that runs on can no longer complete its claim once shutdown has
  closed the store of its record. A write that fails while the store is open is no reason for closeTurn not to complete the claim: `CompletedHasRecord`
  excepts the runs in `lost`, those whose own escalation such a write kept off the disk. `EvictedWhenFull` speaks of
  behaviours without failing writes, resets and restarts, each of which takes entries out of the ring or keeps them out in its own way.
* **Memory.** The store's lock is held through a call of the summarizer. The call has a timeout, so on the file store every other
  conversation is delayed and none is stopped (`UpdateReturns`). On Mongo the calls themselves have no deadline and nothing of the kind holds. A fold keeps the last
  `Keep` entries, so of a burst that is answered at once the last `Keep` - 1 messages stay verbatim: with the default tail of 20, bursts of up to 19.
* **Guesty.** A nil error means at least one copy, and more than one only after a repeated attempt;
  the open-circuit error means none. The breaker closes again once Guesty is `healthy`, which means that every attempt succeeds: a 4xx
  and a cancelled context count as failures in `client.go`, too.
* **Generator.** The validators accept a claim of a hold or of availability only
  with the tool effect behind it. When a chat fails the tool log is discarded with it, and a hold placed before is known to Guesty only.
* **Commitment.** A guest who accepts, in the last post of the turn, an offer that the turn can see passes only if the
  conversation has a hold. It can see what is in the memory and what is on the one page that was fetched: an offer of the host that is
  not on the page is overlooked, and one of the bot that the memory does not have yet, or no more.

### Bounds and why they are enough

Two of each actor that interleaves (workers, callers, handlers, turns), three where a third matters
(a breaker probe with one caller before and one waiting). One more
message than the queue, ring, page or thread holds, so that the limit is reached and passed: 4 jobs for
a queue of 2 with 2 workers, 2 escalations for a ring of 1, three posts of the guest and one of the host for a page of 3, two or three entries per
turn for a thread of 2. `MaxWait` lies between one and two windows so that both the window and the ceiling decide.
One restart and one reset: what a second would add is the state after the first, which the properties constrain already; for
`StoreBundle` and `Pipeline` the theorems say so for any number.
In MCPipeline a behaviour has one disturbance (`MaxUpsets`): a host reply, a restart, a reset, the expiry of a claim or a claim that fails,
at any step; crash and shutdown are not counted. A post of three is enough there: one redelivered, one replayed, one empty.
In MCStoreBundle a behaviour has two mishaps of different kinds (`MaxMishaps`: a failing operation, a reset, a restart), in any order, with either
backend. Two bounds keep it small and are worth knowing. `MaxClosing` = 0: a behaviour on files that had a Reset ends by a crash and not store by store; the
properties that speak of the closing order on files are about behaviours without a Reset. And Resets come one at a time, though `PostReset` holds no lock
and two operators could interleave theirs: each store still wipes itself under its own lock, and the second
one would only empty what the first has emptied.
Counters are capped in guards (`MaxAccepted`, `MaxCalls`, `MaxDay`, `MaxFlips`, `MaxManaged`, `MaxUpdates`, `MaxPosts`, `MaxDeliveries`, `MaxUpsets`, `MaxFaults`,
`MaxResets`, `MaxRestarts`); each of these is the name of a bound of the model, not of the code.
`CHECK_DEADLOCK FALSE` stands where the system may stop: the process has shut down, or
its environment has used up what the bounds give it. In MCParts deadlock is checked for the client and the generator, which must never get stuck; in the
behaviours of the other two parts, whose calls and webhooks come to their bounds, `BoundsReached` repeats the last state.

The four parts of MCParts share no state, so what one of them does in the server is what it does alone, and the states of the run are the
sum, not the product, of theirs: the parts that do not move stay in one of their initial states.

### Fairness

Only on what the program itself does: goroutines that can step do so, timers fire, and calls to Guesty and to the models
return because their HTTP clients have timeouts. Weak fairness suffices almost everywhere (`Dispatch`: Start, Enqueue and the
workers; `Debouncer`: clock, timers, callbacks, flush; `Pipeline`: the progress of posts and fixtures, and the shutdown once begun; `GuestyClient`:
attempts, waits and the open timeout, in MCParts in the behaviours of the client; `ConversationMemory`: the holder of the lock of the file store). The one strong fairness is on taking that
lock: others take and release it again and again, and Go's `sync.Mutex` hands it to a waiter that has
waited for a millisecond, so nobody starves. The abstract modules' fairness (`Collector`, `TurnQueue`) is not assumed but
shown, as part of the refinement. The other modules state no liveness. No webhook, host reply, operator, Stop, crash,
restart or Mongo answer is owed: the Mongo client sets no timeout (`mongostore/client.go:58`) and a flush runs with `context.Background()`, so an
Update on Mongo may hold its mutex for ever, and `UpdateReturns` is about the file store only. `GuestyClient` also assumes that callers keep calling, without which
a half-open breaker has no probe: it is the assumption that guests keep writing.

## 4. Proofs

Every theorem holds for all values of the constants: any number of turns, workers, callers, handlers, posts, messages,
runs and conversations, any queue size, window, cap and retry count, and any value of the bounds (`Max...`), so that
none of them matters to what is proved. `PROJECT.json` (`theorems`) says in a sentence what each one establishes.

| module | theorems, with the property of the run that each states |
|---|---|
| `DispatchProofs` | `TypeCorrect`, `JobsAreConserved` (`JobsConserved`), `ShutdownInvariant`, `PoolInvariant` (`PoolInv`), `StopDrains` (`DrainedWhenFinished`), `PoolImplementsTurnQueue` |
| `DebouncerProofs` | `Invariance`, `MessagesPartitioned` (`MessagesConserved`), `BuffersAreWoken` (`WakeupInv`), `TurnsInOrder` (`TurnsOrdered`), `Refinement` (the safety of `ImplementsCollector`) |
| `InquiryProofs` | `Invariance`, `OneOutcomePerTurn` (`OutcomeInv`), `OnlyPassedRepliesAreSent` (`SentPassedGates`), `ToggleIsReadAgain` (`ToggleReadAfterDraft`), `OnlyDeliveredIsRemembered` (`MemoryMatchesDelivery`) |
| `PipelineProofs` | `TypeCorrect`, `Invariance`, `NoPostGoesMissing` (`AccountInv`), `NoPostRunsTwice` (`RunAtMostOnce`), `CompletedHasOutcome` (`CompleteMeansOutcome`) |
| `StoreBundleProofs` | `Invariance`, `BundleIsSound` (`BundleInv`), `ListedSurvives` (`ListedIsDurable`), `ResetForgetsAll` (`ResetForgets`), `RerunsStartClean` (`RerunStartsClean`), `CompletedIsRecorded` (`CompletedHasRecord`) |
| `LimitsProofs`, `GuestyClient` | `Invariance`, `OneProbeAtATime` (`ProbeInv`), `ResultsMeanWhatTheySay` (`ResultMeans`) |
| `LimitsProofs`, `Budget` | `BudgetInvariance`, `BucketCorrect` (`BucketInv`), `OneTripEach` (`OneTripPerBucket`), `OverCapGoesDark` (`OverCapIsDark`) |
| `RecordsProofs`, `ConversationMemory` | `Invariance`, `ThreadsAreBounded` (`ThreadInv`), `AcknowledgedSurvives` (`AckedSurvives`), `TheLastTurnIsVerbatim` (`LastTurnVerbatim`) |
| `RecordsProofs`, `Conversions` | `ConversionsInvariance`, `CountsAreBounded` (`CountInv`), `ConversionsStick` (`CountedStayConverted`) |
| `PromisesProofs`, `Commitment` | `Invariance`, `ViewsAreComplete` (`ViewInv`), `NobodyPassesUnheld` (`PassedMeansHeld`), `BackedOffersFlow` (`BackedOfferFlows`), `HostOffersAreSeen` (`HostOfferSeen`) |
| `PromisesProofs`, `Generator` | `GeneratorInvariance`, `HoldsAreOwnAndLogged` (`HoldInv`), `PromisesAreBacked` (`PromisesBacked`) |

The properties of the runs are seldom inductive. For each module but `Dispatch` the inductive invariant is `IInv` (`BudgetIInv`, `ConversionsIInv` and `GeneratorIInv` in the second halves), the type
invariant with the parts named below, and `Invariance` is `Spec => []IInv`: one lemma per action, or per kind of action, and
under it one step per part that the action can disturb. TLC checked each `IInv` on the instance of its module's run
before it was proved. The other theorems follow from `IInv`.

### Assumptions

All are in the modules that declare the constants, and TLC evaluates them in the runs.

* `Dispatch`: a positive queue size, a worker at least, and the value of an idle worker is not a job.
* `Debouncer`: `KeyOf` gives each post a conversation; window, ceiling and bound are natural numbers.
* `Inquiry`: each turn has a conversation; the models' answers are classifications, replies and verdicts, and `None` is none of them.
* `Pipeline`: each post has a conversation; queue size and number of workers are positive; the fixtures are posts.
* `Budget`: costs are positive; the cap may be any integer, since the code takes a cap of zero or less to mean no cap. There is at least one day.
* `Conversions`: `NotFound` is not a record.
* `StoreBundle`: the ring holds between 1 and 500 entries. `wire.go` makes it 500, and 500 is what the admin handler lists:
  with a larger ring an escalation could be in it and not be listed.
* `GuestyClient`: at least one failure trips the breaker.
* `ConversationMemory`: each turn has a conversation and at least one message, cap and tail are natural numbers, zero included. `ThreadsAreBounded` needs more of
  the configuration, and says so as a hypothesis: a tail of 1 to `Cap` messages, since the code folds nothing when either is zero and
  keeps too much when the tail is longer than the cap. The defaults are 50 and 20 (`config.go:163`), and nothing in the code refuses other values.
* `Commitment`: offers are bodies, no post of the host is a turn of the guest, and page size, cap and tail are natural numbers.
* `Generator`: one round at least (`LLM_AGENT_MAX_TURNS`); an unresolved listing is not a listing, and no result is not a reply.

### The arguments

**Dispatch.** `JobsConserved` needs only `TypeOK`: each step moves one job from one place to the next. The
sequence part rests on three lemmas on the channel: what Append and Tail do to the set
of elements of an injective sequence (`AppendElements`, `TailElements`), and that the set is the range (`QueueIsElements`).
`DrainedWhenFinished` is not inductive: it says nothing until Stop
returns. `ShutdownInv` is its strengthening. It follows a worker from the stop signal to its exit:
only a closed done channel sends a worker to drain; a worker leaves when it finds the queue
empty of everything but what was sent after the close; and Stop finishes after the last one
left. From it, with `JobsConserved`, a job accepted before the close is neither queued nor
running when Stop finishes, hence finished.

The refinement uses all three invariants. A step of the pool changes the place of at most one job; `StatusOf` says which
status each place means, `StatusKept` that a job whose places do not change keeps its status. With them each action is one
abstract step (a send is `Accept`, a refusal `Refuse`, a worker's receive `Handle`, its return `Finish`, the two ends of Stop `Drained`
and `GaveUp`) or a stutter (Start, the test of the done channel, a worker that turns to drain or leaves). The one that
needs more is `Drained`: its guard is `DrainedWhenFinished` seen from the abstract side.

**Debouncer** (`HomeInv`, `TurnInv`, `MessagesConserved`, `TurnsOrdered`, `TimerInv`, `WakeInv`). Two facts carry it. The number of an
accepted message is larger than that of every earlier one, so no timer but the one that a Push arms belongs to the buffer it
appends to, however many older ones are still running or waiting for the mutex. And a message is buffered under its own
conversation, so taking or dropping one buffer leaves the others alone. In the refinement a Push is `Collector`'s accept, a
callback that finds a buffer its `Take`, stale or not; arming, expiry, the clock and a callback that finds nothing are stutters.

**Inquiry** (`SharedInv`, `TurnInv`). The properties speak of turns whose Run is over or whose note is stored. `TurnInv` says what
each program point of Run may rely on: `OutcomeAt` about note and escalation, `DraftAt` about classification, draft and verdict.
`SharedInv` says that an auto-response that is on has no draft finished in the dark, and that a memory, of which a fold may take anything away, holds only acknowledged
replies. A step of Run changes one turn only, so its effect on the others is settled once (`TurnFrame`). What the rules of `Gates` do is
stated as lemmas first: after `enforcePriority`, for one, a human-only code cannot hide in second place.

**Pipeline** (`ShapeInv`, `OutcomeInv`, `ClaimInv`, `DeliveredIsAccounted`, `OnceInv`). `RunAtMostOnce` is an argument about tokens. With the store
that outlives the process, and until its claim expires, a post is in at most one place (`OnceAt`): with the handler, in a
buffer, in a turn that is being flushed, on the queue or with a worker, in one turn there and once in it; and it has not been run until a worker starts on it.
A post whose claim is new is nowhere, so a second delivery cannot make a second token; a claim that was stored and not answered makes none at all, and a crash only destroys
tokens. A post that the replay at boot completed is nowhere and never run by a worker.

**Budget** (`BillInv`, `TripInv`, `DarkInv`). The difficulty is the gap between the unlock in tally and the trip: a caller may
carry a bucket's trip across later calls, the operator's flips and midnights. `TripInv` follows it from the moment the flag is set: it is carried by
one caller or done, and never for a bucket whose flag is clear.

**Conversions** (`SeenInv`, `TallyInv`). A handler that has passed the test of ConvertedAt and has not returned may still count. As long as no two of
them meet at one reservation, and its record is not replaced, such a handler found it unconverted, hence uncounted, and nobody counts it before that handler returns; after
the count the record is converted and no handler passes the test again.

**StoreBundle** (`HandleInv`, `WipeInv`, `RunInv`, `ForgetInv`, `UnreadInv`, `EvictedWhenFull`, `RecordInv`, `CompletedHasRecord`). `HandleInv` says that the closers are
the beginning of the order of Build, and open as long as no Reset of a file failed (`Intact`); `WipeInv` that what is left of a Reset is an end of its order (`Pending`).
`ForgetInv` follows a Reset store by store: what it has passed is gone or counted as kept, for the last Reset, for the last one that dropped the claims and for those
that returned nil. `UnreadInv` gives each listed escalation that is not in the file a torn write of its own. `RecordInv` is why completed claims have records: a run
about to complete is on record (`OnRecord`: sent, escalated on disk, or kept off the disk by a failing write) or has no longer a Redis client to complete with, because LogClosers closes Redis first.

**GuestyClient** (`BreakerInv`, `CallInv`). Before an attempt each earlier one may have taken effect once, after it that one too. A
half-open breaker has no caller of its generation before it admits one, and one at most after.

**ConversationMemory** (`Control`, `RecordsSound`, `RecordsBounded`, `DraftMeans`, `BurstMeans`, `IndexMatches`, `AckedKnown`). Between Get and Set a turn holds the lock and
a draft, and calls the summarizer and the disk. `DraftMeans` ties the draft to the record it came from: it knows what the record knew and this turn,
it awaits the summarizer only when too long, and is short enough when it is to be stored. `BurstMeans` follows the messages of a new burst through the loop: number n of them is at
most as far from the end of the draft as there are messages and a reply after it, so a fold that keeps more than that keeps it. Only `AckedKnown` makes `AckedSurvives` inductive: what was acknowledged is in the
record in memory too, so the next snapshot, which replaces the last, has it as well. What `AppendMessage` and the fold do to a
thread is stated first (`AppendMessageMeans`, `AppendMoves`, `TruncatedMeans`).

**Commitment** (`StageInv`, `ThreadMeans`, `MemoryMeans`, `FetchedMeans`, `ViewMeans`, `HoldsMeans`, `PassedMeansHeld`, `BackedOfferFlows`). The first part is about `mergeThread`. Its filter is written
with the ranks of the indices kept (`Rank`, `EntriesAt`) and not with SelectSeq, whose recursion the provers cannot follow: `RankNumbers` shows that the ranks number
the indices, `EntriesAtMeans` that each entry kept comes once and no other comes, `MergeMeans` that the merged thread has everything of both sides, nothing twice and
nothing of the turn itself. This needs that the memory, folded or not, and the conversation have no repetitions of their own (`MemoryMeans`, `ThreadMeans`), which in turn needs that a turn
which is over does not write again. `GuardPasses` and `GuardHands` then say what the guard concludes from any view: to pass it needs a stored success for
the offer that decides, which `HoldsMeans` turns into a hold in Guesty. For `HostOfferSeen` what was fetched is a part of the
conversation, and, where that fits on a page, all of it up to the turn's last post at least (`FetchedMeans`), so it has what the host wrote before.

**Generator** (`LoopInv`, `HoldsOnThisListing`, `HoldsLogged`, `LogInv`, `DraftInv`). `LogInv` gives each success on the log its effect at Guesty, on the listing of the turn
whenever that is known, because `rejectIfWrongListing` comes before the tool. A draft carries the log (`DraftInv`), and the validators
look for the promised tool in it (`ValidReplyMeans`).

### What the proofs found

`RerunStartsClean` was not provable as it had first been stated: it asked whether the last reset of the escalation file had failed, and said
of the ring that it is then untouched. After a failed escalation reset and a second Reset, the file may already be wiped again while the ring still
holds the entries of the first, and TLC found the behaviour with two resets and one fault. `kept` now names the ring too, as
`EscalationRing.Reset` treats the two (the ring is cleared only if the file was), and the property excepts each of them by itself.

`BackedOfferFlows` had been stated too strongly: that a guest is not handed off who accepts an offer for which some reply in the same words has its hold. From three
turns on this is false, though the run, with two, does not reach it. The bot repeats an earlier, backed offer word for word, without a hold of its own; the guest says yes
to the second one; `hasSuccessfulHoldByBodyAlias` (`processinquiry/usecase.go:468`) looks for replies in the same words only on behalf of entries that are not the bot's, so the turn is handed
off. The proof did not get past that case, and TLC found the behaviour with three turns. It errs on the side of a human, and the property now says what
the code does: an offer of the bot is backed by its own reply, one of the host by a reply in the same words.

The proofs about the memory brought out the condition on its configuration above, and how much of a burst a fold may take. The other properties were proved as the runs check them.

### Only model-checked

* Liveness, with the fairness it needs and `ENABLED`: `EveryPostLeaves`, `UpdateReturns`, `BreakerRecovers`, and the liveness of
  `ImplementsTurnQueue` and `ImplementsCollector`, whose safety is proved. TLAPS 1.4.5 does not handle it.

The project has no RECURSIVE operators.

## 5. What the code does and its comments or documents do not say

Met while translating. Four are runs of their own (section 6); the others are visible in the modules, whose
properties state what does hold.

* `dispatch/pool.go:108` against `:7`: a send after the drain is accepted and never run (`late`).
* `debouncer/timed.go:128` against `:43`: a stale callback flushes a buffer that was not quiet.
* `processinquiry/usecase.go:189` against `CHALLENGE.md:101`, and `decide/validate_qualifier.go:21` against `validate.go:25`: the qualifier path looks neither at the classifier's confidence nor at out-of-band promises.
* `processinquiry/usecase.go:778`: a Record that fails is logged, and closeTurn completes the claim all the same, so the turn is tried no more and nobody sees it (`lost` in `StoreBundle`, `onRecord` in `Inquiry`).
* `processinquiry/usecase.go:515` against `README.md:190`: "reads memory first and only falls back to the webhook `thread` when memory is empty", and yet the code always merges the two (`ViewInv`).
* `guesty/client.go:174` against `domain/repository/guesty.go:25`: the snapshot "used by the orchestrator to recheck whether a host has already replied" has one page of 25 posts, by `:22` the oldest; in a longer conversation the recheck and the guard may miss the newest posts of the host (`HostOfferSeen` speaks of the page).
* `processinquiry/usecase.go:500`: the guard looks at the last post of a burst only; a yes followed by another message is no yes.
* `transport/http/handler.go:118`: a SeenOrClaim that fails after Redis stored the key is answered with 500, and the redelivery this asks for is then a duplicate.
* `processinquiry/usecase.go:190` against `:508`: the saturation guard sees the entities of earlier turns only.
* `cmd/server/main.go:247` against `handler.go:67`: during shutdown webhooks are acknowledged after the debouncer stopped.
* `transport/http/handler.go:112` against `README.md:84`: an empty body is escalated before the claim, once per delivery.
* `memstore/idempotency.go:22` against the design document: the store starts empty, so a restart runs a redelivered post again (`RunAtMostOnce` is about the durable store).
* `budget/watcher.go:128` against the budget runbook (line 30): a new day resets the tally and leaves the toggle off.
* `filestore/conversions.go:61` against `domain/conversion.go:16`: MarkManaged overwrites a terminal status, and with it ConvertedAt, so the next confirmation counts again (`rewritten` in `Conversions`). `mongostore/conversions.go:92` against `:50`: ManagedAt comes from the payload.
* `memstore/escalation_ring.go:47` against `:43` ("durable and in-memory state cannot diverge"): the order in ring and file may differ, an append that failed may be in the file, and one glued to a torn line is in the ring only. `admin.go:253` against `:251`: no escalation found "means the turn auto-sent", and yet it may have been evicted, be from before a restart or not be there yet.
* `infrastructure/config/config.go:189` against the design document (`docs/superpowers/specs/2026-04-20-inquiryiq-design.md:945`): `AUTO_REPLAY_EXECUTE` is read and never used; the replay at boot posts for real.
* `processinquiry/autoreplay.go:67`: the replay runs without a claim, so a post delivered and replayed is answered twice.
* `cmd/replay/wire.go:114` against its comment and `cmd/replay/main.go`'s `--escalations-only`: on files the escalations are read from the ring of the replay process, which is empty, so nothing is replayed.
* `store/wire.go:69` against `filestore/conversation_memory.go:65` ("cannot inherit stale guest_profile or thread context"): the claims are dropped before the memory and the conversions, so a post redelivered during a Reset may still be answered with the memory that is about to go. And against `wire.go:65` ("does not leave the demo state half-wiped"): the store whose reset failed keeps its records while the others lose theirs.
* `mongostore/conversation_memory.go:19` against the replay command: the mutex is one process's, so server and replay may overwrite each other's record.
* `filestore/escalations.go:70` against `:61`, `conversation_memory.go:135` against `:19`: the line after a torn one is lost with it.
* `processinquiry/usecase.go:893` against `conversation_memory.go:88`: the summarizer runs under the store's lock. `usecase.go:903` against `summarize/usecase.go:48`: an empty summary is stored.
* `filestore/reset.go:14` against `:10`: a reset that fails leaves the closed writer in place.
* `processinquiry/usecase.go:468`: an offer the bot repeats in the words of a backed one is handed off when it is accepted (section 4).
* `generatereply/usecase.go:105` against `:34`: the reflection is one call beyond maxTurns (in `GeneratorTypeOK`).
* `processinquiry/usecase.go:805` against `README.md:211`, `:419` against `:362`, `:410` against `detect.go:95`: the guard sees a bot offer only once it is in the memory; an older backed offer may outweigh a newer one; a request to finalize hands off only together with an affirmative.

## 6. The findings

**A turn without an outcome.** `MCPipelineFetch` checks `TurnsEndInOutcome`, from the comment at `cmd/server/main.go:379`: "every turn still
terminates in exactly one of {auto-send, escalation}". `makeFlushFn` logs and returns when
GetConversation fails (`main.go:412`). The turn has been claimed, so a redelivery counts as a
duplicate, and neither a note nor an escalation is ever recorded. TLC's counterexample is one post, one
flush, one failed fetch.

**A reply nobody assessed.** `MCInquiryCritic` checks `FailClosedEscalates`, from `reviewreply/usecase.go:145`: "Pass=false guarantees the
orchestrator escalates rather than auto-sending a reply whose quality the critic never assessed". `failClosed` answers with the tag
`critic_call_failed`, `critic_empty_response` or `critic_schema_invalid`; none of them is in `criticBlockerTags`
(`processinquiry/usecase.go:560`), so `criticIssues` takes it for advice and the reply is sent.

**Both outcomes.** `MCInquiryOutcome` checks `NeverBoth`, from `processinquiry/usecase.go:636`: "every turn lands in exactly one of {auto-send,
escalation}". When Guesty stores the note and its answer is lost, PostNote returns an error and the turn is escalated as
`post_note_failed` too (`:297`).

**A conversion counted twice.** `MCConversionsRace` checks `CountedOnce`, from `trackconversion/usecase.go:84` ("already counted; idempotent.") and its
test ("double convert leaked", `usecase_test.go:98`). The test of ConvertedAt and RecordConversion are two steps, and two handlers of one confirmation
may both be past the first; TLC's counterexample is one reservation on Mongo. Without overlapping handlers `CountInv` says what is left of the
claim.

## 7. Not modelled

* Text: regular expressions, prompts, formatting, the phrase tables of the commitment detector. They enter as Booleans of a turn.
* Guest profiles: text for the prompt; no decision depends on them.
* Mongo schema: `Bootstrap` and the indexes are one step of `BuildFails` that succeeds or fails; which documents the validators refuse is data.
* What the memory and the conversions make of their records in `StoreBundle`, where they are logs like the others: they have modules of their own.
* Two Resets at the same time (section 3).
* The lookups of the payload stores (Get, Since): reads that print or feed the replay command; `Commitment` has the part of the stored replies that a decision reads.
* The replay command: a second process over the same stores, started by hand; its Runs are those of the replay at boot.
* The second attempt of the classifier after an answer that does not parse: the caller sees the result of both.
* Event bus, audit log, telemetry, counters: nothing reads them back.
* Signature check, decoding, configuration, construction: sequential and without state.
* Evaluation harness and tester: offline tools beside the program.

## 8. Plan

Done first: the way of a turn (`Dispatch`, `Debouncer`, `Inquiry` with `Gates`, `Pipeline`), then what it depends on
(`GuestyClient`, `Generator`, `Commitment`, `Budget`), then the stores, then the proofs on `Dispatch`. Then the two
refinements, the replay at boot and the expiry of claims in `Pipeline`, the store bundle, the Mongo memory with its
liveness, and the proof that the pool implements `TurnQueue`. Then the proofs of the safety properties of the other modules,
those of `ConversationMemory`, `Commitment` and `Generator` last, and the refinement of `Collector`. Then what these had left out: failing
escalation records, bursts of several posts, pages and folds, memory and conversions in the bundle, claims that fail.

Next, in this order:

1. The replay command as a second process over the stores of `StoreBundle`.
2. The second attempt of the classifier, with the timeout both attempts share.
3. Two Resets at the same time.
