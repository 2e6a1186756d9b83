------------------------- MODULE ConversationMemory -------------------------
(***************************************************************************)
(* The conversation memory: the file-backed store                          *)
(* (internal/infrastructure/store/filestore/conversation_memory.go, of     *)
(* which the memstore one is the part without a file), the record          *)
(* (internal/domain/memory.go) and what closeTurn does to it               *)
(* (applyMemoryUpdate and foldOverflow of processinquiry, Summarize).      *)
(*                                                                         *)
(* Update holds the store's one lock while the mutation runs, and the      *)
(* mutation may call the summarizer, a language model; then it appends a   *)
(* snapshot of the record to the log.  A restart reads the log back, the   *)
(* newest readable line of a conversation wins.  A write that stops half   *)
(* way leaves a torn line to which the next one is glued.  The Mongo store *)
(* has the same lock, loads the record, applies the mutation and upserts   *)
(* the result; the lock is one process's, and so is this model.            *)
(*                                                                         *)
(* A turn is a burst of guest messages and the bot's answer, if one was    *)
(* sent.  Of the summary the model keeps whether there is one.             *)
(***************************************************************************)
EXTENDS Integers, Sequences, FiniteSets, SequencesExt

CONSTANTS Turns, Convs, ConvOf,
          Size,           \* turn -> guest messages in its burst
          Backends,       \* stores a behaviour may be configured with
          Cap, Keep,      \* MEMORY_THREAD_CAP, MEMORY_THREAD_KEEP
          HasSummarizer,
          GuestKnown,     \* turns whose conversation names its guest
          NoTurn          \* the lock is free

ASSUME MemoryAssumption ==
    /\ ConvOf \in [Turns -> Convs]
    /\ Size \in [Turns -> Nat \ {0}]
    /\ Backends \subseteq {"file", "mongo"}
    /\ Cap \in Nat /\ Keep \in Nat
    /\ HasSummarizer \in BOOLEAN
    /\ GuestKnown \subseteq Turns
    /\ NoTurn \notin Turns

VARIABLES backend,  \* the store
          records,  \* conversation -> its record, as Get returns it
          byGuest,  \* conversations in the index of their guest
          disk,     \* conversation -> newest readable snapshot, or document
          torn,     \* the log ends in a torn line
          open,     \* the writer is an open file
          pc,       \* turn -> where its Update is
          lock,     \* the turn that holds the store's mutex
          draft,    \* the record the mutation works on
          appended, \* messages of the turn the mutation has been through
          acked     \* turns whose Update returned nil, with a line of their own

vars == <<backend, records, byGuest, disk, torn, open, pc, lock, draft, appended, acked>>

Messages == [turn : Turns, n : Nat, role : {"guest", "host"}]
Guest(t, n) == [turn |-> t, n |-> n, role |-> "guest"]
Bot(t) == [turn |-> t, n |-> 0, role |-> "host"]

(* guest: GuestID is known; seen: turns that were merged into the record,  *)
(* for its entities and as history.                                        *)
Zero == [thread |-> <<>>, summary |-> FALSE, guest |-> FALSE, seen |-> {}]

Init ==
    /\ backend \in Backends
    /\ records = [k \in Convs |-> Zero]
    /\ byGuest = {}
    /\ disk = [k \in Convs |-> Zero]
    /\ torn = FALSE
    /\ open = TRUE
    /\ pc = [t \in Turns |-> "idle"]
    /\ lock = NoTurn
    /\ draft = Zero
    /\ appended = 0
    /\ acked = {}

-----------------------------------------------------------------------------
(* A message already in the thread is not appended again.                  *)
AppendMessage(thread, m) == IF Contains(thread, m) THEN thread ELSE Append(thread, m)

\* Mutant: the thread may grow one past its cap.
overflowsLate(r) == Cap > 0 /\ Keep > 0 /\ Len(r.thread) > Cap + 1 /\ Len(r.thread) > Keep

(* The conditions under which foldOverflow does anything.                  *)
overflows(r) == Cap > 0 /\ Keep > 0 /\ Len(r.thread) > Cap /\ Len(r.thread) > Keep

split(r) == Len(r.thread) - Keep

\* Mutant: the entries kept are the oldest ones.
truncatedOldest(r) == [r EXCEPT !.thread = SubSeq(@, 1, Keep)]

(* Only the newest Keep entries stay.                                      *)
truncated(r) == [r EXCEPT !.thread = SubSeq(@, split(r) + 1, Len(@))]

(* Update is called and waits for the lock.  A turn may be closed a second *)
(* time: replay runs it again.                                             *)
UpdateCall(t) ==
    /\ pc[t] = "idle"
    /\ pc' = [pc EXCEPT ![t] = "waiting"]
    /\ UNCHANGED <<backend, records, byGuest, disk, torn, open, lock, draft, appended, acked>>

\* Mutant: Update waits until the log is open again.
UpdateBeginWhenOpen(t) ==
    /\ pc[t] = "waiting"
    /\ lock = NoTurn /\ open
    /\ lock' = t
    /\ draft' = [records[ConvOf[t]] EXCEPT !.guest = @ \/ t \in GuestKnown, !.seen = @ \cup {t}]
    /\ appended' = 0
    /\ pc' = [pc EXCEPT ![t] = "merge"]
    /\ UNCHANGED <<backend, records, byGuest, disk, torn, open, acked>>

(* Update takes the lock, reads the record and starts the mutation.        *)
UpdateBegin(t) ==
    /\ pc[t] = "waiting"
    /\ lock = NoTurn
    /\ lock' = t
    /\ draft' = [records[ConvOf[t]] EXCEPT !.guest = @ \/ t \in GuestKnown, !.seen = @ \cup {t}]
    /\ appended' = 0
    /\ pc' = [pc EXCEPT ![t] = "merge"]
    /\ UNCHANGED <<backend, records, byGuest, disk, torn, open, acked>>

(* The mutation's loop over the messages of the turn.                      *)
MergeMessage(t) ==
    /\ pc[t] = "merge"
    /\ appended < Size[t]
    /\ appended' = appended + 1
    /\ draft' = [draft EXCEPT !.thread = AppendMessage(@, Guest(t, appended'))]
    /\ UNCHANGED <<backend, records, byGuest, disk, torn, open, pc, lock, acked>>

(* The rest of the mutation: the bot's reply, if it was sent, and the fold *)
(* of an overflowing thread, for which a summarizer is called.             *)
MergeReply(t, sent) ==
    LET r == [draft EXCEPT !.thread = IF sent THEN AppendMessage(@, Bot(t)) ELSE @]
    IN  /\ pc[t] = "merge"
        /\ appended = Size[t]
        /\ \/ /\ overflows(r) /\ HasSummarizer
              /\ draft' = r
              /\ pc' = [pc EXCEPT ![t] = "summarize"]
           \/ /\ ~(overflows(r) /\ HasSummarizer)
              /\ draft' = IF overflows(r) THEN truncated(r) ELSE r
              /\ pc' = [pc EXCEPT ![t] = "persist"]
        /\ UNCHANGED <<backend, records, byGuest, disk, torn, open, lock, appended, acked>>

(* Update of the Mongo store: the record cannot be loaded.                 *)
UpdateLoadFails(t) ==
    /\ backend = "mongo"
    /\ pc[t] = "waiting"
    /\ lock = NoTurn
    /\ pc' = [pc EXCEPT ![t] = "idle"]
    /\ UNCHANGED <<backend, records, byGuest, disk, torn, open, lock, draft, appended, acked>>

(* Summarize answers: a text that covers the old summary and the older     *)
(* entries; an empty text, taken for the new summary; or an error, after   *)
(* which the thread is truncated and the old summary stays.                *)
Summarize(t) ==
    /\ pc[t] = "summarize"
    /\ \E summary \in BOOLEAN \cup {draft.summary} :
          draft' = [truncated(draft) EXCEPT !.summary = summary]
    /\ pc' = [pc EXCEPT ![t] = "persist"]
    /\ UNCHANGED <<backend, records, byGuest, disk, torn, open, lock, appended, acked>>

(* A whole line reaches the log; glued to a torn one it cannot be read.    *)
WriteLine(t, r) ==
    /\ open
    /\ disk' = IF torn THEN disk ELSE [disk EXCEPT ![ConvOf[t]] = r]
    /\ torn' = FALSE

(* The mutation's result: the record and the guest index.                  *)
Store(t) ==
    LET k == ConvOf[t]
    IN  /\ records' = [records EXCEPT ![k] = draft]
        /\ byGuest' = IF draft.guest THEN byGuest \cup {k} ELSE byGuest

(* Update returns; the lock is given back in any case.                     *)
Returns(t) ==
    /\ pc[t] = "persist"
    /\ pc' = [pc EXCEPT ![t] = "idle"]
    /\ lock' = NoTurn
    /\ draft' = Zero
    /\ appended' = 0
    /\ UNCHANGED <<backend, open>>

Ack(t) == acked' = IF torn THEN acked ELSE acked \cup {t}

(* A write that failed with nothing, all or part of the line written.      *)
WriteFails(t) ==
    \/ UNCHANGED <<disk, torn>>
    \/ WriteLine(t, draft)
    \/ open /\ torn' = TRUE /\ UNCHANGED disk

\* Mutant: Update acknowledges without looking at the error of the append.
UpdateEndUnchecked(t) ==
    /\ backend = "file"
    /\ Returns(t)
    /\ Store(t)
    /\ Ack(t)
    /\ WriteLine(t, draft) \/ UNCHANGED <<disk, torn>>

(* The rest of Update: the record and the guest index in memory, and the   *)
(* log line.                                                               *)
UpdateEnd(t) ==
    /\ backend = "file"
    /\ Returns(t)
    /\ Store(t)
    /\ \/ WriteLine(t, draft) /\ Ack(t)
       \/ WriteFails(t) /\ UNCHANGED acked

(* The same on Mongo: one upsert, whose answer may be lost.                *)
UpdateEndMongo(t) ==
    /\ backend = "mongo"
    /\ Returns(t)
    /\ \/ Store(t) /\ disk' = records' /\ acked' \in {acked, acked \cup {t}}
       \/ UNCHANGED <<records, byGuest, disk, acked>>
    /\ UNCHANGED torn

(* The process dies, at any step of an Update, and hydrateMemoryLog reads  *)
(* the log.                                                                *)
Restart ==
    /\ records' = disk
    /\ byGuest' = {k \in Convs : disk[k].guest}
    /\ pc' = [t \in Turns |-> "idle"]
    /\ lock' = NoTurn
    /\ open' = TRUE
    /\ draft' = Zero
    /\ appended' = 0
    /\ UNCHANGED <<backend, disk, torn, acked>>

(* The demo's reset: the log and both maps, under the lock; Mongo has none. *)
Reset ==
    /\ backend = "file"
    /\ lock = NoTurn
    /\ records' = [k \in Convs |-> Zero]
    /\ disk' = [k \in Convs |-> Zero]
    /\ torn' = FALSE
    /\ open' = TRUE
    /\ byGuest' = {}
    /\ acked' = {}
    /\ UNCHANGED <<backend, pc, lock, draft, appended>>

(* Reset fails, to truncate or, having done so, to reopen the log: the     *)
(* maps stay and the writer is the one that was just closed.               *)
ResetFails ==
    /\ backend = "file"
    /\ lock = NoTurn
    /\ \/ UNCHANGED <<disk, torn, acked>>
       \/ /\ disk' = [k \in Convs |-> Zero]
          /\ torn' = FALSE
          /\ acked' = {}
    /\ open' = FALSE
    /\ UNCHANGED <<backend, records, byGuest, pc, lock, draft, appended>>

Next ==
    \/ \E t \in Turns :
          UpdateCall(t) \/ UpdateBegin(t) \/ UpdateLoadFails(t) \/ MergeMessage(t)
          \/ Summarize(t) \/ UpdateEnd(t) \/ UpdateEndMongo(t)
    \/ \E t \in Turns, sent \in BOOLEAN : MergeReply(t, sent)
    \/ Restart
    \/ Reset
    \/ ResetFails

Spec == Init /\ [][Next]_vars

(* On the file store whoever holds the lock gives it back, since the       *)
(* summarizer's call has a timeout and the rest is local, and a sync.Mutex *)
(* starves nobody who waits for it again and again.  On Mongo nothing is   *)
(* owed: its calls have no deadline (mongostore/client.go:58, and the      *)
(* context of a flush is context.Background()).                            *)
FairSpec ==
    /\ Spec
    /\ \A t \in Turns :
          /\ SF_vars(backend = "file" /\ UpdateBegin(t))
          /\ WF_vars(\/ MergeMessage(t) \/ (\E sent \in BOOLEAN : MergeReply(t, sent))
                     \/ Summarize(t) \/ UpdateEnd(t))

-----------------------------------------------------------------------------
(* Every variable holds a value of its type, and a turn is inside Update   *)
(* exactly while it holds the lock.                                        *)
Record(r) ==
    /\ r.thread \in Seq(Messages)
    /\ r.summary \in BOOLEAN
    /\ r.guest \in BOOLEAN
    /\ r.seen \in SUBSET Turns

TypeOK ==
    /\ backend \in Backends
    /\ \A k \in Convs : Record(records[k]) /\ Record(disk[k])
    /\ Record(draft)
    /\ byGuest \in SUBSET Convs
    /\ torn \in BOOLEAN
    /\ open \in BOOLEAN
    /\ pc \in [Turns -> {"idle", "waiting", "merge", "summarize", "persist"}]
    /\ lock \in Turns \cup {NoTurn}
    /\ \A t \in Turns : pc[t] \in {"merge", "summarize", "persist"} <=> lock = t
    /\ appended \in Nat
    /\ acked \in SUBSET Turns

(* The thread never holds more than the cap, in memory, on disk and after  *)
(* a restart, and no message twice; this needs Keep in 1..Cap.             *)
ThreadBounded ==
    \A r \in {records[k] : k \in Convs} \cup {disk[k] : k \in Convs} :
        /\ Len(r.thread) <= Cap
        /\ IsInjective(r.thread)

(* Folding keeps the newest entries: of the burst just closed, unless it   *)
(* is an old turn run again, the last Keep - 1 messages are verbatim in    *)
(* the thread, however full it was, and all of them where nothing folds.   *)
(* The entry that is missing is the bot's reply; the messages before those *)
(* may be folded away in the very turn that brought them.                  *)
LastTurnVerbatim ==
    [][\A t \in Turns : \A n \in 1..Size[t] :
          t \notin records[ConvOf[t]].seen /\ t \in records'[ConvOf[t]].seen
          /\ (Cap = 0 \/ Keep = 0 \/ Size[t] - n + 2 <= Keep) =>
             Contains(records'[ConvOf[t]].thread, Guest(t, n))]_vars

(* The guest index lists exactly the conversations whose guest is known,   *)
(* also right after a restart rebuilt it from the log.                     *)
IndexMatches == byGuest = {k \in Convs : records[k].guest}

(* The record of a conversation: written under the lock only, its thread   *)
(* bounded and its guest indexed, also after a restart.                    *)
ThreadInv == TypeOK /\ ThreadBounded /\ IndexMatches

(* An Update that returned nil is on disk for good: every later snapshot,  *)
(* whoever wrote it, contains it, so no restart forgets it.  The one       *)
(* exception is a line that was appended to what a torn write left behind, *)
(* which appendSnapshot does not end first.                                *)
AckedSurvives == \A t \in acked : t \in disk[ConvOf[t]].seen

(* Every Update of the file store returns: the store's one lock is held    *)
(* through a call of a language model, though the comment of Update says   *)
(* that the mutation must not block, and still every turn of every         *)
(* conversation gets through, past failed writes, resets and summaries of  *)
(* the others.                                                             *)
UpdateReturns ==
    \A t \in Turns : backend = "file" /\ pc[t] = "waiting" ~> pc[t] = "idle"
=============================================================================
