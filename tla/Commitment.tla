----------------------------- MODULE Commitment -----------------------------
(***************************************************************************)
(* The commitment guard across the turns of one conversation               *)
(* (commitmentHandoff and what it calls in                                 *)
(* internal/application/processinquiry/usecase.go,                         *)
(* internal/application/commitment/detect.go): a guest who says yes to an  *)
(* offer to hold or book is handed to a human, unless a hold that          *)
(* succeeded backs the offer.                                              *)
(*                                                                         *)
(* What the guard looks at is spread over three places written at          *)
(* different times: the replies (stored with the draft), Guesty's thread   *)
(* (the note, and what the host writes there) and the conversation memory  *)
(* (closeTurn), which folds what is old.  Of Guesty's thread a turn gets   *)
(* one page.  A message is told by who wrote it and by the part of its     *)
(* text that comparableBody keeps; the phrase tables are reduced to what   *)
(* they say of a body.                                                     *)
(***************************************************************************)
EXTENDS Integers, Sequences, FiniteSets, SequencesExt

CONSTANTS Turns,        \* turns of the guest, bursts of posts
          MaxPosts,     \* bound: posts of the guest in the conversation
          PageSize,     \* defaultThreadPageSize
          Cap, Keep,    \* MEMORY_THREAD_CAP, MEMORY_THREAD_KEEP
          HostPosts,    \* messages the host may write
          Bodies,       \* texts of host and bot
          Offers,       \* those with one of offerPhrases
          GuestBodies   \* records of GuestBody

GuestBody ==
    [short : BOOLEAN,      \* not empty and within MaxAffirmativeLen
     defers : BOOLEAN,     \* deferPhrases
     affirms : BOOLEAN,    \* affirmativePhrases, or a leading yes
     finalizes : BOOLEAN]  \* finalizationPhrases

ASSUME CommitmentAssumption ==
    /\ Offers \subseteq Bodies
    /\ GuestBodies \subseteq GuestBody
    /\ Turns \cap HostPosts = {}
    /\ {MaxPosts, PageSize, Cap, Keep} \subseteq Nat

VARIABLES pc,       \* turn -> the next step
          posts,    \* turn -> posts the guest has written
          said,     \* turn -> body of the last of them (lastGuestBody)
          thread,   \* the conversation in Guesty, oldest first
          memory,   \* Thread of the memory record
          replies,  \* turn -> outcomes of hold_reservation in the stored reply
          held,     \* turns that placed a hold in Guesty
          fetched,  \* turn -> Conversation.Thread of its Input
          view,     \* turn -> PriorContext.Thread
          draft,    \* turn -> body of the reply
          handed    \* turns that commitmentHandoff escalated

vars == <<pc, posts, said, thread, memory, replies, held, fetched, view, draft, handed>>

Outcomes == {"ok", "error"}
HoldOutcomes == {{}, {"ok"}, {"error"}}   \* with one that is ok the others do not matter
Quiet == [short |-> FALSE, defers |-> FALSE, affirms |-> FALSE, finalizes |-> FALSE]

(* PostID and body: "bot" is the bot_ entry of the memory, "note" the same *)
(* reply as Guesty lists it.                                               *)
Message == [by : {"guest", "bot", "note", "host"}, of : Turns \cup HostPosts,
            n : Nat, body : Bodies \cup {""}]
GuestPost(t, n) == [by |-> "guest", of |-> t, n |-> n, body |-> ""]
BotEntry(t) == [by |-> "bot", of |-> t, n |-> 0, body |-> draft[t]]
Note(t) == [by |-> "note", of |-> t, n |-> 0, body |-> draft[t]]

(* A post of the turn itself, and the one its LastPostID names.            *)
Own(m, t) == m.by = "guest" /\ m.of = t
LastPost(t) == GuestPost(t, posts[t])

(* Role; roleFromGuestyType takes a note for a system message.             *)
FromHost(m) == m.by \in {"bot", "host"}

Init ==
    /\ pc = [t \in Turns |-> "unwritten"]
    /\ posts = [t \in Turns |-> 0]
    /\ said = [t \in Turns |-> Quiet]
    /\ thread = <<>>
    /\ memory = <<>>
    /\ replies = [t \in Turns |-> {}]
    /\ held = {}
    /\ fetched = [t \in Turns |-> <<>>]
    /\ view = [t \in Turns |-> <<>>]
    /\ draft = [t \in Turns |-> ""]
    /\ handed = {}

-----------------------------------------------------------------------------
(* commitment.Detect and WantsFinalization.                                *)
Detect(host, guest) ==
    guest.short /\ host \in Offers /\ ~guest.defers /\ guest.affirms

WantsFinalization(guest) == guest.short /\ ~guest.defers /\ guest.finalizes

\* Mutant: the prefix bot_ stays on, so no reply is found.
holdLookupIDsUntrimmed(m) == {}

(* Replies are stored under posts of the guest: only a bot entry leads to  *)
(* one, with its prefix trimmed.                                           *)
holdLookupIDs(m) == IF m.by = "bot" THEN {m.of} ELSE {}

\* Mutant: a call that ended in an error counts.
hasSuccessfulHoldAny(m) == \E t \in holdLookupIDs(m) : replies[t] # {}

hasSuccessfulHold(m) == \E t \in holdLookupIDs(m) : "ok" \in replies[t]

(* A message of the host in the words of a bot entry.                      *)
hasSuccessfulHoldByBodyAlias(messages, m) ==
    /\ m.by # "bot"
    /\ \E i \in 1..Len(messages) :
          /\ messages[i].by = "bot"
          /\ messages[i].body = m.body
          /\ hasSuccessfulHold(messages[i])

holdSucceeded(messages, m) ==
    hasSuccessfulHold(m) \/ hasSuccessfulHoldByBodyAlias(messages, m)

Matches(messages, guest) ==
    {i \in 1..Len(messages) : FromHost(messages[i]) /\ Detect(messages[i].body, guest)}

(* From the last message back: the first match that is held or the bot's   *)
(* own decides; a match of the host without a hold is only a fallback.     *)
latestCommitmentCandidate(messages, guest) ==
    LET matches == Matches(messages, guest)
        decisive == {i \in matches : messages[i].by = "bot"
                                     \/ holdSucceeded(messages, messages[i])}
    IN  IF decisive = {}
          THEN matches # {}
          ELSE holdSucceeded(messages, messages[Max(decisive)]) => WantsFinalization(guest)

(* The entries of s at the indices of I, in their order: SelectSeq without *)
(* its recursion.  The n-th of them has n indices of I up to its own.      *)
Rank(I, i) == Cardinality({j \in I : j <= i})
EntriesAt(s, I) == [n \in 1..Cardinality(I) |-> s[CHOOSE i \in I : Rank(I, i) = n]]

(* Where messages other than the turn's own are.                           *)
Prior(messages, t) == {i \in 1..Len(messages) : ~Own(messages[i], t)}

\* Mutant: what the host wrote in Guesty is left out.
mergeThreadMemoryOnly(mem, web, t) == EntriesAt(mem, Prior(mem, t))

\* Mutant: a message both sides know comes twice.
mergeThreadTwice(mem, web, t) == EntriesAt(mem, Prior(mem, t)) \o EntriesAt(web, Prior(web, t))

(* The memory first, then what only Guesty knows; without the turn itself. *)
mergeThread(mem, web, t) ==
    EntriesAt(mem, Prior(mem, t))
    \o EntriesAt(web, {i \in Prior(web, t) : ~Contains(mem, web[i])})

-----------------------------------------------------------------------------
(* A post of the guest; the turn collects posts until it is flushed.       *)
GuestWrites(t, body) ==
    /\ pc[t] \in {"unwritten", "flush"}
    /\ Cardinality({i \in 1..Len(thread) : thread[i].by = "guest"}) < MaxPosts
    /\ posts' = [posts EXCEPT ![t] = @ + 1]
    /\ said' = [said EXCEPT ![t] = body]
    /\ thread' = Append(thread, GuestPost(t, posts[t] + 1))
    /\ pc' = [pc EXCEPT ![t] = "flush"]
    /\ UNCHANGED <<memory, replies, held, fetched, view, draft, handed>>

HostWrites(h, body) ==
    /\ \A i \in 1..Len(thread) : thread[i].of # h
    /\ thread' = Append(thread, [by |-> "host", of |-> h, n |-> 0, body |-> body])
    /\ UNCHANGED <<pc, posts, said, memory, replies, held, fetched, view, draft, handed>>

(* The one page of posts Guesty answers with: the client asks for no       *)
(* order, and the contract (repository/guesty.go) says the oldest page, so *)
(* either end of a longer thread is possible.                              *)
Pages ==
    LET size == IF Len(thread) < PageSize THEN Len(thread) ELSE PageSize
    IN  {SubSeq(thread, skip + 1, skip + size) : skip \in {0, Len(thread) - size}}

(* The page shows a message of the host younger than the turn.             *)
hostAlreadyReplied(page, t) ==
    \E i, j \in 1..Len(thread) :
        i < j /\ thread[i] = LastPost(t) /\ FromHost(thread[j]) /\ Contains(page, thread[j])

(* makeFlushFn: GetConversation, and the end of the turn when the host     *)
(* answered it.                                                            *)
Fetch(t, page) ==
    /\ pc[t] = "flush"
    /\ IF hostAlreadyReplied(page, t)
         THEN pc' = [pc EXCEPT ![t] = "done"] /\ UNCHANGED fetched
         ELSE /\ pc' = [pc EXCEPT ![t] = "context"]
              /\ fetched' = [fetched EXCEPT ![t] = page]
    /\ UNCHANGED <<posts, said, thread, memory, replies, held, view, draft, handed>>

PriorContext(t) ==
    /\ pc[t] = "context"
    /\ view' = [view EXCEPT ![t] = mergeThread(memory, fetched[t], t)]
    /\ pc' = [pc EXCEPT ![t] = "handoff"]
    /\ UNCHANGED <<posts, said, thread, memory, replies, held, fetched, draft, handed>>

CommitmentHandoff(t) ==
    /\ pc[t] = "handoff"
    /\ IF latestCommitmentCandidate(view[t], said[t])
         THEN /\ handed' = handed \cup {t}
              /\ pc' = [pc EXCEPT ![t] = "closeUnsent"]
         ELSE /\ pc' = [pc EXCEPT ![t] = "answer"]
              /\ UNCHANGED handed
    /\ UNCHANGED <<posts, said, thread, memory, replies, held, fetched, view, draft>>

(* Classifier, gates and generator as far as the guard is concerned: some  *)
(* draft with some outcomes of hold_reservation, whose reply is stored or  *)
(* not.  A hold that failed may be there all the same.                     *)
Draft(t, body, outcomes) ==
    /\ pc[t] = "answer"
    /\ draft' = [draft EXCEPT ![t] = body]
    /\ replies' \in {replies, [replies EXCEPT ![t] = outcomes]}
    /\ \/ "ok" \in outcomes /\ held' = held \cup {t}
       \/ "ok" \notin outcomes /\ UNCHANGED held
       \/ outcomes = {"error"} /\ held' = held \cup {t}
    /\ pc' = [pc EXCEPT ![t] = "send"]
    /\ UNCHANGED <<posts, said, thread, memory, fetched, view, handed>>

(* The turn ends in an escalation of another kind.                         *)
Escalate(t) ==
    /\ pc[t] \in {"answer", "send"}
    /\ pc' = [pc EXCEPT ![t] = "closeUnsent"]
    /\ UNCHANGED <<posts, said, thread, memory, replies, held, fetched, view, draft, handed>>

PostNote(t) ==
    /\ pc[t] = "send"
    /\ thread' = Append(thread, Note(t))
    /\ pc' = [pc EXCEPT ![t] = "closeSent"]
    /\ UNCHANGED <<posts, said, memory, replies, held, fetched, view, draft, handed>>

(* What foldOverflow leaves of a thread.                                   *)
foldOverflow(s) ==
    IF Cap > 0 /\ Keep > 0 /\ Len(s) > Cap /\ Len(s) > Keep
      THEN SubSeq(s, Len(s) - Keep + 1, Len(s))
      ELSE s

(* What applyMemoryUpdate appends: the guest's posts and, when it was      *)
(* sent, the reply.                                                        *)
TurnEntries(t) ==
    [n \in 1..posts[t] |-> GuestPost(t, n)]
    \o (IF pc[t] = "closeSent" THEN <<BotEntry(t)>> ELSE <<>>)

(* closeTurn, with a Memory.Update that may fail.                          *)
CloseTurn(t) ==
    /\ pc[t] \in {"closeSent", "closeUnsent"}
    /\ memory' \in {memory, foldOverflow(memory \o TurnEntries(t))}
    /\ pc' = [pc EXCEPT ![t] = "done"]
    /\ UNCHANGED <<posts, said, thread, replies, held, fetched, view, draft, handed>>

Next ==
    \/ \E t \in Turns, body \in GuestBodies : GuestWrites(t, body)
    \/ \E h \in HostPosts, body \in Bodies : HostWrites(h, body)
    \/ \E t \in Turns, body \in Bodies, outcomes \in HoldOutcomes : Draft(t, body, outcomes)
    \/ \E t \in Turns :
          \/ \E page \in Pages : Fetch(t, page)
          \/ PriorContext(t)
          \/ CommitmentHandoff(t)
          \/ Escalate(t)
          \/ PostNote(t)
          \/ CloseTurn(t)

Spec == Init /\ [][Next]_vars

-----------------------------------------------------------------------------
(* Turns that the guard let through.                                       *)
Passed == {t \in Turns : pc[t] \in {"answer", "send", "closeSent"}
                         \/ draft[t] # ""}

(* Every variable holds a value of its type.  A turn is handed off without *)
(* a draft.                                                                *)
TypeOK ==
    /\ pc \in [Turns -> {"unwritten", "flush", "context", "handoff", "answer", "send",
                         "closeSent", "closeUnsent", "done"}]
    /\ posts \in [Turns -> Nat]
    /\ said \in [Turns -> GuestBody]
    /\ thread \in Seq(Message) /\ memory \in Seq(Message)
    /\ fetched \in [Turns -> Seq(Message)] /\ view \in [Turns -> Seq(Message)]
    /\ replies \in [Turns -> SUBSET Outcomes]
    /\ held \in SUBSET Turns
    /\ draft \in [Turns -> Bodies \cup {""}]
    /\ handed \in SUBSET Turns
    /\ handed \cap Passed = {}

(* The guard: a guest who accepts an offer that the turn can see gets past *)
(* it only when some turn of the conversation did place a hold in Guesty,  *)
(* whatever was stored, lost or written in between; and never when the     *)
(* guest asks to finalize, hold or no hold (finalizationPhrases).          *)
PassedMeansHeld ==
    \A t \in Passed : Matches(view[t], said[t]) # {} =>
        held # {} /\ ~WantsFinalization(said[t])

(* The other side of the guard: the bot keeps answering a guest who says   *)
(* yes to offers that are all backed, an offer of the bot by the hold      *)
(* stored with that very reply, one the host wrote by a hold stored with a *)
(* reply of the bot in the same words; forwarding the reply to the guest   *)
(* does not undo it.  (An offer the bot repeats word for word without a    *)
(* hold of its own is handed off: hasSuccessfulHoldByBodyAlias skips it.)  *)
BackedOfferFlows ==
    \A t \in handed :
        WantsFinalization(said[t])
        \/ \E i \in Matches(view[t], said[t]) :
              ~ \E j \in 1..Len(view[t]) :
                    /\ view[t][j].by = "bot"
                    /\ j = i \/ (view[t][i].by = "host" /\ view[t][j].body = view[t][i].body)
                    /\ "ok" \in replies[view[t][j].of]

(* What a turn sees has all of the page of Guesty's thread it fetched,     *)
(* each message once, and nothing of the turn itself.  (README.md:190-191  *)
(* says that the fetched thread is only a fallback for an empty memory;    *)
(* the code merges both.)                                                  *)
ViewComplete ==
    \A t \in Turns : pc[t] \notin {"unwritten", "flush", "context", "done"} =>
        /\ \A m \in ToSet(fetched[t]) : Own(m, t) \/ m \in ToSet(view[t])
        /\ \A m \in ToSet(view[t]) : ~Own(m, t)
        /\ \A i, j \in 1..Len(view[t]) : view[t][i] = view[t][j] => i = j

(* The view of a turn (mergeThread): well-formed, with the whole page,     *)
(* without repetition; and a turn that was handed off goes no further.     *)
ViewInv == TypeOK /\ ViewComplete

(* An offer of the host that reached the turn is never overlooked: whoever *)
(* says yes after it, in the last post of the turn, is handed off while    *)
(* the conversation has no hold, whatever other turns are doing to the     *)
(* memory at the time and whatever it folds.  It reached the turn when it  *)
(* is on the page that was fetched, so always in a conversation that fits  *)
(* on one page.                                                            *)
HostOfferSeen ==
    held = {} => \A t \in Passed :
        \A i, j \in 1..Len(thread) :
            /\ i < j /\ thread[i].by = "host" /\ thread[j] = LastPost(t)
            /\ Len(thread) <= PageSize \/ Contains(fetched[t], thread[i])
            => ~Detect(thread[i].body, said[t])
=============================================================================
