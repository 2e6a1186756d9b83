--------------------------- MODULE RecordsProofs ----------------------------
(***************************************************************************)
(* Proofs about the two records kept on a file or in Mongo: what the bot   *)
(* remembers of a conversation, and which reservations it converted.       *)
(*                                                                         *)
(* The memory, for any turns, conversations, cap and tail length, with and *)
(* without a summarizer.  RecordsSound and RecordsBounded say what a       *)
(* stored thread is, DraftMeans what the turn that holds the mutex has in  *)
(* hand while the summarizer and the disk are called, and AckedKnown that  *)
(* what was acknowledged is in memory as well as on disk, so that no later *)
(* snapshot loses it.  ThreadInv needs a tail that fits under the cap; the *)
(* defaults of the configuration are 20 and 50.  LastTurnVerbatim follows  *)
(* the messages of a burst from the end of the thread: once merged, the    *)
(* n-th of them is among the last Size - n + 1, the bot's reply adds one,  *)
(* and the fold keeps the last Keep.                                       *)
(*                                                                         *)
(* The second half is about conversion tracking, module Conversions.       *)
(***************************************************************************)
EXTENDS ConversationMemory, Conversions, FiniteSetTheorems, SequenceTheorems, TLAPS

Rec == [thread : Seq(Messages), summary : BOOLEAN, guest : BOOLEAN, seen : SUBSET Turns]

(* No message twice, and each of a turn that was merged into the record.   *)
Sound(r) ==
    /\ IsInjective(r.thread)
    /\ \A i \in 1..Len(r.thread) : r.thread[i].turn \in r.seen

(* The message is one of the last d.                                       *)
Recent(thread, m, d) == \E i \in 1..Len(thread) : thread[i] = m /\ Len(thread) < i + d

-----------------------------------------------------------------------------
(* AppendMessage adds the message unless it is there.                      *)
LEMMA AppendMessageMeans ==
    ASSUME NEW s \in Seq(Messages), IsInjective(s), NEW m \in Messages
    PROVE  LET a == AppendMessage(s, m)
           IN  /\ a \in Seq(Messages) /\ IsInjective(a)
               /\ \A i \in 1..Len(a) : a[i] = m \/ \E j \in 1..Len(s) : a[i] = s[j]
               /\ (\A i \in 1..Len(s) : s[i] # m) => a = Append(s, m)
<1> DEFINE a == AppendMessage(s, m)
<1>1. Len(s) \in Nat /\ DOMAIN s = 1..Len(s)
  OBVIOUS
<1>2. CASE Contains(s, m)
  <2>1. a = s
    BY <1>2 DEF AppendMessage
  <2> QED
    BY <1>2, <2>1 DEF Contains
<1>3. CASE ~Contains(s, m)
  <2>1. a = Append(s, m)
    BY <1>3 DEF AppendMessage
  <2> HIDE DEF a
  <2>2. /\ a \in Seq(Messages) /\ Len(a) = Len(s) + 1 /\ DOMAIN a = 1..Len(s) + 1
        /\ \A i \in 1..Len(s) : a[i] = s[i]
        /\ a[Len(s) + 1] = m
    BY <2>1
  <2>3. \A k \in Nat : \A i \in 1..k + 1 : i \in 1..k \/ i = k + 1
    OBVIOUS
  <2>4. \A i \in 1..Len(a) : i \in 1..Len(s) \/ i = Len(s) + 1
    BY <1>1, <2>2, <2>3
  <2>5. \A i \in 1..Len(s) : s[i] # m
    BY <1>3 DEF Contains
  <2>6. IsInjective(a)
    <3> SUFFICES ASSUME NEW i \in 1..Len(a), NEW j \in 1..Len(a), a[i] = a[j] PROVE i = j
      BY <2>2 DEF IsInjective
    <3>1. CASE i \in 1..Len(s) /\ j \in 1..Len(s)
      BY <1>1, <2>2, <3>1 DEF IsInjective
    <3>2. CASE i = Len(s) + 1 /\ j = Len(s) + 1
      BY <3>2
    <3> QED
      BY <2>2, <2>4, <2>5, <3>1, <3>2
  <2> QED
    BY <2>1, <2>2, <2>4, <2>6 DEF a
<1> QED
  BY <1>2, <1>3

(* A message that is new comes last, and moves the others one away from    *)
(* the end of the thread.                                                  *)
LEMMA AppendMoves ==
    ASSUME NEW s \in Seq(Messages), IsInjective(s), NEW m \in Messages
    PROVE  LET a == AppendMessage(s, m)
           IN  /\ (\A i \in 1..Len(s) : s[i] # m) => Recent(a, m, 1)
               /\ \A x, d : d \in Nat /\ Recent(s, x, d) => Recent(a, x, d + 1)
<1>1. PICK a : a = AppendMessage(s, m)
  OBVIOUS
<1>2. Len(s) \in Nat
  OBVIOUS
<1>3. ASSUME a = Append(s, m), NEW i \in 1..Len(s)
      PROVE  i \in 1..Len(a) /\ a[i] = s[i] /\ Len(a) = Len(s) + 1
  BY <1>2, <1>3
<1>4. ASSUME \A i \in 1..Len(s) : s[i] # m
      PROVE  Recent(a, m, 1)
  <2>1. a = Append(s, m)
    BY <1>1, <1>4, AppendMessageMeans
  <2>2. Len(s) + 1 \in 1..Len(a) /\ a[Len(s) + 1] = m /\ Len(a) < (Len(s) + 1) + 1
    BY <1>2, <2>1
  <2> QED
    BY <2>2 DEF Recent
<1>5. ASSUME NEW x, NEW d \in Nat, Recent(s, x, d)
      PROVE  Recent(a, x, d + 1)
  <2>1. PICK i \in 1..Len(s) : s[i] = x /\ Len(s) < i + d
    BY <1>5 DEF Recent
  <2>2. CASE a = s
    <3>1. Len(s) < i + (d + 1)
      BY <1>2, <2>1
    <3> QED
      BY <2>1, <2>2, <3>1 DEF Recent
  <2>3. CASE a = Append(s, m)
    <3>1. i \in 1..Len(a) /\ a[i] = x /\ Len(a) = Len(s) + 1
      BY <1>3, <2>1, <2>3
    <3>2. Len(a) < i + (d + 1)
      BY <1>2, <2>1, <3>1
    <3> QED
      BY <3>1, <3>2 DEF Recent
  <2> QED
    BY <1>1, <2>2, <2>3 DEF AppendMessage
<1> QED
  BY <1>1, <1>4, <1>5

(* A message of turn t appended to a record that turn is merged into.      *)
LEMMA RecordAppend ==
    ASSUME NEW r \in Rec, Sound(r), NEW m \in Messages, m.turn \in r.seen
    PROVE  LET q == [r EXCEPT !.thread = AppendMessage(@, m)]
           IN  /\ q \in Rec /\ Sound(q) /\ q.seen = r.seen /\ q.guest = r.guest
               /\ q.thread = AppendMessage(r.thread, m)
<1>1. PICK s, a : s = r.thread /\ a = AppendMessage(s, m)
  OBVIOUS
<1>2. s \in Seq(Messages) /\ IsInjective(s) /\ \A i \in 1..Len(s) : s[i].turn \in r.seen
  BY <1>1 DEF Rec, Sound
<1>3. /\ a \in Seq(Messages) /\ IsInjective(a)
      /\ \A i \in 1..Len(a) : a[i] = m \/ \E j \in 1..Len(s) : a[i] = s[j]
  BY <1>1, <1>2, AppendMessageMeans
<1>4. PICK q : q = [r EXCEPT !.thread = a]
  OBVIOUS
<1>5. q \in Rec /\ q.thread = a /\ q.seen = r.seen /\ q.guest = r.guest
  BY <1>3, <1>4 DEF Rec
<1>6. Sound(q)
  BY <1>2, <1>3, <1>5 DEF Sound
<1>7. q = [r EXCEPT !.thread = AppendMessage(@, m)]
  BY <1>1, <1>4
<1> QED
  BY <1>1, <1>5, <1>6, <1>7

(* foldOverflow cuts the thread down to the newest Keep messages.          *)
LEMMA TruncatedMeans ==
    ASSUME NEW r \in Rec, Sound(r), overflows(r)
    PROVE  /\ truncated(r) \in Rec /\ Sound(truncated(r))
           /\ Len(truncated(r).thread) = Keep
           /\ truncated(r).seen = r.seen /\ truncated(r).guest = r.guest
           /\ truncated(r).summary = r.summary
           /\ \A m, d : d \in 0..Keep /\ Recent(r.thread, m, d) =>
                           Recent(truncated(r).thread, m, d)
<1>1. PICK s, d : s = r.thread /\ d = split(r)
  OBVIOUS
<1>2. s \in Seq(Messages) /\ IsInjective(s) /\ \A i \in 1..Len(s) : s[i].turn \in r.seen
  BY <1>1 DEF Rec, Sound
<1>3. Len(s) \in Nat /\ Keep \in Nat /\ Keep > 0 /\ Len(s) > Keep /\ d = Len(s) - Keep
  BY <1>1, <1>2, MemoryAssumption DEF overflows, split
<1>4. PICK c : c = SubSeq(s, d + 1, Len(s))
  OBVIOUS
<1>5. /\ c \in Seq(Messages) /\ Len(c) = Keep
      /\ \A i \in 1..Keep : i + d \in 1..Len(s) /\ c[i] = s[i + d]
  <2>1. d + 1 \in Int /\ Len(s) \in Int /\ d + 1 <= Len(s) /\ Len(s) - (d + 1) + 1 = Keep
    BY <1>3
  <2>2. \A i \in (d + 1)..Len(s) : i \in 1..Len(s)
    BY <1>3
  <2>3. \A i \in (d + 1)..Len(s) : s[i] \in Messages
    BY <1>2, <2>2
  <2>4. /\ c \in Seq(Messages) /\ Len(c) = Keep
        /\ \A i \in 1..Keep : c[i] = s[(d + 1) + i - 1]
    BY <1>4, <2>1, <2>3, SubSeqProperties
  <2>5. \A i \in 1..Keep : i + d \in 1..Len(s) /\ (d + 1) + i - 1 = i + d
    BY <1>3
  <2> QED
    BY <2>4, <2>5
<1>6. PICK q : q = truncated(r)
  OBVIOUS
<1>7. /\ q.thread = c /\ q.seen = r.seen /\ q.guest = r.guest /\ q.summary = r.summary
      /\ q \in Rec
  <2>1. q = [r EXCEPT !.thread = c]
    BY <1>1, <1>4, <1>6 DEF truncated
  <2> QED
    BY <1>5, <2>1 DEF Rec
<1>8. Sound(q)
  <2>1. DOMAIN c = 1..Keep /\ DOMAIN s = 1..Len(s)
    BY <1>2, <1>5
  <2>2. \A i, j \in 1..Keep : i + d = j + d => i = j
    BY <1>3
  <2>3. IsInjective(c)
    BY <1>2, <1>5, <2>1, <2>2 DEF IsInjective
  <2> QED
    BY <1>2, <1>5, <1>7, <2>3 DEF Sound
<1>9. ASSUME NEW m, NEW e \in 0..Keep, Recent(s, m, e)
      PROVE  Recent(c, m, e)
  <2>1. PICK i \in 1..Len(s) : s[i] = m /\ Len(s) < i + e
    BY <1>9 DEF Recent
  <2>2. i - d \in 1..Keep /\ (i - d) + d = i /\ Keep < (i - d) + e
    BY <1>3, <1>9, <2>1
  <2>3. c[i - d] = m
    BY <1>5, <2>1, <2>2
  <2> QED
    BY <1>5, <2>2, <2>3 DEF Recent
<1> QED
  BY <1>1, <1>5, <1>6, <1>7, <1>8, <1>9

-----------------------------------------------------------------------------
(* The variables other than the records have their types, and a turn is    *)
(* inside Update exactly while it holds the lock.                          *)
Control ==
    /\ backend \in Backends
    /\ byGuest \in SUBSET Convs
    /\ torn \in BOOLEAN
    /\ open \in BOOLEAN
    /\ pc \in [Turns -> {"idle", "waiting", "merge", "summarize", "persist"}]
    /\ lock \in Turns \cup {NoTurn}
    /\ \A t \in Turns : pc[t] \in {"merge", "summarize", "persist"} <=> lock = t
    /\ appended \in Nat
    /\ acked \in SUBSET Turns

(* The records are records, and each is sound.                             *)
RecordsSound ==
    /\ records \in [Convs -> Rec] /\ disk \in [Convs -> Rec] /\ draft \in Rec
    /\ \A k \in Convs : Sound(records[k]) /\ Sound(disk[k])
    /\ Sound(draft)

(* Where the configuration folds at all, what is stored is within the cap. *)
Folds == Keep \in 1..Cap
RecordsBounded ==
    Folds => \A k \in Convs : Len(records[k].thread) <= Cap /\ Len(disk[k].thread) <= Cap

(* How far from the end of the thread message n of turn t may be, when the *)
(* turn is at p and m of its messages were merged.                         *)
Distance(t, n, p, m) == IF p = "merge" THEN m - n + 1 ELSE Size[t] - n + 2

(* The messages of turn t that no fold may take away.                      *)
Owed(t, n) == n \in 1..Size[t] /\ (Cap = 0 \/ Keep = 0 \/ Size[t] - n + 2 <= Keep)

(* The draft of the turn that holds the lock adds that turn to the record, *)
(* and forgets none; its messages have been through the loop up to number  *)
(* appended, and those a fold may not take are near the end; it waits for  *)
(* the summarizer if it is too long, and is short enough when it is to be  *)
(* stored.                                                                 *)
DraftMeans ==
    \A t \in Turns : lock = t =>
        /\ draft.seen = records[ConvOf[t]].seen \cup {t}
        /\ records[ConvOf[t]].guest => draft.guest
        /\ pc[t] = "merge" => appended <= Size[t]
        /\ pc[t] = "summarize" => overflows(draft)
        /\ pc[t] = "persist" /\ Folds => Len(draft.thread) <= Cap

(* A burst that is new to the record is in the draft.                      *)
BurstMeans ==
    \A t \in Turns : lock = t /\ t \notin records[ConvOf[t]].seen =>
        /\ pc[t] = "merge" => \A i \in 1..Len(draft.thread) :
                                 draft.thread[i].turn = t =>
                                    /\ draft.thread[i].role = "guest"
                                    /\ draft.thread[i].n <= appended
        /\ \A n \in Nat : Owed(t, n) /\ (pc[t] = "merge" => n <= appended) =>
                             Recent(draft.thread, Guest(t, n), Distance(t, n, pc[t], appended))

(* What was acknowledged is in memory as well as on disk, so that the next *)
(* snapshot has it too, and memory is never behind the disk.               *)
AckedKnown ==
    /\ \A t \in acked : t \in disk[ConvOf[t]].seen /\ t \in records[ConvOf[t]].seen
    /\ \A k \in Convs : disk[k].seen \subseteq records[k].seen

IInv ==
    /\ Control /\ RecordsSound /\ RecordsBounded /\ DraftMeans /\ BurstMeans
    /\ IndexMatches /\ AckedKnown

-----------------------------------------------------------------------------
(* What the inductive invariant says of the variables' types.              *)
LEMMA InvTyped == IInv => TypeOK
<1>1. \A r \in Rec : Record(r)
  BY DEF Rec, Record
<1> QED
  BY <1>1 DEF IInv, Control, RecordsSound, TypeOK

(* The conversation of a turn.                                             *)
LEMMA ConvTyped == \A t \in Turns : ConvOf[t] \in Convs
  BY MemoryAssumption

(* The empty record.                                                       *)
LEMMA ZeroSound == Zero \in Rec /\ Sound(Zero) /\ Zero.seen = {} /\ Zero.guest = FALSE
                   /\ Len(Zero.thread) = 0
<1>1. <<>> \in Seq(Messages) /\ Len(<<>>) = 0 /\ DOMAIN <<>> = {} /\ 1..0 = {}
  OBVIOUS
<1>2. Zero.thread = <<>> /\ Zero.seen = {} /\ Zero.guest = FALSE /\ Zero \in Rec
  BY <1>1 DEF Zero, Rec
<1> QED
  BY <1>1, <1>2 DEF Sound, IsInjective

(* Every store starts empty.                                               *)
LEMMA InitEstablishes == Init => IInv
<1> SUFFICES ASSUME Init PROVE IInv
  OBVIOUS
<1>1. Control
  BY MemoryAssumption DEF Init, Control
<1>2. RecordsSound
  BY ZeroSound DEF Init, RecordsSound
<1>3. RecordsBounded
  <2>1. Cap \in Nat /\ 0 <= Cap
    BY MemoryAssumption
  <2> QED
    BY <2>1, ZeroSound DEF Init, RecordsBounded
<1>4. DraftMeans /\ BurstMeans
  BY MemoryAssumption DEF Init, DraftMeans, BurstMeans
<1>5. IndexMatches /\ AckedKnown
  BY ZeroSound DEF Init, IndexMatches, AckedKnown
<1> QED
  BY <1>1, <1>2, <1>3, <1>4, <1>5 DEF IInv

(* Update is called, or cannot load its record: only the place of a turn   *)
(* that is not inside changes.                                             *)
LEMMA OutsideMove ==
    ASSUME IInv, NEW t \in Turns, pc[t] \in {"idle", "waiting"}, NEW to \in {"idle", "waiting"},
           pc' = [pc EXCEPT ![t] = to],
           UNCHANGED <<backend, records, byGuest, disk, torn, open, lock, draft, appended, acked>>
    PROVE  IInv'
<1>1. /\ pc' \in [Turns -> {"idle", "waiting", "merge", "summarize", "persist"}]
      /\ pc'[t] = to /\ \A u \in Turns : u # t => pc'[u] = pc[u]
  BY DEF IInv, Control
<1>2. lock # t
  BY DEF IInv, Control
<1>3. Control'
  BY <1>1, <1>2 DEF IInv, Control
<1>4. DraftMeans' /\ BurstMeans'
  BY <1>1, <1>2 DEF IInv, DraftMeans, BurstMeans, overflows
<1>5. RecordsSound' /\ RecordsBounded' /\ IndexMatches' /\ AckedKnown'
  BY DEF IInv, RecordsSound, RecordsBounded, IndexMatches, AckedKnown
<1> QED
  BY <1>3, <1>4, <1>5 DEF IInv

(* Update takes the lock: the draft is the record, with the turn noted.    *)
LEMMA UpdateBeginStep ==
    ASSUME IInv, NEW t \in Turns, UpdateBegin(t)
    PROVE  IInv'
<1>1. PICK q : q = records[ConvOf[t]]
  OBVIOUS
<1>2. /\ pc[t] = "waiting" /\ lock = NoTurn /\ lock' = t /\ appended' = 0
      /\ draft' = [q EXCEPT !.guest = q.guest \/ t \in GuestKnown, !.seen = q.seen \cup {t}]
      /\ pc' = [pc EXCEPT ![t] = "merge"]
      /\ UNCHANGED <<backend, records, byGuest, disk, torn, open, acked>>
  BY <1>1 DEF UpdateBegin
<1>3. q \in Rec /\ Sound(q)
  BY <1>1, ConvTyped DEF IInv, RecordsSound
<1>4. /\ draft' \in Rec /\ draft'.thread = q.thread
      /\ draft'.seen = q.seen \cup {t} /\ (q.guest => draft'.guest)
  <2>1. q.seen \cup {t} \in SUBSET Turns /\ (q.guest \/ t \in GuestKnown) \in BOOLEAN
    BY <1>3 DEF Rec
  <2> QED
    BY <1>2, <1>3, <2>1 DEF Rec
<1>5. Sound(draft')
  BY <1>3, <1>4 DEF Sound
<1>6. NoTurn \notin Turns /\ Size[t] \in Nat
  BY MemoryAssumption
<1>7. /\ pc' \in [Turns -> {"idle", "waiting", "merge", "summarize", "persist"}]
      /\ pc'[t] = "merge" /\ \A u \in Turns : u # t => pc'[u] = pc[u]
  BY <1>2 DEF IInv, Control
<1>8. Control'
  BY <1>2, <1>6, <1>7 DEF IInv, Control
<1>9. RecordsSound'
  BY <1>2, <1>4, <1>5 DEF IInv, RecordsSound
<1>10. DraftMeans'
  BY <1>1, <1>2, <1>4, <1>6, <1>7 DEF DraftMeans
<1>11. BurstMeans'
  <2>1. ASSUME t \notin q.seen, NEW i \in 1..Len(draft'.thread)
        PROVE  draft'.thread[i].turn # t
    BY <1>3, <1>4, <2>1 DEF Sound
  <2>2. \A n \in Nat : Owed(t, n) => ~(n <= 0)
    BY <1>6 DEF Owed
  <2> QED
    BY <1>1, <1>2, <1>7, <2>1, <2>2 DEF BurstMeans, Owed
<1>12. RecordsBounded' /\ IndexMatches' /\ AckedKnown'
  BY <1>2 DEF IInv, RecordsBounded, IndexMatches, AckedKnown
<1> QED
  BY <1>8, <1>9, <1>10, <1>11, <1>12 DEF IInv

(* One round of the loop: the message comes last, and those before it move *)
(* one away from the end.                                                  *)
LEMMA MergeMessageStep ==
    ASSUME IInv, NEW t \in Turns, MergeMessage(t)
    PROVE  IInv'
<1>1. PICK d, k, m : d = draft /\ k = appended + 1 /\ m = Guest(t, k)
  OBVIOUS
<1>2. /\ pc[t] = "merge" /\ appended < Size[t] /\ appended' = k
      /\ draft' = [d EXCEPT !.thread = AppendMessage(@, m)]
      /\ UNCHANGED <<backend, records, byGuest, disk, torn, open, pc, lock, acked>>
  BY <1>1 DEF MergeMessage
<1>3. lock = t /\ appended \in Nat /\ k \in Nat /\ Size[t] \in Nat
  BY <1>1, <1>2, MemoryAssumption DEF IInv, Control
<1>4. d \in Rec /\ Sound(d) /\ d.seen = records[ConvOf[t]].seen \cup {t}
      /\ (records[ConvOf[t]].guest => d.guest)
  BY <1>1, <1>3 DEF IInv, RecordsSound, DraftMeans
<1>5. m \in Messages /\ m.turn = t /\ m.n = k /\ m.role = "guest"
  BY <1>1, <1>3 DEF Guest, Messages
<1>6. /\ draft' \in Rec /\ Sound(draft') /\ draft'.seen = d.seen /\ draft'.guest = d.guest
      /\ draft'.thread = AppendMessage(d.thread, m)
  BY <1>2, <1>4, <1>5, RecordAppend
<1>7. Control'
  BY <1>2, <1>3 DEF IInv, Control
<1>8. RecordsSound'
  BY <1>2, <1>6 DEF IInv, RecordsSound
<1>9. DraftMeans'
  BY <1>1, <1>2, <1>3, <1>4, <1>6 DEF IInv, DraftMeans
<1>10. BurstMeans'
  <2> SUFFICES ASSUME t \notin records[ConvOf[t]].seen
               PROVE  /\ \A i \in 1..Len(draft'.thread) : draft'.thread[i].turn = t =>
                            draft'.thread[i].role = "guest" /\ draft'.thread[i].n <= k
                      /\ \A n \in Nat : Owed(t, n) /\ n <= k =>
                            Recent(draft'.thread, Guest(t, n), Distance(t, n, "merge", k))
    BY <1>2, <1>3 DEF BurstMeans, Owed
  <2>1. d.thread \in Seq(Messages) /\ IsInjective(d.thread)
    BY <1>4 DEF Rec, Sound
  <2>2. \A i \in 1..Len(d.thread) : d.thread[i].turn = t =>
            d.thread[i].role = "guest" /\ d.thread[i].n <= appended
    BY <1>1, <1>2, <1>3 DEF IInv, BurstMeans
  <2>3. \A i \in 1..Len(d.thread) : d.thread[i] # m /\ d.thread[i].n \in Nat
    <3> SUFFICES ASSUME NEW i \in 1..Len(d.thread)
                 PROVE  d.thread[i] # m /\ d.thread[i].n \in Nat
      OBVIOUS
    <3>1. PICK x \in Messages : x = d.thread[i]
      BY <2>1
    <3>2. x.n \in Nat
      BY DEF Messages
    <3>3. x = m => x.turn = t /\ x.n = k
      BY <1>5
    <3>4. ~(k <= appended)
      BY <1>1, <1>3
    <3> QED
      BY <2>2, <3>1, <3>2, <3>3, <3>4
  <2>4. /\ Recent(draft'.thread, m, 1)
        /\ \A x, e : e \in Nat /\ Recent(d.thread, x, e) => Recent(draft'.thread, x, e + 1)
    BY <1>5, <1>6, <2>1, <2>3, AppendMoves
  <2>5. \A i \in 1..Len(draft'.thread) :
            draft'.thread[i] = m \/ \E j \in 1..Len(d.thread) : draft'.thread[i] = d.thread[j]
    <3>1. PICK a : a = draft'.thread
      OBVIOUS
    <3>2. a = AppendMessage(d.thread, m)
      BY <1>6, <3>1
    <3>3. \A i \in 1..Len(a) : a[i] = m \/ \E j \in 1..Len(d.thread) : a[i] = d.thread[j]
      BY <1>5, <2>1, <3>2, AppendMessageMeans
    <3> QED
      BY <3>1, <3>3
  <2>6. \A i \in 1..Len(draft'.thread) : draft'.thread[i].turn = t =>
            draft'.thread[i].role = "guest" /\ draft'.thread[i].n <= k
    <3>1. k <= k /\ \A n \in Nat : n <= appended => n <= k
      BY <1>1, <1>3
    <3>2. \A j \in 1..Len(d.thread) : d.thread[j].turn = t =>
              d.thread[j].role = "guest" /\ d.thread[j].n <= k
      BY <2>2, <2>3, <3>1
    <3> SUFFICES ASSUME NEW i \in 1..Len(draft'.thread), draft'.thread[i].turn = t
                 PROVE  draft'.thread[i].role = "guest" /\ draft'.thread[i].n <= k
      OBVIOUS
    <3>3. CASE draft'.thread[i] = m
      BY <1>5, <3>1, <3>3
    <3>4. CASE \E j \in 1..Len(d.thread) : draft'.thread[i] = d.thread[j]
      BY <3>2, <3>4
    <3> QED
      BY <2>5, <3>3, <3>4
  <2>7. ASSUME NEW n \in Nat, Owed(t, n), n <= k
        PROVE  Recent(draft'.thread, Guest(t, n), Distance(t, n, "merge", k))
    <3>1. CASE n = k
      <4>1. Distance(t, n, "merge", k) = 1
        BY <1>3, <3>1 DEF Distance
      <4> QED
        BY <1>1, <2>4, <3>1, <4>1
    <3>2. CASE n <= appended
      <4>1. Recent(d.thread, Guest(t, n), Distance(t, n, "merge", appended))
        BY <1>1, <1>2, <1>3, <2>7, <3>2 DEF IInv, BurstMeans
      <4>2. /\ Distance(t, n, "merge", appended) \in Nat
            /\ Distance(t, n, "merge", k) = Distance(t, n, "merge", appended) + 1
        BY <1>1, <1>3, <3>2 DEF Distance
      <4> QED
        BY <2>4, <4>1, <4>2
    <3> QED
      BY <1>1, <1>3, <2>7, <3>1, <3>2
  <2> QED
    BY <2>6, <2>7
<1>11. RecordsBounded' /\ IndexMatches' /\ AckedKnown'
  BY <1>2 DEF IInv, RecordsBounded, IndexMatches, AckedKnown
<1> QED
  BY <1>7, <1>8, <1>9, <1>10, <1>11 DEF IInv

(* The reply, if there is one, and the cut of a thread that overflows and  *)
(* has no summarizer to wait for.                                          *)
LEMMA MergeReplyStep ==
    ASSUME IInv, NEW t \in Turns, NEW sent \in BOOLEAN, MergeReply(t, sent)
    PROVE  IInv'
<1>1. PICK d, q, r : /\ d = draft /\ q = records[ConvOf[t]]
                     /\ r = [d EXCEPT !.thread = IF sent THEN AppendMessage(@, Bot(t)) ELSE @]
  OBVIOUS
<1>2. /\ pc[t] = "merge" /\ appended = Size[t]
      /\ \/ /\ overflows(r) /\ draft' = r /\ pc' = [pc EXCEPT ![t] = "summarize"]
         \/ /\ draft' = (IF overflows(r) THEN truncated(r) ELSE r)
            /\ pc' = [pc EXCEPT ![t] = "persist"]
      /\ UNCHANGED <<backend, records, byGuest, disk, torn, open, lock, appended, acked>>
  BY <1>1 DEF MergeReply
<1>3. lock = t /\ appended \in Nat /\ Size[t] \in Nat
  BY <1>2, MemoryAssumption DEF IInv, Control
<1>4. d \in Rec /\ Sound(d) /\ d.seen = q.seen \cup {t} /\ (q.guest => d.guest)
  BY <1>1, <1>3 DEF IInv, RecordsSound, DraftMeans
<1>5. Bot(t) \in Messages /\ Bot(t).turn = t
  BY DEF Bot, Messages
<1>6. /\ r \in Rec /\ Sound(r) /\ r.seen = d.seen /\ r.guest = d.guest
      /\ sent => r.thread = AppendMessage(d.thread, Bot(t))
      /\ ~sent => r.thread = d.thread
  <2>1. CASE sent
    BY <1>1, <1>4, <1>5, <2>1, RecordAppend
  <2>2. CASE ~sent
    <3>1. r = d
      BY <1>1, <1>4, <2>2 DEF Rec
    <3> QED
      BY <1>4, <2>2, <3>1
  <2> QED
    BY <2>1, <2>2
<1>7. ASSUME t \notin q.seen, NEW n \in Nat, Owed(t, n)
      PROVE  Recent(r.thread, Guest(t, n), Size[t] - n + 2)
  <2>1. n \in 1..Size[t] /\ Distance(t, n, "merge", appended) = Size[t] - n + 1
    BY <1>2, <1>3, <1>7 DEF Owed, Distance
  <2>2. Recent(d.thread, Guest(t, n), Size[t] - n + 1)
    BY <1>1, <1>2, <1>3, <1>7, <2>1 DEF IInv, BurstMeans
  <2>3. Size[t] - n + 1 \in Nat /\ (Size[t] - n + 1) + 1 = Size[t] - n + 2
    BY <1>3, <2>1
  <2>4. CASE sent
    <3>1. d.thread \in Seq(Messages) /\ IsInjective(d.thread)
      BY <1>4 DEF Rec, Sound
    <3> QED
      BY <1>5, <1>6, <2>2, <2>3, <2>4, <3>1, AppendMoves
  <2>5. CASE ~sent
    <3>1. Len(d.thread) \in Nat
      BY <1>4 DEF Rec
    <3>2. \A i \in 1..Len(d.thread) : Len(d.thread) < i + (Size[t] - n + 1) =>
                                        Len(d.thread) < i + (Size[t] - n + 2)
      BY <1>3, <2>1, <3>1
    <3> QED
      BY <1>6, <2>2, <2>5, <3>2 DEF Recent
  <2> QED
    BY <2>4, <2>5
<1>8. overflows(r) =>
        /\ truncated(r) \in Rec /\ Sound(truncated(r)) /\ Len(truncated(r).thread) = Keep
        /\ truncated(r).seen = r.seen /\ truncated(r).guest = r.guest
        /\ \A m, e : e \in 0..Keep /\ Recent(r.thread, m, e) => Recent(truncated(r).thread, m, e)
  BY <1>6, TruncatedMeans
<1>9. ~overflows(r) /\ Folds => Len(r.thread) <= Cap
  <2>1. Len(r.thread) \in Nat /\ Cap \in Nat /\ Keep \in Nat
    BY <1>6, MemoryAssumption DEF Rec
  <2> QED
    BY <2>1 DEF overflows, Folds
<1>10. Folds => Keep <= Cap
  BY MemoryAssumption DEF Folds
<1>11. /\ draft' \in Rec /\ Sound(draft')
       /\ draft'.seen = q.seen \cup {t} /\ (q.guest => draft'.guest)
  BY <1>2, <1>4, <1>6, <1>8
<1>12. ASSUME t \notin q.seen, NEW n \in Nat, Owed(t, n)
       PROVE  Recent(draft'.thread, Guest(t, n), Size[t] - n + 2)
  <2>1. CASE overflows(r)
    <3>1. Size[t] - n + 2 \in 0..Keep
      BY <1>3, <1>12, <2>1, MemoryAssumption DEF Owed, overflows
    <3> QED
      BY <1>2, <1>7, <1>8, <1>12, <2>1, <3>1
  <2>2. CASE ~overflows(r)
    BY <1>2, <1>7, <1>12, <2>2
  <2> QED
    BY <2>1, <2>2
<1>13. /\ pc' \in [Turns -> {"idle", "waiting", "merge", "summarize", "persist"}]
       /\ pc'[t] \in {"summarize", "persist"} /\ \A u \in Turns : u # t => pc'[u] = pc[u]
       /\ pc'[t] = "summarize" => overflows(draft')
       /\ pc'[t] = "persist" /\ Folds => Len(draft'.thread) <= Cap
  BY <1>2, <1>8, <1>9, <1>10 DEF IInv, Control
<1>14. Control'
  BY <1>2, <1>3, <1>13 DEF IInv, Control
<1>15. RecordsSound'
  BY <1>2, <1>11 DEF IInv, RecordsSound
<1>16. DraftMeans'
  <2>1. overflows(draft)' <=> overflows(draft')
    BY DEF overflows
  <2> QED
    BY <1>1, <1>2, <1>3, <1>11, <1>13, <2>1 DEF DraftMeans
<1>17. BurstMeans'
  BY <1>1, <1>2, <1>3, <1>12, <1>13 DEF BurstMeans, Distance, Owed
<1>18. RecordsBounded' /\ IndexMatches' /\ AckedKnown'
  BY <1>2 DEF IInv, RecordsBounded, IndexMatches, AckedKnown
<1> QED
  BY <1>14, <1>15, <1>16, <1>17, <1>18 DEF IInv

(* The summarizer answers, and the thread is cut.                          *)
LEMMA SummarizeStep ==
    ASSUME IInv, NEW t \in Turns, Summarize(t)
    PROVE  IInv'
<1>1. PICK summary \in BOOLEAN \cup {draft.summary} :
        draft' = [truncated(draft) EXCEPT !.summary = summary]
  BY DEF Summarize
<1>2. /\ pc[t] = "summarize" /\ pc' = [pc EXCEPT ![t] = "persist"]
      /\ UNCHANGED <<backend, records, byGuest, disk, torn, open, lock, appended, acked>>
  BY DEF Summarize
<1>3. lock = t
  BY <1>2 DEF IInv, Control
<1>4. draft \in Rec /\ Sound(draft) /\ overflows(draft)
  BY <1>2, <1>3 DEF IInv, RecordsSound, DraftMeans
<1>5. PICK c : c = truncated(draft)
  OBVIOUS
<1>6. /\ c \in Rec /\ Sound(c) /\ Len(c.thread) = Keep
      /\ c.seen = draft.seen /\ c.guest = draft.guest
      /\ \A m, e : e \in 0..Keep /\ Recent(draft.thread, m, e) => Recent(c.thread, m, e)
  BY <1>4, <1>5, TruncatedMeans
<1>7. summary \in BOOLEAN
  BY <1>4 DEF Rec
<1>8. /\ draft' \in Rec /\ draft'.thread = c.thread /\ draft'.seen = draft.seen
      /\ draft'.guest = draft.guest
  BY <1>1, <1>5, <1>6, <1>7 DEF Rec
<1>9. Sound(draft')
  BY <1>6, <1>8 DEF Sound
<1>10. /\ pc' \in [Turns -> {"idle", "waiting", "merge", "summarize", "persist"}]
       /\ pc'[t] = "persist" /\ \A u \in Turns : u # t => pc'[u] = pc[u]
  BY <1>2 DEF IInv, Control
<1>11. Control'
  BY <1>2, <1>3, <1>10 DEF IInv, Control
<1>12. RecordsSound'
  BY <1>2, <1>8, <1>9 DEF IInv, RecordsSound
<1>13. DraftMeans'
  <2>1. Folds => Keep <= Cap
    BY MemoryAssumption DEF Folds
  <2> QED
    BY <1>2, <1>3, <1>6, <1>8, <1>10, <2>1 DEF IInv, DraftMeans
<1>14. BurstMeans'
  <2> SUFFICES ASSUME t \notin records[ConvOf[t]].seen, NEW n \in Nat, Owed(t, n)
               PROVE  Recent(draft'.thread, Guest(t, n), Size[t] - n + 2)
    BY <1>2, <1>3, <1>10 DEF BurstMeans, Distance, Owed
  <2>1. Recent(draft.thread, Guest(t, n), Size[t] - n + 2)
    BY <1>2, <1>3 DEF IInv, BurstMeans, Distance
  <2>2. Size[t] - n + 2 \in 0..Keep
    BY <1>4, MemoryAssumption DEF Owed, overflows
  <2> QED
    BY <1>6, <1>8, <2>1, <2>2
<1>15. RecordsBounded' /\ IndexMatches' /\ AckedKnown'
  BY <1>2 DEF IInv, RecordsBounded, IndexMatches, AckedKnown
<1> QED
  BY <1>11, <1>12, <1>13, <1>14, <1>15 DEF IInv

(* Update returns, whatever of it was written: on disk a conversation has  *)
(* what it had, what is in memory, or the new record; and only a record    *)
(* that is on both sides is acknowledged.                                  *)
LEMMA ReturnsStep ==
    ASSUME IInv, NEW t \in Turns, Returns(t),
           Store(t) \/ UNCHANGED <<records, byGuest>>,
           disk' \in [Convs -> Rec], torn' \in BOOLEAN, acked' \in SUBSET Turns,
           \A k \in Convs : \/ disk'[k] = disk[k] \/ disk'[k] = records[k]
                            \/ k = ConvOf[t] /\ Store(t) /\ disk'[k] = draft,
           \A u \in acked' : u \in acked \/ (u = t /\ Store(t) /\ disk'[ConvOf[t]] = draft)
    PROVE  IInv'
<1>1. PICK k \in Convs : k = ConvOf[t]
  BY ConvTyped
<1>2. /\ pc[t] = "persist" /\ pc' = [pc EXCEPT ![t] = "idle"] /\ lock' = NoTurn /\ draft' = Zero
      /\ appended' = 0 /\ UNCHANGED <<backend, open>>
  BY DEF Returns
<1>3. lock = t
  BY <1>2 DEF IInv, Control
<1>4. NoTurn \notin Turns
  BY MemoryAssumption
<1>5. /\ draft \in Rec /\ Sound(draft) /\ draft.seen = records[k].seen \cup {t}
      /\ records[k].guest => draft.guest
      /\ Folds => Len(draft.thread) <= Cap
  BY <1>1, <1>2, <1>3 DEF IInv, RecordsSound, DraftMeans
<1>6. /\ records' \in [Convs -> Rec]
      /\ \A j \in Convs : j # k => records'[j] = records[j]
      /\ records'[k] = records[k] \/ records'[k] = draft
      /\ Store(t) => records'[k] = draft
  BY <1>1, <1>5 DEF IInv, RecordsSound, Store
<1>7. \A j \in Convs : \/ disk'[j] = disk[j] \/ disk'[j] = records[j]
                       \/ j = k /\ Store(t) /\ disk'[j] = draft
  BY <1>1
<1>8. Control'
  <2>1. /\ pc' \in [Turns -> {"idle", "waiting", "merge", "summarize", "persist"}]
        /\ pc'[t] = "idle" /\ \A u \in Turns : u # t => pc'[u] = pc[u]
    BY <1>2 DEF IInv, Control
  <2>2. byGuest' \in SUBSET Convs
    BY <1>1 DEF IInv, Control, Store
  <2> QED
    BY <1>2, <1>3, <1>4, <2>1, <2>2 DEF IInv, Control
<1>9. RecordsSound'
  <2>1. \A j \in Convs : Sound(records'[j]) /\ Sound(disk'[j])
    BY <1>5, <1>6, <1>7 DEF IInv, RecordsSound
  <2> QED
    BY <1>2, <1>6, <2>1, ZeroSound DEF RecordsSound
<1>10. RecordsBounded'
  <2>1. ASSUME Folds, NEW j \in Convs
        PROVE  Len(records'[j].thread) <= Cap /\ Len(disk'[j].thread) <= Cap
    BY <1>5, <1>6, <1>7, <2>1 DEF IInv, RecordsBounded
  <2> QED
    BY <2>1 DEF RecordsBounded
<1>11. DraftMeans' /\ BurstMeans'
  BY <1>2, <1>4 DEF DraftMeans, BurstMeans
<1>12. IndexMatches'
  <2>1. byGuest = {j \in Convs : records[j].guest}
    BY DEF IInv, IndexMatches
  <2>2. CASE UNCHANGED <<records, byGuest>>
    BY <2>1, <2>2 DEF IndexMatches
  <2>3. CASE Store(t)
    <3>1. records'[k] = draft /\ byGuest' = IF draft.guest THEN byGuest \cup {k} ELSE byGuest
      BY <1>1, <1>6, <2>3 DEF Store
    <3>2. \A j \in Convs : j \in byGuest' <=> records'[j].guest
      BY <1>5, <1>6, <2>1, <3>1
    <3>3. byGuest' \subseteq Convs
      BY <2>1, <3>1
    <3> QED
      BY <3>2, <3>3 DEF IndexMatches
  <2> QED
    BY <2>2, <2>3
<1>13. AckedKnown'
  <2>0. \A j \in Convs : disk'[j].seen \subseteq records'[j].seen
    BY <1>5, <1>6, <1>7 DEF IInv, AckedKnown
  <2> SUFFICES ASSUME NEW u \in acked'
               PROVE  u \in disk'[ConvOf[u]].seen /\ u \in records'[ConvOf[u]].seen
    BY <2>0 DEF AckedKnown
  <2>1. ConvOf[u] \in Convs
    BY ConvTyped
  <2>2. CASE u \in acked
    <3>1. u \in disk[ConvOf[u]].seen /\ u \in records[ConvOf[u]].seen
      BY <2>2 DEF IInv, AckedKnown
    <3> QED
      BY <1>5, <1>6, <1>7, <2>1, <3>1
  <2>3. CASE u = t /\ Store(t) /\ disk'[ConvOf[t]] = draft
    BY <1>1, <1>5, <1>6, <2>3
  <2> QED
    BY <2>2, <2>3
<1> QED
  BY <1>8, <1>9, <1>10, <1>11, <1>12, <1>13 DEF IInv

(* The end of Update in the file store.                                    *)
LEMMA UpdateEndStep ==
    ASSUME IInv, NEW t \in Turns, UpdateEnd(t)
    PROVE  IInv'
<1>1. PICK k \in Convs : k = ConvOf[t]
  BY ConvTyped
<1>2. disk \in [Convs -> Rec] /\ draft \in Rec /\ torn \in BOOLEAN /\ acked \in SUBSET Turns
  BY DEF IInv, Control, RecordsSound
<1>3. Returns(t) /\ Store(t)
  BY DEF UpdateEnd
<1>4. ASSUME WriteLine(t, draft)
      PROVE  /\ disk' \in [Convs -> Rec] /\ torn' \in BOOLEAN
             /\ \A j \in Convs : disk'[j] = disk[j] \/ (j = k /\ disk'[j] = draft)
             /\ ~torn => disk'[k] = draft
  BY <1>1, <1>2, <1>4 DEF WriteLine
<1>5. /\ disk' \in [Convs -> Rec] /\ torn' \in BOOLEAN
      /\ \A j \in Convs : disk'[j] = disk[j] \/ (j = k /\ disk'[j] = draft)
  <2>1. CASE WriteLine(t, draft)
    BY <1>4, <2>1
  <2>2. CASE WriteFails(t)
    BY <1>2, <1>4, <2>2 DEF WriteFails
  <2> QED
    BY <2>1, <2>2 DEF UpdateEnd
<1>6. /\ acked' \in SUBSET Turns
      /\ \A u \in acked' : u \in acked \/ (u = t /\ disk'[k] = draft)
  <2>1. CASE WriteLine(t, draft) /\ Ack(t)
    BY <1>2, <1>4, <2>1 DEF Ack
  <2>2. CASE UNCHANGED acked
    BY <1>2, <2>2
  <2> QED
    BY <2>1, <2>2 DEF UpdateEnd
<1> QED
  BY <1>1, <1>3, <1>5, <1>6, ReturnsStep

(* The end of Update in the Mongo store.                                   *)
LEMMA UpdateEndMongoStep ==
    ASSUME IInv, NEW t \in Turns, UpdateEndMongo(t)
    PROVE  IInv'
<1>1. PICK k \in Convs : k = ConvOf[t]
  BY ConvTyped
<1>2. /\ disk \in [Convs -> Rec] /\ records \in [Convs -> Rec] /\ draft \in Rec
      /\ torn \in BOOLEAN /\ acked \in SUBSET Turns
  BY DEF IInv, Control, RecordsSound
<1>3. Returns(t) /\ torn' = torn
  BY DEF UpdateEndMongo
<1>4. CASE Store(t) /\ disk' = records' /\ acked' \in {acked, acked \cup {t}}
  <2>1. /\ disk' \in [Convs -> Rec] /\ disk'[k] = draft
        /\ \A j \in Convs : j # k => disk'[j] = records[j]
    BY <1>1, <1>2, <1>4 DEF Store
  <2>2. acked' \in SUBSET Turns /\ \A u \in acked' : u \in acked \/ u = t
    BY <1>2, <1>4
  <2> QED
    BY <1>1, <1>2, <1>3, <1>4, <2>1, <2>2, ReturnsStep
<1>5. CASE UNCHANGED <<records, byGuest, disk, acked>>
  BY <1>2, <1>3, <1>5, ReturnsStep
<1> QED
  BY <1>4, <1>5 DEF UpdateEndMongo

(* A restart reads the log back.                                           *)
LEMMA RestartStep ==
    ASSUME IInv, Restart
    PROVE  IInv'
<1>1. /\ records' = disk
      /\ byGuest' = {k \in Convs : disk[k].guest} /\ pc' = [t \in Turns |-> "idle"]
      /\ lock' = NoTurn /\ open' = TRUE /\ draft' = Zero /\ appended' = 0
      /\ UNCHANGED <<backend, disk, torn, acked>>
  BY DEF Restart
<1>2. NoTurn \notin Turns
  BY MemoryAssumption
<1>3. Control'
  BY <1>1, <1>2 DEF IInv, Control
<1>4. RecordsSound' /\ RecordsBounded'
  BY <1>1, ZeroSound DEF IInv, RecordsSound, RecordsBounded
<1>5. DraftMeans' /\ BurstMeans' /\ IndexMatches' /\ AckedKnown'
  BY <1>1, <1>2 DEF IInv, DraftMeans, BurstMeans, IndexMatches, AckedKnown
<1> QED
  BY <1>3, <1>4, <1>5 DEF IInv

(* The records a reset leaves, in memory, on disk or on both.              *)
LEMMA ResetStep ==
    ASSUME IInv, lock = NoTurn, UNCHANGED <<backend, pc, lock, draft, appended>>,
           torn' \in BOOLEAN, open' \in BOOLEAN,
           \/ /\ records' = [k \in Convs |-> Zero] /\ byGuest' = {} /\ acked' = {}
              /\ disk' = [k \in Convs |-> Zero]
           \/ UNCHANGED <<records, byGuest>>,
           \/ disk' = [k \in Convs |-> Zero] /\ acked' = {}
           \/ UNCHANGED <<disk, acked>>
    PROVE  IInv'
<1>1. NoTurn \notin Turns /\ Cap \in Nat /\ 0 <= Cap
  BY MemoryAssumption
<1>2. acked' = {} \/ (acked' = acked /\ UNCHANGED <<records, disk>>)
  OBVIOUS
<1>3. byGuest' \in SUBSET Convs /\ acked' \in SUBSET Turns
  BY <1>2 DEF IInv, Control
<1>4. Control'
  BY <1>3 DEF IInv, Control
<1>5. records' \in [Convs -> Rec] /\ disk' \in [Convs -> Rec]
  BY ZeroSound DEF IInv, RecordsSound
<1>6. \A k \in Convs : /\ records'[k] = records[k] \/ records'[k] = Zero
                       /\ disk'[k] = disk[k] \/ disk'[k] = Zero
  OBVIOUS
<1>7. RecordsSound'
  BY <1>5, <1>6, ZeroSound DEF IInv, RecordsSound
<1>8. RecordsBounded'
  BY <1>1, <1>6, ZeroSound DEF IInv, RecordsBounded
<1>9. DraftMeans' /\ BurstMeans'
  BY <1>1 DEF DraftMeans, BurstMeans
<1>10. IndexMatches'
  <2>1. CASE records' = [k \in Convs |-> Zero] /\ byGuest' = {}
    BY <2>1, ZeroSound DEF IndexMatches
  <2>2. CASE UNCHANGED <<records, byGuest>>
    BY <2>2 DEF IInv, IndexMatches
  <2> QED
    BY <2>1, <2>2
<1>11. AckedKnown'
  <2>1. \A k \in Convs : disk'[k].seen \subseteq records'[k].seen
    BY ZeroSound DEF IInv, AckedKnown
  <2> QED
    BY <1>2, <2>1 DEF IInv, AckedKnown
<1> QED
  BY <1>4, <1>7, <1>8, <1>9, <1>10, <1>11 DEF IInv

(* Every step keeps the invariant.                                         *)
LEMMA NextKeeps == IInv /\ [Next]_vars => IInv'
<1> SUFFICES ASSUME IInv, [Next]_vars PROVE IInv'
  OBVIOUS
<1>1. ASSUME NEW t \in Turns, UpdateCall(t) PROVE IInv'
  BY <1>1, OutsideMove DEF UpdateCall
<1>2. ASSUME NEW t \in Turns, UpdateLoadFails(t) PROVE IInv'
  BY <1>2, OutsideMove DEF UpdateLoadFails
<1>3. ASSUME NEW t \in Turns, Summarize(t) PROVE IInv'
  BY <1>3, SummarizeStep
<1>4. ASSUME NEW t \in Turns, UpdateEnd(t) PROVE IInv'
  BY <1>4, UpdateEndStep
<1>5. ASSUME NEW t \in Turns, UpdateEndMongo(t) PROVE IInv'
  BY <1>5, UpdateEndMongoStep
<1>6. ASSUME NEW t \in Turns, NEW sent \in BOOLEAN, MergeReply(t, sent) PROVE IInv'
  BY <1>6, MergeReplyStep
<1>7. CASE Restart
  BY <1>7, RestartStep
<1>8. CASE Reset
  BY <1>8, ResetStep DEF Reset
<1>9. CASE ResetFails
  <2>1. torn' \in BOOLEAN
    BY <1>9 DEF ResetFails, IInv, Control
  <2> QED
    BY <1>9, <2>1, ResetStep DEF ResetFails
<1>10. CASE UNCHANGED vars
  BY <1>10 DEF vars, IInv, Control, RecordsSound, RecordsBounded, DraftMeans, BurstMeans,
     IndexMatches, AckedKnown, overflows
<1>11. ASSUME NEW t \in Turns, UpdateBegin(t) PROVE IInv'
  BY <1>11, UpdateBeginStep
<1>12. ASSUME NEW t \in Turns, MergeMessage(t) PROVE IInv'
  BY <1>12, MergeMessageStep
<1> QED
  BY <1>1, <1>2, <1>3, <1>4, <1>5, <1>6, <1>7, <1>8, <1>9, <1>10, <1>11, <1>12 DEF Next

-----------------------------------------------------------------------------
(* The inductive invariant of the memory.                                  *)
THEOREM Invariance == Spec => []IInv
  BY InitEstablishes, NextKeeps, PTL DEF Spec

(* With a fold that keeps something and no more than the cap, as the       *)
(* defaults do (50 and 20), the thread is bounded and repeats nothing, in  *)
(* memory, on disk and after a restart, and the guest index is right.      *)
THEOREM ThreadsAreBounded ==
    ASSUME Keep \in 1..Cap
    PROVE  Spec => []ThreadInv
<1>1. IInv => ThreadInv
  <2> SUFFICES ASSUME IInv PROVE ThreadBounded
    BY InvTyped DEF IInv, ThreadInv
  <2> QED
    BY DEF IInv, RecordsSound, RecordsBounded, Folds, Sound, ThreadBounded
<1> QED
  BY <1>1, Invariance, PTL

(* An Update that returned nil is in every later snapshot of its           *)
(* conversation.                                                           *)
THEOREM AcknowledgedSurvives == Spec => []AckedSurvives
<1>1. IInv => AckedSurvives
  BY DEF IInv, AckedKnown, AckedSurvives
<1> QED
  BY <1>1, Invariance, PTL

(* Of a burst that is closed for the first time, the last Keep - 1         *)
(* messages are in the thread verbatim, and all of them where nothing      *)
(* folds: the default tail of 20 keeps bursts of up to 19.                 *)
THEOREM TheLastTurnIsVerbatim == Spec => LastTurnVerbatim
<1> DEFINE Verbatim(t, n) ==
               t \notin records[ConvOf[t]].seen /\ t \in records'[ConvOf[t]].seen
               /\ (Cap = 0 \/ Keep = 0 \/ Size[t] - n + 2 <= Keep) =>
                  Contains(records'[ConvOf[t]].thread, Guest(t, n))
<1>1. IInv /\ [Next]_vars => [\A t \in Turns : \A n \in 1..Size[t] : Verbatim(t, n)]_vars
  <2> SUFFICES ASSUME IInv, Next, NEW t \in Turns, NEW n \in 1..Size[t],
                      t \notin records[ConvOf[t]].seen,
                      t \in records'[ConvOf[t]].seen,
                      Cap = 0 \/ Keep = 0 \/ Size[t] - n + 2 <= Keep
               PROVE  Contains(records'[ConvOf[t]].thread, Guest(t, n))
    OBVIOUS
  <2>1. PICK k \in Convs : k = ConvOf[t]
    BY ConvTyped
  <2>2. ~Reset /\ ~Restart
    <3>1. ~Reset
      BY <2>1, ZeroSound DEF Reset
    <3>2. ~Restart
      BY <2>1 DEF Restart, IInv, AckedKnown
    <3> QED
      BY <3>1, <3>2
  <2>3. records' # records
    BY <2>1
  <2>4. PICK u \in Turns : Returns(u) /\ Store(u)
    BY <2>2, <2>3 DEF Next, UpdateCall, UpdateLoadFails, Summarize, UpdateBegin, MergeMessage,
       MergeReply, UpdateEnd, UpdateEndMongo, ResetFails
  <2>5. lock = u /\ pc[u] = "persist"
    BY <2>4 DEF IInv, Control, Returns
  <2>6. ConvOf[u] = k /\ records'[k] = draft
    BY <2>1, <2>4 DEF IInv, RecordsSound, Store
  <2>7. u = t
    BY <2>1, <2>5, <2>6 DEF IInv, DraftMeans
  <2>8. n \in Nat /\ Owed(t, n)
    BY MemoryAssumption DEF Owed
  <2>9. Recent(draft.thread, Guest(t, n), Size[t] - n + 2)
    BY <2>5, <2>7, <2>8 DEF IInv, BurstMeans, Distance
  <2> QED
    BY <2>1, <2>6, <2>9 DEF Recent, Contains
<1> QED
  BY <1>1, Invariance, PTL DEF Spec, LastTurnVerbatim

-----------------------------------------------------------------------------
(***************************************************************************)
(* Conversion tracking, for any reservations, any set of concurrent        *)
(* handlers and any number of auto-replies and webhooks: the counter ticks *)
(* only for managed reservations, once for each whose handlers do not meet *)
(* and whose record the file store does not replace, and what was counted  *)
(* stays converted until it does.                                          *)
(*                                                                         *)
(* The argument follows the handlers that have passed the test of          *)
(* ConvertedAt and not yet returned.  Alone with its reservation, such a   *)
(* handler has found it unconverted, hence uncounted, and nobody else can  *)
(* count it before this handler returns.                                   *)
(***************************************************************************)

(* The handlers that may still count reservation r.                        *)
InFlight(r) == {h \in Handlers : step[h] # "idle" /\ arg[h] = r}

(* A record, and a handler past GetManaged, is of a managed reservation;   *)
(* what is going to be appended was read.                                  *)
SeenInv ==
    /\ \A r \in Reservations : rec[r] # NotFound => r \in managed
    /\ \A h \in Handlers : step[h] # "idle" => arg[h] \in managed
    /\ \A h \in Handlers : step[h] = "append" => snap[h] # NotFound

Converted(r) == rec[r] # NotFound /\ rec[r].converted

Tally(r) ==
    /\ counted[r] > 0 => r \in managed
    /\ r \notin rewritten /\ counted[r] > 0 => Converted(r)
    /\ r \notin overlapped => \A g, h \in InFlight(r) : g = h
    /\ r \notin overlapped /\ r \notin rewritten =>
         /\ counted[r] <= 1
         /\ InFlight(r) # {} => counted[r] = 0

TallyInv == \A r \in Reservations : Tally(r)

ConversionsIInv == ConversionsTypeOK /\ SeenInv /\ TallyInv

-----------------------------------------------------------------------------
(* Handler h is in flight no more.                                         *)
LEMMA HandlerReturns ==
    ASSUME ConversionsTypeOK, NEW h \in Handlers, step[h] # "idle", UNCHANGED arg,
           step' = [step EXCEPT ![h] = "idle"], NEW r \in Reservations
    PROVE  /\ r = arg[h] => h \in InFlight(r) /\ InFlight(r)' = InFlight(r) \ {h}
           /\ r # arg[h] => InFlight(r)' = InFlight(r)
  BY DEF ConversionsTypeOK, InFlight

(* The same or fewer handlers in flight and the same count.                *)
LEMMA TallyKept ==
    ASSUME NEW r \in Reservations, Tally(r), counted'[r] = counted[r],
           InFlight(r)' \subseteq InFlight(r),
           managed \subseteq managed', overlapped \subseteq overlapped',
           rewritten \subseteq rewritten',
           r \notin rewritten' /\ Converted(r) => Converted(r)'
    PROVE  Tally(r)'
<1>1. r \notin overlapped' => r \notin overlapped
  OBVIOUS
<1>2. r \notin rewritten' => r \notin rewritten
  OBVIOUS
<1>3. InFlight(r)' # {} => InFlight(r) # {}
  OBVIOUS
<1> QED
  BY <1>1, <1>2, <1>3 DEF Tally

(* A snapshot with the new status is a converted record.                   *)
LEMMA ConvertedRecord ==
    ASSUME NEW old \in Records
    PROVE  LET new == [old EXCEPT !.status = "confirmed", !.converted = TRUE]
           IN  new \in Records /\ new # NotFound /\ new.converted
<1> DEFINE new == [old EXCEPT !.status = "confirmed", !.converted = TRUE]
<1>1. new \in Records /\ new.converted
  BY DEF Records
<1> QED
  BY <1>1, NotFoundAssumption

(* MarkManaged stores a record and, on Mongo, keeps converted_at.          *)
LEMMA ManagedRecord ==
    ASSUME NEW at \in 1..MaxManaged, NEW old \in Records \cup {NotFound}
    PROVE  /\ Fresh(at) \in Records /\ upsert(old, at) \in Records
           /\ Fresh(at) # NotFound /\ upsert(old, at) # NotFound
           /\ old # NotFound /\ old.converted => upsert(old, at).converted
<1>1. Fresh(at) \in Records
  BY DEF Fresh, Records
<1>2. CASE old = NotFound
  BY <1>1, <1>2, NotFoundAssumption DEF upsert
<1>3. CASE old # NotFound
  <2> DEFINE new == [old EXCEPT !.managedAt = at, !.status = "managed"]
  <2>1. new \in Records /\ new.converted = old.converted
    BY <1>3 DEF Records
  <2>2. upsert(old, at) = new
    BY <1>3 DEF upsert
  <2> QED
    BY <1>1, <2>1, <2>2, NotFoundAssumption
<1> QED
  BY <1>2, <1>3

-----------------------------------------------------------------------------
(* An auto-reply.                                                          *)
LEMMA MarkManagedStep ==
    ASSUME ConversionsIInv, NEW r \in Reservations, MarkManaged(r)
    PROVE  ConversionsIInv'
<1>1. /\ clock' = clock + 1 /\ clock' \in 1..MaxManaged
      /\ UNCHANGED <<ledger, step, arg, snap, updates, counted, overlapped>>
  BY ConversionsAssumption DEF MarkManaged, ConversionsIInv, ConversionsTypeOK
<1>2. /\ rec \in [Reservations -> Records \cup {NotFound}]
      /\ managed \in SUBSET Reservations /\ rewritten \in SUBSET Reservations
      /\ ledger \in {"file", "mongo"}
  BY ConversionsAssumption DEF ConversionsIInv, ConversionsTypeOK
<1>3. \A q \in Reservations : InFlight(q)' = InFlight(q)
  BY <1>1 DEF InFlight
<1>4. PICK stored \in Records :
        /\ stored # NotFound
        /\ ledger = "mongo" /\ rec[r] # NotFound /\ rec[r].converted => stored.converted
        /\ \/ /\ rec' = [rec EXCEPT ![r] = stored] /\ managed' = managed \cup {r}
              /\ rewritten' = IF ledger = "file" /\ rec[r] # NotFound
                                THEN rewritten \cup {r} ELSE rewritten
           \/ UNCHANGED <<rec, managed, rewritten>>
  <2> DEFINE stored == IF ledger = "mongo" THEN upsert(rec[r], clock') ELSE Fresh(clock')
  <2>1. /\ stored \in Records /\ stored # NotFound
        /\ ledger = "mongo" /\ rec[r] # NotFound /\ rec[r].converted => stored.converted
    BY <1>1, <1>2, ManagedRecord
  <2>2. \/ /\ rec' = [rec EXCEPT ![r] = stored] /\ managed' = managed \cup {r}
           /\ rewritten' = IF ledger = "file" /\ rec[r] # NotFound
                             THEN rewritten \cup {r} ELSE rewritten
        \/ UNCHANGED <<rec, managed, rewritten>>
    BY DEF MarkManaged
  <2> HIDE DEF stored
  <2> QED
    BY <2>1, <2>2
<1>5. /\ rec' \in [Reservations -> Records \cup {NotFound}] /\ managed' \in SUBSET Reservations
      /\ managed \subseteq managed' /\ rewritten \subseteq rewritten'
      /\ rewritten' \in SUBSET Reservations
      /\ \A q \in Reservations : rec'[q] # NotFound => q \in managed'
  BY <1>2, <1>4 DEF ConversionsIInv, SeenInv
<1>6. ASSUME NEW q \in Reservations, q \notin rewritten', Converted(q) PROVE Converted(q)'
  BY <1>2, <1>4, <1>6 DEF Converted
<1>7. ConversionsTypeOK'
  BY <1>1, <1>5 DEF ConversionsIInv, ConversionsTypeOK
<1>8. SeenInv'
  BY <1>1, <1>5 DEF ConversionsIInv, SeenInv
<1>9. ASSUME NEW q \in Reservations PROVE Tally(q)'
  <2>1. Tally(q) /\ overlapped \subseteq overlapped' /\ counted'[q] = counted[q]
    BY <1>1 DEF ConversionsIInv, TallyInv
  <2> QED
    BY <1>3, <1>5, <1>6, <2>1, TallyKept
<1> QED
  BY <1>7, <1>8, <1>9 DEF ConversionsIInv, TallyInv

(* A confirmed reservation, up to the test of ConvertedAt.                 *)
LEMMA ReservationUpdatedStep ==
    ASSUME ConversionsIInv, NEW h \in Handlers, NEW r \in Reservations, ReservationUpdated(h, r)
    PROVE  ConversionsIInv'
<1>1. /\ step[h] = "idle" /\ updates < MaxUpdates /\ updates' = updates + 1
      /\ arg' = [arg EXCEPT ![h] = r]
      /\ UNCHANGED <<ledger, rec, snap, clock, counted, managed, rewritten>>
  BY DEF ReservationUpdated, Updated
<1>2. /\ step \in [Handlers -> {"idle", "record", "append"}] /\ arg \in [Handlers -> Reservations]
      /\ updates \in 0..MaxUpdates /\ MaxUpdates \in Nat
      /\ counted \in [Reservations -> Nat] /\ overlapped \in SUBSET Reservations
  BY ConversionsAssumption DEF ConversionsIInv, ConversionsTypeOK
<1>3. \/ /\ rec[r] # NotFound /\ ~rec[r].converted
         /\ step' = [step EXCEPT ![h] = "record"]
         /\ overlapped' = IF InFlight(r) # {} THEN overlapped \cup {r} ELSE overlapped
      \/ UNCHANGED <<step, overlapped>>
  BY DEF ReservationUpdated, Updated, Passes, GetManaged, InFlight
<1>4. /\ step' \in [Handlers -> {"idle", "record", "append"}]
      /\ arg' \in [Handlers -> Reservations]
      /\ overlapped' \in SUBSET Reservations /\ overlapped \subseteq overlapped'
  BY <1>1, <1>2, <1>3
<1>5. ConversionsTypeOK'
  BY <1>1, <1>2, <1>4 DEF ConversionsIInv, ConversionsTypeOK
<1>6. SeenInv'
  BY <1>1, <1>2, <1>3 DEF ConversionsIInv, SeenInv
<1>7. \A q \in Reservations : q # r => InFlight(q)' = InFlight(q)
  BY <1>1, <1>2, <1>3 DEF InFlight
<1>8. ASSUME NEW q \in Reservations, InFlight(q)' = InFlight(q) PROVE Tally(q)'
  <2>1. Tally(q) /\ counted'[q] = counted[q] /\ (Converted(q) => Converted(q)')
    BY <1>1 DEF ConversionsIInv, TallyInv, Converted
  <2> QED
    BY <1>1, <1>4, <1>8, <2>1, TallyKept
<1>9. CASE UNCHANGED <<step, overlapped>>
  <2>1. InFlight(r)' = InFlight(r)
    BY <1>1, <1>2, <1>9 DEF InFlight
  <2> QED
    BY <1>5, <1>6, <1>7, <1>8, <2>1 DEF ConversionsIInv, TallyInv
<1>10. CASE /\ rec[r] # NotFound /\ ~rec[r].converted /\ step' = [step EXCEPT ![h] = "record"]
            /\ overlapped' = IF InFlight(r) # {} THEN overlapped \cup {r} ELSE overlapped
  <2>1. InFlight(r)' = InFlight(r) \cup {h}
    BY <1>1, <1>2, <1>10 DEF InFlight
  <2>2. Tally(r) /\ counted[r] \in Nat
    BY <1>2 DEF ConversionsIInv, TallyInv
  <2>3. r \notin rewritten => counted[r] = 0
    BY <1>10, <2>2 DEF Tally, Converted
  <2>4. r \notin overlapped' => InFlight(r)' = {h}
    BY <1>10, <2>1
  <2>5. Tally(r)'
    BY <1>1, <2>2, <2>3, <2>4 DEF Tally
  <2> QED
    BY <1>5, <1>6, <1>7, <1>8, <2>5 DEF ConversionsIInv, TallyInv
<1> QED
  BY <1>3, <1>9, <1>10

(* The end of RecordConversion: one handler less in flight, and at most    *)
(* one tick more, with the conversion written.                             *)
LEMMA ConvertsStep ==
    ASSUME ConversionsIInv, NEW h \in Handlers, step[h] # "idle",
           NEW record \in Records, record # NotFound, record.converted,
           Converts(h, record), UNCHANGED <<ledger, arg, snap, clock, updates, history>>
    PROVE  ConversionsIInv'
<1>0. PICK r \in Reservations : r = arg[h]
  BY DEF ConversionsIInv, ConversionsTypeOK
<1>1. /\ step' = [step EXCEPT ![h] = "idle"]
      /\ \/ /\ rec' = [rec EXCEPT ![r] = record]
            /\ counted' = [counted EXCEPT ![r] = @ + 1]
         \/ /\ rec' \in {rec, [rec EXCEPT ![r] = record]}
            /\ UNCHANGED counted
      /\ UNCHANGED <<managed, overlapped, rewritten>>
  BY <1>0 DEF Converts, history
<1>2. /\ step \in [Handlers -> {"idle", "record", "append"}] /\ arg \in [Handlers -> Reservations]
      /\ counted \in [Reservations -> Nat]
      /\ rec \in [Reservations -> Records \cup {NotFound}]
  BY DEF ConversionsIInv, ConversionsTypeOK
<1>3. /\ h \in InFlight(r) /\ InFlight(r)' = InFlight(r) \ {h}
      /\ \A q \in Reservations : q # r => InFlight(q)' = InFlight(q)
  BY <1>0, <1>1, HandlerReturns DEF ConversionsIInv
<1>4. r \in managed
  BY <1>0 DEF ConversionsIInv, SeenInv
<1>5. rec' \in {rec, [rec EXCEPT ![r] = record]}
  BY <1>1
<1>6. /\ rec' \in [Reservations -> Records \cup {NotFound}]
      /\ \A q \in Reservations : q # r => rec'[q] = rec[q]
      /\ rec'[r] = rec[r] \/ rec'[r] = record
  BY <1>2, <1>5
<1>7. SeenInv'
  <2>1. step'[h] = "idle" /\ \A g \in Handlers : g # h => step'[g] = step[g]
    BY <1>1, <1>2
  <2> QED
    BY <1>1, <1>4, <1>6, <2>1 DEF ConversionsIInv, SeenInv
<1>8. ASSUME NEW q \in Reservations PROVE Converted(q) => Converted(q)'
  BY <1>6 DEF Converted
<1>9. ASSUME NEW q \in Reservations, counted'[q] = counted[q] PROVE Tally(q)'
  <2>1. Tally(q) /\ InFlight(q)' \subseteq InFlight(q)
    BY <1>3 DEF ConversionsIInv, TallyInv
  <2> QED
    BY <1>1, <1>8, <1>9, <2>1, TallyKept
<1>10. ConversionsTypeOK'
  <2>1. step' \in [Handlers -> {"idle", "record", "append"}] /\ counted' \in [Reservations -> Nat]
    BY <1>1, <1>2
  <2> QED
    BY <1>1, <1>6, <2>1 DEF ConversionsIInv, ConversionsTypeOK
<1>11. CASE rec' = [rec EXCEPT ![r] = record] /\ counted' = [counted EXCEPT ![r] = @ + 1]
  <2>1. Tally(r) /\ counted[r] \in Nat /\ counted'[r] = counted[r] + 1
    BY <1>2, <1>11 DEF ConversionsIInv, TallyInv
  <2>2. Converted(r)'
    BY <1>2, <1>11 DEF Converted
  <2>3. r \notin overlapped => InFlight(r)' = {}
    BY <1>3, <2>1 DEF Tally
  <2>4. InFlight(r)' \subseteq InFlight(r) /\ InFlight(r) # {}
    BY <1>3
  <2>5. Tally(r)'
    BY <1>1, <1>4, <2>1, <2>2, <2>3, <2>4 DEF Tally
  <2>6. \A q \in Reservations : q # r => counted'[q] = counted[q]
    BY <1>2, <1>11
  <2> QED
    BY <1>7, <1>9, <1>10, <2>5, <2>6 DEF ConversionsIInv, TallyInv
<1>12. CASE UNCHANGED counted
  BY <1>7, <1>9, <1>10, <1>12 DEF ConversionsIInv, TallyInv
<1> QED
  BY <1>1, <1>11, <1>12

(* RecordConversion of either store.                                       *)
LEMMA RecordStep ==
    ASSUME ConversionsIInv, NEW h \in Handlers,
           RecordConversionMongo(h) \/ RecordConversionAppend(h)
    PROVE  ConversionsIInv'
<1>1. CASE RecordConversionMongo(h)
  <2> DEFINE old == rec[arg[h]]
             record == [old EXCEPT !.status = "confirmed", !.converted = TRUE]
  <2>1. /\ step[h] # "idle" /\ old # NotFound /\ Converts(h, record)
        /\ UNCHANGED <<ledger, arg, snap, clock, updates, history>>
    BY <1>1 DEF RecordConversionMongo
  <2>2. old \in Records
    BY <2>1 DEF ConversionsIInv, ConversionsTypeOK
  <2>3. record \in Records /\ record # NotFound /\ record.converted
    BY <2>2, ConvertedRecord
  <2> HIDE DEF record
  <2> QED
    BY <2>1, <2>3, ConvertsStep
<1>2. CASE RecordConversionAppend(h)
  <2> DEFINE record == [snap[h] EXCEPT !.status = "confirmed", !.converted = TRUE]
  <2>1. /\ step[h] = "append" /\ Converts(h, record)
        /\ UNCHANGED <<ledger, arg, snap, clock, updates, history>>
    BY <1>2 DEF RecordConversionAppend
  <2>2. snap[h] \in Records
    BY <2>1 DEF ConversionsIInv, ConversionsTypeOK, SeenInv
  <2>3. record \in Records /\ record # NotFound /\ record.converted
    BY <2>2, ConvertedRecord
  <2> HIDE DEF record
  <2> QED
    BY <2>1, <2>3, ConvertsStep
<1> QED
  BY <1>1, <1>2

(* The scan of the file store.                                             *)
LEMMA ScanStep ==
    ASSUME ConversionsIInv, NEW h \in Handlers, RecordConversionScan(h)
    PROVE  ConversionsIInv'
<1>1. /\ ledger = "file" /\ step[h] = "record"
      /\ snap' = [snap EXCEPT ![h] = rec[arg[h]]]
      /\ UNCHANGED <<ledger, rec, arg, clock, updates, counted, history>>
      /\ \/ rec[arg[h]] = NotFound /\ step' = [step EXCEPT ![h] = "idle"]
         \/ rec[arg[h]] # NotFound /\ step' = [step EXCEPT ![h] = "append"]
  BY DEF RecordConversionScan, GetManaged
<1>2. /\ step \in [Handlers -> {"idle", "record", "append"}] /\ arg \in [Handlers -> Reservations]
      /\ rec \in [Reservations -> Records \cup {NotFound}]
      /\ snap \in [Handlers -> Records \cup {NotFound}]
  BY DEF ConversionsIInv, ConversionsTypeOK
<1>3. /\ step' \in [Handlers -> {"idle", "record", "append"}]
      /\ snap' \in [Handlers -> Records \cup {NotFound}]
  BY <1>1, <1>2
<1>4. ConversionsTypeOK'
  BY <1>1, <1>3 DEF ConversionsIInv, ConversionsTypeOK, history
<1>5. SeenInv'
  <2>1. \A g \in Handlers : g # h => step'[g] = step[g] /\ snap'[g] = snap[g]
    BY <1>1, <1>2
  <2>2. snap'[h] = rec[arg[h]] /\ (step'[h] = "append" => rec[arg[h]] # NotFound)
    BY <1>1, <1>2
  <2> QED
    BY <1>1, <2>1, <2>2 DEF ConversionsIInv, SeenInv, history
<1>6. ASSUME NEW r \in Reservations PROVE Tally(r)'
  <2>1. /\ Tally(r) /\ counted'[r] = counted[r] /\ (Converted(r) => Converted(r)')
        /\ UNCHANGED <<managed, overlapped, rewritten>>
    BY <1>1 DEF ConversionsIInv, TallyInv, Converted, history
  <2>2. InFlight(r)' \subseteq InFlight(r)
    BY <1>1, <1>2 DEF InFlight
  <2> QED
    BY <2>1, <2>2, TallyKept
<1> QED
  BY <1>4, <1>5, <1>6 DEF ConversionsIInv, TallyInv

(* The reset of the file store forgets records and no count.               *)
LEMMA ConversionsResetStep ==
    ASSUME ConversionsIInv, ConversionsReset
    PROVE  ConversionsIInv'
<1>1. /\ rec' = [r \in Reservations |-> NotFound]
      /\ rewritten' = rewritten \cup {r \in Reservations : rec[r] # NotFound}
      /\ UNCHANGED <<ledger, step, arg, snap, clock, updates, counted, managed, overlapped>>
  BY DEF ConversionsReset
<1>2. ConversionsTypeOK'
  BY <1>1 DEF ConversionsIInv, ConversionsTypeOK
<1>3. SeenInv'
  BY <1>1 DEF ConversionsIInv, SeenInv
<1>4. ASSUME NEW r \in Reservations PROVE Tally(r)'
  <2>1. InFlight(r)' = InFlight(r)
    BY <1>1 DEF InFlight
  <2>2. Tally(r) /\ (Converted(r) => r \in rewritten')
    BY <1>1 DEF ConversionsIInv, TallyInv, Converted
  <2> QED
    BY <1>1, <2>1, <2>2, TallyKept
<1> QED
  BY <1>2, <1>3, <1>4 DEF ConversionsIInv, TallyInv

(* No webhook has been handled and no store holds a record.                *)
LEMMA ConversionsInitEstablishes == ConversionsInit => ConversionsIInv
<1> SUFFICES ASSUME ConversionsInit PROVE ConversionsIInv
  OBVIOUS
<1>1. ConversionsTypeOK
  BY ConversionsAssumption DEF ConversionsInit, ConversionsTypeOK
<1>2. SeenInv
  BY DEF ConversionsInit, SeenInv
<1>3. ASSUME NEW r \in Reservations PROVE Tally(r)
  <2>1. InFlight(r) = {} /\ counted[r] = 0
    BY DEF ConversionsInit, InFlight
  <2> QED
    BY <2>1 DEF Tally
<1> QED
  BY <1>1, <1>2, <1>3 DEF ConversionsIInv, TallyInv

-----------------------------------------------------------------------------
(* Every part of the invariant holds through concurrent webhooks,          *)
(* auto-replies, failing writes and resets.                                *)
THEOREM ConversionsInvariance == ConversionsSpec => []ConversionsIInv
<1>1. ConversionsInit => ConversionsIInv
  BY ConversionsInitEstablishes
<1>2. ConversionsIInv /\ [ConversionsNext]_conversionsVars => ConversionsIInv'
  <2> SUFFICES ASSUME ConversionsIInv, [ConversionsNext]_conversionsVars PROVE ConversionsIInv'
    OBVIOUS
  <2>1. CASE ConversionsNext
    BY <2>1, MarkManagedStep, ReservationUpdatedStep, RecordStep, ScanStep,
       ConversionsResetStep DEF ConversionsNext
  <2>2. CASE UNCHANGED conversionsVars
    BY <2>2 DEF conversionsVars, ConversionsIInv, ConversionsTypeOK, SeenInv, TallyInv,
                Tally, InFlight, Converted, history
  <2> QED
    BY <2>1, <2>2
<1> QED
  BY <1>1, <1>2, PTL DEF ConversionsSpec

(* The counter of ReservationUpdated ticks only for managed reservations,  *)
(* and a second time only for one whose handlers overlapped or whose       *)
(* record the file store replaced.                                         *)
THEOREM CountsAreBounded == ConversionsSpec => []CountInv
<1>1. ConversionsIInv => CountInv
  BY DEF ConversionsIInv, TallyInv, Tally, CountInv, CountedWereManaged, CountedOnceAlone
<1> QED
  BY <1>1, ConversionsInvariance, PTL

(* What was counted stays converted: on Mongo for ever, since MarkManaged  *)
(* keeps converted_at, in the file store until the record is replaced.     *)
THEOREM ConversionsStick == ConversionsSpec => []CountedStayConverted
<1>1. ConversionsIInv => CountedStayConverted
  BY DEF ConversionsIInv, TallyInv, Tally, Converted, CountedStayConverted
<1> QED
  BY <1>1, ConversionsInvariance, PTL
=============================================================================
