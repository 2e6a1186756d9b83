------------------------- MODULE StoreBundleProofs -------------------------
(***************************************************************************)
(* Theorems on StoreBundle, for any posts, runs, faults, resets and        *)
(* restarts: a claim that is complete in Redis has a note or a durable     *)
(* escalation behind it, unless a failing write kept that off the disk,    *)
(* also when shutdown closes the stores under a run; a Reset that returned *)
(* nil has forgotten every run that was over when it began; a post claimed *)
(* after a Reset starts clean, but for what that Reset has still to do; a  *)
(* torn line costs at most one escalation.                                 *)
(***************************************************************************)
EXTENDS StoreBundle, FiniteSetTheorems, SequenceTheorems, TLAPS

Stores == Logs \cup {"mongo", "redis"}

(* Bundle.closers is the beginning of the order of Build; a process has    *)
(* open what it has to close, unless the Reset of a file failed; a Reset   *)
(* runs only in a process that is up, and a run only in one that is up or  *)
(* closing.                                                                *)
Intact == faults = 0 \/ resets = 0 \/ durable = "mongo"

HandleInv ==
    /\ closers \in Seq(Stores) /\ Len(closers) <= Len(BuildOrder)
    /\ \A i \in 1..Len(closers) : closers[i] = BuildOrder[i]
    /\ phase = "building" \/ Intact => open = ToSet(closers)
    /\ phase = "up" => Len(closers) = Len(BuildOrder)
    /\ phase = "down" => closers = <<>> /\ open = {}
    /\ wiping # <<>> => phase = "up" /\ resets > 0
    /\ phase \in {"building", "down"} => \A r \in Runs : pc[r] \in Over \cup {"idle"}

(* What is left of a Reset: an end of its list, or on Mongo, where the     *)
(* other stores are skipped, the claims.                                   *)
Rest(w) ==
    /\ w \in Seq(ToSet(ResetOrder)) /\ Len(w) <= 8
    /\ \A i \in 1..Len(w) : w[i] = ResetOrder[8 - Len(w) + i]

Pending(w) == IF durable = "file" THEN Rest(w) ELSE w \in {<<>>, <<"idempotency">>}

WipeInv == Pending(wiping)

(* What the records say of the run that wrote them.                        *)
RunAt(r) ==
    /\ pc[r] \notin Over \cup {"idle"} => post[r] \in Posts
    /\ outcome[r] = "sent" => pc[r] \in {"manage", "remember", "complete", "done", "dead"}
    /\ r \in log["escalations"] \cup lost =>
          pc[r] \in {"insert", "remember", "complete", "done", "dead"}
    /\ pc[r] = "insert" => durable = "file"

RunInv == \A r \in Runs : RunAt(r)

(* Run r has left nothing in place s: in the ring, in a log, or in the     *)
(* records of the memory.                                                  *)
TurnPlaces == TurnLogs \cup {"ring"}
Places == Logs \cup {"ring"}
Gone(r, s) ==
    IF s = "ring" THEN r \notin ToSet(ring)
                  ELSE r \notin log[s] /\ (s = "memory" => r \notin known)

(* A Reset of the files has forgotten the runs that were over when it      *)
(* began in every place it is done with, unless it failed there; so has    *)
(* the last one that dropped the claims, which is done with what the turns *)
(* write by then, and each one that returned nil.                          *)
ForgetInv ==
    /\ ended \cup cleared \cup wiped \subseteq Ended
    /\ durable = "file" =>
         /\ \A r \in wiped, s \in Places : Gone(r, s)
         /\ \A r \in cleared, s \in Places \ kept :
               s \in TurnPlaces \/ s \notin ToSet(wiping) => Gone(r, s)
         /\ wiping # <<>> =>
              \A r \in ended, s \in Places \ ToSet(wiping) : Gone(r, s) \/ (failed /\ s \in kept)

(* Runs on the way into the ring, or in it, whose line is not readable.    *)
Unread == {r \in Runs : (pc[r] = "insert" \/ r \in ToSet(ring)) /\ r \notin log["escalations"]}

(* Each of them, and the torn end of the file, goes back to one torn       *)
(* write.                                                                  *)
UnreadInv ==
    durable = "file" /\ resets = 0 =>
        /\ IsFiniteSet(Unread)
        /\ Cardinality(Unread) + (IF "escalations" \in torn THEN 1 ELSE 0) <= tears

(* The note of run r, its escalation on disk, or the failing write that    *)
(* kept that off.                                                          *)
OnRecord(r) == outcome[r] = "sent" \/ r \in log["escalations"] \/ (r \in lost /\ faults > 0)

(* A run that gets to Complete without any has found its store closed, and *)
(* then Redis was closed before it.                                        *)
RecordInv ==
    /\ faults = 0 => torn = {}
    /\ backend = "redis" /\ (durable = "file" => resets = 0) =>
         \A r \in Runs : pc[r] \in {"insert", "manage", "remember", "complete"} =>
            OnRecord(r) \/ "redis" \notin open

IInv ==
    /\ TypeOK /\ HandleInv /\ WipeInv /\ RunInv /\ ForgetInv /\ UnreadInv
    /\ EvictedWhenFull /\ RecordInv /\ CompletedHasRecord

-----------------------------------------------------------------------------
(* The order of Build, whatever the configuration: no store twice, Redis   *)
(* last, every log behind some handle.                                     *)
LEMMA OrderFacts ==
    ASSUME TypeOK
    PROVE  /\ BuildOrder \in Seq(Stores) /\ Len(BuildOrder) \in Nat
           /\ \A i, j \in 1..Len(BuildOrder) : BuildOrder[i] = BuildOrder[j] => i = j
           /\ \A l \in Logs : Handle(l) \in ToSet(BuildOrder) /\ Handle(l) # "redis"
           /\ backend = "redis" => BuildOrder[Len(BuildOrder)] = "redis"
           /\ durable = "file" => \A l \in Logs : Handle(l) = l
<1>1. durable \in {"file", "mongo"} /\ backend \in {"memstore", "redis"}
  BY StoreBundleAssumption DEF TypeOK
<1>2. CASE durable = "mongo" /\ backend = "redis"
  <2>1. BuildOrder = Append(<<"mongo">>, "redis")
    BY <1>2 DEF BuildOrder, DurableOrder, FileOrder
  <2>2. <<"mongo">> \in Seq(Stores) /\ "redis" \in Stores
    BY DEF Stores, Logs, TurnLogs
  <2>3. BuildOrder \in Seq(Stores) /\ Len(BuildOrder) = 2
    BY <2>1, <2>2
  <2>4. /\ BuildOrder[1] = "mongo" /\ BuildOrder[2] = "redis"
    BY <2>1, <2>2
  <2>5. \A m, n \in 1..Len(BuildOrder) : BuildOrder[m] = BuildOrder[n] => m = n
    BY <2>3, <2>4
  <2>6. \A l \in Logs : Handle(l) \in ToSet(BuildOrder) /\ Handle(l) # "redis"
    BY <1>2, <2>3, <2>4 DEF Logs, TurnLogs, Handle, ToSet
  <2> QED
    BY <1>2, <2>3, <2>4, <2>5, <2>6 DEF Handle
<1>3. CASE durable = "mongo" /\ backend = "memstore"
  <2>1. BuildOrder = <<"mongo">>
    BY <1>3 DEF BuildOrder, DurableOrder, FileOrder
  <2>2. <<"mongo">> \in Seq(Stores) /\ "redis" \in Stores
    BY DEF Stores, Logs, TurnLogs
  <2>3. BuildOrder \in Seq(Stores) /\ Len(BuildOrder) = 1
    BY <2>1, <2>2
  <2>4. /\ BuildOrder[1] = "mongo"
    BY <2>1, <2>2
  <2>5. \A m, n \in 1..Len(BuildOrder) : BuildOrder[m] = BuildOrder[n] => m = n
    BY <2>3, <2>4
  <2>6. \A l \in Logs : Handle(l) \in ToSet(BuildOrder) /\ Handle(l) # "redis"
    BY <1>3, <2>3, <2>4 DEF Logs, TurnLogs, Handle, ToSet
  <2> QED
    BY <1>3, <2>3, <2>4, <2>5, <2>6 DEF Handle
<1>4. CASE durable = "file" /\ backend = "redis"
  <2>1. BuildOrder = Append(FileOrder, "redis")
    BY <1>4 DEF BuildOrder, DurableOrder
  <2>2. /\ FileOrder \in Seq(Stores) /\ "redis" \in Stores /\ Len(FileOrder) = 6
        /\ FileOrder[1] = "webhooks" /\ FileOrder[2] = "classifications"
        /\ FileOrder[3] = "replies" /\ FileOrder[4] = "escalations"
        /\ FileOrder[5] = "memory" /\ FileOrder[6] = "conversions"
    BY DEF FileOrder, Stores, Logs, TurnLogs
  <2>0. /\ BuildOrder \in Seq(Stores) /\ Len(BuildOrder) = Len(FileOrder) + 1
        /\ \A i \in 1..Len(FileOrder) : BuildOrder[i] = FileOrder[i]
        /\ BuildOrder[Len(FileOrder) + 1] = "redis"
    <3>1. ASSUME NEW q \in Seq(Stores), NEW x \in Stores
          PROVE  /\ Append(q, x) \in Seq(Stores) /\ Len(Append(q, x)) = Len(q) + 1
                 /\ \A i \in 1..Len(q) : Append(q, x)[i] = q[i]
                 /\ Append(q, x)[Len(q) + 1] = x
      OBVIOUS
    <3> QED
      BY <2>1, <2>2, <3>1, Zenon
  <2>3. BuildOrder \in Seq(Stores) /\ Len(BuildOrder) = 7
    BY <2>0, <2>2
  <2>4. /\ BuildOrder[1] = "webhooks" /\ BuildOrder[2] = "classifications" /\ BuildOrder[3] = "replies"
        /\ BuildOrder[4] = "escalations" /\ BuildOrder[5] = "memory" /\ BuildOrder[6] = "conversions"
        /\ BuildOrder[7] = "redis"
    BY <2>0, <2>2
  <2>5. \A m, n \in 1..Len(BuildOrder) : BuildOrder[m] = BuildOrder[n] => m = n
    BY <2>3, <2>4
  <2>6. \A l \in Logs : Handle(l) \in ToSet(BuildOrder) /\ Handle(l) # "redis"
    BY <1>4, <2>3, <2>4 DEF Logs, TurnLogs, Handle, ToSet
  <2> QED
    BY <1>4, <2>3, <2>4, <2>5, <2>6 DEF Handle
<1>5. CASE durable = "file" /\ backend = "memstore"
  <2>1. BuildOrder = FileOrder
    BY <1>5 DEF BuildOrder, DurableOrder
  <2>2. /\ FileOrder \in Seq(Stores) /\ "redis" \in Stores /\ Len(FileOrder) = 6
        /\ FileOrder[1] = "webhooks" /\ FileOrder[2] = "classifications"
        /\ FileOrder[3] = "replies" /\ FileOrder[4] = "escalations"
        /\ FileOrder[5] = "memory" /\ FileOrder[6] = "conversions"
    BY DEF FileOrder, Stores, Logs, TurnLogs
  <2>3. BuildOrder \in Seq(Stores) /\ Len(BuildOrder) = 6
    BY <2>1, <2>2
  <2>4. /\ BuildOrder[1] = "webhooks" /\ BuildOrder[2] = "classifications" /\ BuildOrder[3] = "replies"
        /\ BuildOrder[4] = "escalations" /\ BuildOrder[5] = "memory" /\ BuildOrder[6] = "conversions"
    BY <2>1, <2>2
  <2>5. \A m, n \in 1..Len(BuildOrder) : BuildOrder[m] = BuildOrder[n] => m = n
    BY <2>3, <2>4
  <2>6. \A l \in Logs : Handle(l) \in ToSet(BuildOrder) /\ Handle(l) # "redis"
    BY <1>5, <2>3, <2>4 DEF Logs, TurnLogs, Handle, ToSet
  <2> QED
    BY <1>5, <2>3, <2>4, <2>5, <2>6 DEF Handle
<1> QED
  BY <1>1, <1>2, <1>3, <1>4, <1>5

(* Nothing is done to the configuration once the process has started.      *)
LEMMA ConfigFixed ==
    ASSUME TypeOK, UNCHANGED config
    PROVE  /\ durable' \in Durables /\ backend' \in Backends
           /\ BuildOrder' = BuildOrder /\ \A l \in Logs : Handle(l)' = Handle(l)
  BY DEF TypeOK, config, BuildOrder, DurableOrder, Handle

(* With a ring no larger than the listing, what is listed is the ring.     *)
RingListed ==
    ring \in Seq(Runs) /\ Len(ring) <= Capacity /\ durable = "file" =>
        \A r \in Runs : Listed(r) <=> r \in ToSet(ring)

(* List(500) of the handler returns every entry of the ring.              *)
LEMMA ListedIsRing == RingListed
<1> SUFFICES ASSUME ring \in Seq(Runs), Len(ring) <= Capacity, durable = "file", NEW r \in Runs
             PROVE  Listed(r) <=> r \in ToSet(ring)
  BY DEF RingListed
<1>a. Capacity \in 1..500
  BY StoreBundleAssumption
<1>b. Len(ring) \in Nat
  OBVIOUS
<1>1. Len(ring) \in Nat /\ Len(ring) <= 500
  BY <1>a, <1>b
<1>2. List(500) = [i \in 1..Len(ring) |-> ring[Len(ring) + 1 - i]]
  <2> DEFINE n == IF 500 <= 0 \/ 500 > Len(ring) THEN Len(ring) ELSE 500
  <2>1. List(500) = [i \in 1..n |-> ring[Len(ring) + 1 - i]]
    BY Zenon DEF List
  <2>2. n = Len(ring)
    <3>1. CASE Len(ring) = 500
      BY <3>1
    <3>2. CASE Len(ring) # 500
      <4>1. \A k \in Nat : k <= 500 /\ k # 500 => 500 > k
        OBVIOUS
      <4>2. 500 > Len(ring)
        BY <1>1, <3>2, <4>1
      <4> QED
        BY <4>2
    <3> QED
      BY <3>1, <3>2
  <2> HIDE DEF n
  <2> QED
    BY <2>1, <2>2, Zenon
<1>3. List(500) \in Seq(Runs) /\ Len(List(500)) = Len(ring)
  <2>1. \A i \in 1..Len(ring) : ring[Len(ring) + 1 - i] \in Runs
    BY <1>1
  <2> QED
    <3>1. List(500) \in [1..Len(ring) -> Runs]
      BY <1>2, <2>1
    <3>2. List(500) \in Seq(Runs)
      BY <1>1, <3>1, SeqDef
    <3> QED
      BY <1>1, <3>1, <3>2, LenProperties
<1>4. ASSUME NEW i \in 1..Len(ring)
      PROVE  Len(ring) + 1 - i \in 1..Len(ring) /\ Len(ring) + 1 - (Len(ring) + 1 - i) = i
  BY <1>1
<1>5. Listed(r) <=> \E i \in 1..Len(ring) : ring[Len(ring) + 1 - i] = r
  BY <1>1, <1>2, <1>3 DEF Listed, Contains
<1>6. r \in ToSet(ring) <=> \E i \in 1..Len(ring) : ring[i] = r
  BY <1>1 DEF ToSet
<1> QED
  BY <1>4, <1>5, <1>6

(* The same after a step.                                                  *)
LEMMA ListedIsRingNext == RingListed'
  BY ListedIsRing, PTL

-----------------------------------------------------------------------------
(* An empty list or ring has no elements.                                  *)
LEMMA NoElements == ToSet(<<>>) = {}
  BY DEF ToSet

(* Bundle.add, and the insert into the ring.                               *)
LEMMA AppendElements ==
    ASSUME NEW S, NEW s \in Seq(S), NEW x \in S
    PROVE  /\ Append(s, x) \in Seq(S) /\ Len(s) \in Nat /\ Len(Append(s, x)) = Len(s) + 1
           /\ ToSet(Append(s, x)) = ToSet(s) \cup {x}
           /\ \A i \in 1..Len(s) : Append(s, x)[i] = s[i]
           /\ Append(s, x)[Len(s) + 1] = x
<1>1. /\ Append(s, x) \in Seq(S) /\ Len(s) \in Nat /\ Len(Append(s, x)) = Len(s) + 1
      /\ \A i \in 1..Len(s) : Append(s, x)[i] = s[i]
      /\ Append(s, x)[Len(s) + 1] = x
  OBVIOUS
<1>2. ToSet(s) = {s[i] : i \in 1..Len(s)}
  BY DEF ToSet
<1>3. ToSet(Append(s, x)) = {Append(s, x)[i] : i \in 1..(Len(s) + 1)}
  BY <1>1 DEF ToSet
<1>4. 1..(Len(s) + 1) = 1..Len(s) \cup {Len(s) + 1}
  BY <1>1
<1> QED
  BY <1>1, <1>2, <1>3, <1>4

(* LogClosers takes the last store off its list.                           *)
LEMMA FrontElements ==
    ASSUME NEW S, NEW s \in Seq(S), s # <<>>
    PROVE  /\ Front(s) \in Seq(S) /\ Len(s) \in Nat \ {0} /\ Len(Front(s)) = Len(s) - 1
           /\ \A i \in 1..Len(Front(s)) : i \in 1..Len(s) /\ Front(s)[i] = s[i]
           /\ ToSet(Front(s)) \subseteq ToSet(s)
           /\ (\A i, j \in 1..Len(s) : s[i] = s[j] => i = j)
                 => ToSet(Front(s)) = ToSet(s) \ {Last(s)}
<1>1. Len(s) \in Nat \ {0} /\ Front(s) = SubSeq(s, 1, Len(s) - 1)
  BY EmptySeq DEF Front
<1>2. /\ Front(s) \in Seq(S) /\ Len(Front(s)) = Len(s) - 1
      /\ \A i \in 1..(Len(s) - 1) : i \in 1..Len(s) /\ Front(s)[i] = s[i]
  <2>1. Len(s) - 1 \in Int /\ 1 \in Int /\ \A i \in 1..(Len(s) - 1) : i \in 1..Len(s) /\ s[i] \in S
    BY <1>1
  <2>2. /\ SubSeq(s, 1, Len(s) - 1) \in Seq(S)
        /\ Len(SubSeq(s, 1, Len(s) - 1)) = IF 1 <= Len(s) - 1 THEN Len(s) - 1 - 1 + 1 ELSE 0
        /\ \A i \in 1..(Len(s) - 1 - 1 + 1) : SubSeq(s, 1, Len(s) - 1)[i] = s[1 + i - 1]
    BY <2>1, SubSeqProperties
  <2>3. Len(s) - 1 - 1 + 1 = Len(s) - 1 /\ \A i \in 1..(Len(s) - 1) : 1 + i - 1 = i
    BY <1>1
  <2>4. Len(Front(s)) = Len(s) - 1
    <3>1. \A n \in Nat \ {0} : (IF 1 <= n - 1 THEN n - 1 - 1 + 1 ELSE 0) = n - 1
      OBVIOUS
    <3> QED
      BY <1>1, <2>2, <3>1
  <2>5. \A i \in 1..(Len(s) - 1) : Front(s)[i] = s[i]
    BY <1>1, <2>2, <2>3
  <2> QED
    BY <1>1, <2>1, <2>2, <2>4, <2>5
<1>3. ToSet(s) = {s[i] : i \in 1..Len(s)}
  BY DEF ToSet
<1>4. ToSet(Front(s)) = {s[i] : i \in 1..(Len(s) - 1)}
  <2>1. ToSet(Front(s)) = {Front(s)[i] : i \in 1..(Len(s) - 1)}
    BY <1>2 DEF ToSet
  <2>2. \A i \in 1..(Len(s) - 1) : Front(s)[i] = s[i]
    BY <1>2
  <2> QED
    BY <2>1, <2>2
<1>5. \A i \in 1..Len(s) : i \in 1..(Len(s) - 1) \/ i = Len(s)
  BY <1>1
<1>6. Len(s) \in 1..Len(s) /\ \A i \in 1..(Len(s) - 1) : i # Len(s)
  BY <1>1
<1>7. ToSet(Front(s)) \subseteq ToSet(s)
  BY <1>2, <1>3, <1>4
<1>8. ASSUME \A i, j \in 1..Len(s) : s[i] = s[j] => i = j
      PROVE  ToSet(Front(s)) = ToSet(s) \ {Last(s)}
  <2>1. \A i \in 1..(Len(s) - 1) : s[i] # s[Len(s)]
    BY <1>2, <1>6, <1>8
  <2>2. Last(s) = s[Len(s)]
    BY DEF Last
  <2> QED
    BY <1>2, <1>3, <1>4, <1>5, <2>1, <2>2
<1> QED
  BY <1>1, <1>2, <1>7, <1>8

(* A full ring drops its oldest entry.                                     *)
LEMMA TailElements ==
    ASSUME NEW S, NEW s \in Seq(S), s # <<>>
    PROVE  /\ Tail(s) \in Seq(S) /\ Len(s) \in Nat \ {0} /\ Len(Tail(s)) = Len(s) - 1
           /\ ToSet(Tail(s)) \subseteq ToSet(s)
<1>1. Len(s) \in Nat \ {0}
  BY EmptySeq
<1>2. /\ Tail(s) \in Seq(S) /\ Len(Tail(s)) = Len(s) - 1
      /\ \A i \in 1..(Len(s) - 1) : i + 1 \in 1..Len(s) /\ Tail(s)[i] = s[i + 1]
  BY <1>1
<1> QED
  BY <1>1, <1>2 DEF ToSet

-----------------------------------------------------------------------------
(* TypeOK in the parts that the steps change together.                     *)
HandlesOK ==
    /\ phase \in {"building", "up", "closing", "down"}
    /\ ToSet(closers) \subseteq ToSet(BuildOrder)
    /\ open \subseteq ToSet(BuildOrder)

DataOK ==
    /\ log \in [Logs -> SUBSET Runs]
    /\ torn \in SUBSET Logs
    /\ ring \in Seq(Runs) /\ Len(ring) <= Capacity
    /\ known \in SUBSET Runs
    /\ idem \in [Posts -> {"new", "claimed", "complete"}]

TurnsOK ==
    /\ post \in [Runs -> Posts \cup {NoPost}]
    /\ pc \in [Runs -> Over \cup {"idle", "claim", "classify", "reply", "escalate",
                                  "manage", "insert", "remember", "complete"}]
    /\ outcome \in [Runs -> {"none", "sent", "escalated"}]

ResetOK ==
    /\ ToSet(wiping) \subseteq ToSet(ResetOrder)
    /\ failed \in BOOLEAN
    /\ kept \subseteq ToSet(ResetOrder)
    /\ ended \subseteq Runs /\ cleared \subseteq Runs /\ wiped \subseteq Runs
    /\ resets \in 0..MaxResets

CountsOK ==
    /\ faults \in 0..MaxFaults /\ tears \in 0..faults /\ restarts \in 0..MaxRestarts
    /\ lost \subseteq Runs

(* They are all of it.                                                     *)
LEMMA TypeParts ==
    TypeOK <=> /\ durable \in Durables /\ backend \in Backends
               /\ HandlesOK /\ DataOK /\ TurnsOK /\ ResetOK /\ CountsOK
  BY DEF TypeOK, HandlesOK, DataOK, TurnsOK, ResetOK, CountsOK

(* The same after a step.                                                  *)
LEMMA TypePartsNext ==
    TypeOK' <=> /\ durable' \in Durables /\ backend' \in Backends
                /\ HandlesOK' /\ DataOK' /\ TurnsOK' /\ ResetOK' /\ CountsOK'
  BY DEF TypeOK, HandlesOK, DataOK, TurnsOK, ResetOK, CountsOK

(* Every part is kept by a step that leaves its variables alone.           *)
LEMMA PartsKept ==
    /\ DataOK /\ UNCHANGED data => DataOK'
    /\ TurnsOK /\ UNCHANGED turns => TurnsOK'
    /\ ResetOK /\ UNCHANGED reset => ResetOK'
    /\ TypeOK /\ HandlesOK /\ UNCHANGED <<config, handles>> => HandlesOK'
    /\ CountsOK /\ UNCHANGED <<lost, faults, tears, restarts>> => CountsOK'
<1>1. DataOK /\ UNCHANGED data => DataOK'
  BY DEF data, DataOK
<1>2. TurnsOK /\ UNCHANGED turns => TurnsOK'
  BY DEF turns, TurnsOK
<1>3. ResetOK /\ UNCHANGED reset => ResetOK'
  BY DEF reset, ResetOK
<1>4. TypeOK /\ HandlesOK /\ UNCHANGED <<config, handles>> => HandlesOK'
  BY ConfigFixed DEF handles, HandlesOK
<1>5. CountsOK /\ UNCHANGED <<lost, faults, tears, restarts>> => CountsOK'
  BY DEF CountsOK
<1> QED
  BY <1>1, <1>2, <1>3, <1>4, <1>5

(* Whether a run is listed depends on the ring and the escalations only.   *)
LEMMA ListedKept ==
    ASSUME UNCHANGED <<durable, ring, log>>, NEW r
    PROVE  Listed(r)' <=> Listed(r)
  BY DEF Listed, List

-----------------------------------------------------------------------------
(* The process is built, shut down or started again.                       *)
HandleStep == BuildStep \/ BuildDone \/ BuildFails \/ ShutdownClose \/ CloseStep \/ Restart

(* It touches handles and counts, and hydrates the memory.                 *)
LEMMA HandleFrame ==
    ASSUME TypeOK, HandleStep
    PROVE  /\ UNCHANGED <<config, log, torn, ring, idem, turns, reset, lost, tears>> /\ CountsOK'
           /\ known' \subseteq known \cup log["memory"] /\ known' \subseteq Runs
           /\ faults' = 0 => faults = 0
           /\ faults > 0 => faults' > 0
           /\ restarts' = 0 => restarts = 0
<1>1. UNCHANGED <<config, log, torn, ring, idem, turns, reset, lost, tears>>
  BY DEF HandleStep, BuildStep, BuildDone, BuildFails, ShutdownClose, CloseStep, Restart, data
<1>2. \/ UNCHANGED <<faults, restarts>>
      \/ faults < MaxFaults /\ faults' = faults + 1 /\ UNCHANGED restarts
      \/ restarts < MaxRestarts /\ restarts' = restarts + 1 /\ UNCHANGED faults
  BY DEF HandleStep, BuildStep, BuildDone, BuildFails, ShutdownClose, CloseStep, Restart, Within
<1>3. /\ faults \in 0..MaxFaults /\ tears \in 0..faults /\ restarts \in 0..MaxRestarts
      /\ MaxFaults \in Nat /\ MaxRestarts \in Nat /\ lost \subseteq Runs
      /\ known \subseteq Runs /\ log["memory"] \subseteq Runs
  BY StoreBundleAssumption DEF TypeOK, Logs, TurnLogs
<1>4. known' \subseteq known \cup log["memory"]
  <2>1. CASE BuildStep
    BY <2>1 DEF BuildStep
  <2> QED
    BY <2>1 DEF HandleStep, BuildDone, BuildFails, ShutdownClose, CloseStep, Restart, data
<1>5. CountsOK'
  BY <1>1, <1>2, <1>3 DEF CountsOK
<1> QED
  BY <1>1, <1>2, <1>3, <1>4, <1>5

(* What HandleInv says of the two lists, apart from the rest of it.        *)
ClosersInv ==
    /\ closers \in Seq(Stores) /\ Len(closers) <= Len(BuildOrder)
    /\ \A i \in 1..Len(closers) : closers[i] = BuildOrder[i]
    /\ phase = "building" \/ Intact => open = ToSet(closers)
    /\ phase = "up" => Len(closers) = Len(BuildOrder)
    /\ phase = "down" => closers = <<>> /\ open = {}

(* Stores are opened in order and closed in reverse.                       *)
LEMMA HandlesStep ==
    ASSUME TypeOK, HandleInv, HandleStep
    PROVE  HandlesOK' /\ ClosersInv'
<1>1. /\ UNCHANGED config /\ BuildOrder' = BuildOrder
      /\ BuildOrder \in Seq(Stores) /\ Len(BuildOrder) \in Nat
      /\ \A i, j \in 1..Len(BuildOrder) : BuildOrder[i] = BuildOrder[j] => i = j
      /\ Intact' => Intact
  <2>1. UNCHANGED <<config, durable, resets>> /\ (faults' = 0 => faults = 0)
    BY HandleFrame DEF config, reset
  <2> QED
    BY <2>1, ConfigFixed, OrderFacts DEF Intact
<1>2. /\ closers \in Seq(Stores) /\ Len(closers) \in Nat /\ Len(closers) <= Len(BuildOrder)
      /\ \A i \in 1..Len(closers) : closers[i] = BuildOrder[i]
      /\ phase \in {"building", "up", "closing", "down"}
      /\ ToSet(closers) \subseteq ToSet(BuildOrder) /\ open \subseteq ToSet(BuildOrder)
  BY DEF HandleInv, TypeOK
<1>3. CASE BuildStep
  <2> DEFINE n == Len(closers) + 1
             s == BuildOrder[n]
  <2>1. /\ phase = "building" /\ phase' = phase /\ Len(closers) < Len(BuildOrder)
        /\ closers' = Append(closers, s) /\ open' = open \cup {s}
    BY <1>3 DEF BuildStep
  <2>2. n \in 1..Len(BuildOrder) /\ s \in Stores /\ s \in ToSet(BuildOrder)
    BY <1>1, <1>2, <2>1 DEF ToSet
  <2> HIDE DEF s
  <2>3. /\ closers' \in Seq(Stores) /\ Len(closers') = n /\ closers'[n] = s
        /\ ToSet(closers') = ToSet(closers) \cup {s}
        /\ \A i \in 1..Len(closers) : closers'[i] = closers[i]
    BY <1>2, <2>1, <2>2, AppendElements
  <2>4. \A i \in 1..n : i \in 1..Len(closers) \/ i = n
    BY <1>2
  <2>5. \A i \in 1..n : closers'[i] = BuildOrder[i]
    BY <1>2, <2>3, <2>4 DEF s
  <2>6. open = ToSet(closers)
    BY <2>1 DEF HandleInv
  <2>7. n <= Len(BuildOrder)
    BY <2>2, <1>1
  <2> QED
    BY <1>1, <1>2, <2>1, <2>2, <2>3, <2>5, <2>6, <2>7 DEF HandlesOK, ClosersInv
<1>4. CASE BuildDone
  <2>1. /\ phase = "building" /\ phase' = "up" /\ Len(closers) = Len(BuildOrder)
        /\ UNCHANGED <<closers, open>>
    BY <1>4 DEF BuildDone
  <2>2. open = ToSet(closers)
    BY <2>1 DEF HandleInv
  <2> QED
    BY <1>1, <1>2, <2>1, <2>2 DEF HandlesOK, ClosersInv
<1>5. CASE BuildFails
  <2>1. /\ phase = "building" /\ phase' = "down" /\ open' = open \ ToSet(closers)
        /\ closers' = <<>>
    BY <1>5 DEF BuildFails
  <2>2. open' = {}
    BY <2>1 DEF HandleInv
  <2>3. <<>> \in Seq(Stores) /\ Len(<<>>) = 0 /\ ToSet(<<>>) = {} /\ 0 <= Len(BuildOrder)
    BY <1>1, NoElements
  <2> QED
    BY <1>1, <2>1, <2>2, <2>3 DEF HandlesOK, ClosersInv
<1>6. CASE ShutdownClose
  <2>1. phase = "up" /\ phase' = "closing" /\ UNCHANGED <<closers, open>>
    BY <1>6 DEF ShutdownClose
  <2> QED
    BY <1>1, <1>2, <2>1 DEF HandleInv, HandlesOK, ClosersInv
<1>7. CASE CloseStep
  <2>1. /\ phase = "closing" /\ phase' = phase /\ closers # <<>>
        /\ open' = open \ {Last(closers)} /\ closers' = Front(closers)
    BY <1>7 DEF CloseStep
  <2>2. \A i, j \in 1..Len(closers) : closers[i] = closers[j] => i = j
    <3>1. \A i \in 1..Len(closers) : i \in 1..Len(BuildOrder)
      BY <1>1, <1>2
    <3> QED
      BY <1>1, <1>2, <3>1
  <2>3. /\ closers' \in Seq(Stores) /\ Len(closers') = Len(closers) - 1
        /\ \A i \in 1..Len(closers') : closers'[i] = BuildOrder[i]
        /\ ToSet(closers') = ToSet(closers) \ {Last(closers)}
    BY <1>2, <2>1, <2>2, FrontElements
  <2>4. Len(closers') <= Len(BuildOrder)
    BY <1>1, <1>2, <2>3
  <2>5. Intact => open = ToSet(closers)
    BY DEF HandleInv
  <2> QED
    BY <1>1, <1>2, <2>1, <2>3, <2>4, <2>5 DEF HandlesOK, ClosersInv
<1>8. CASE Restart
  <2>1. phase = "down" /\ phase' = "building" /\ UNCHANGED <<closers, open>>
    BY <1>8 DEF Restart
  <2>2. open = ToSet(closers)
    BY <2>1, NoElements DEF HandleInv
  <2> QED
    BY <1>1, <1>2, <2>1, <2>2 DEF HandlesOK, ClosersInv
<1> QED
  BY <1>3, <1>4, <1>5, <1>6, <1>7, <1>8 DEF HandleStep

(* A process that is built, closed or restarted under the records of its   *)
(* runs keeps what is known of them: a store is opened only where no run   *)
(* is under way, and Redis is closed first.                                *)
LEMMA HandleStepKeeps ==
    ASSUME IInv, HandleStep
    PROVE  IInv'
<1>1. /\ UNCHANGED <<config, log, torn, ring, idem, turns, reset, lost, tears>> /\ CountsOK'
      /\ known' \subseteq known \cup log["memory"] /\ known' \subseteq Runs
      /\ faults' = 0 => faults = 0
      /\ faults > 0 => faults' > 0
      /\ restarts' = 0 => restarts = 0
  BY HandleFrame DEF IInv
<1>2. /\ UNCHANGED <<durable, backend, log, torn, ring, idem, post, pc, outcome>>
      /\ UNCHANGED <<wiping, failed, kept, ended, cleared, wiped, resets>>
  BY <1>1 DEF config, turns, reset
<1>3. HandlesOK' /\ ClosersInv'
  BY HandlesStep DEF IInv
<1>4. TypeOK'
  <2>1. DataOK'
    BY <1>1 DEF IInv, TypeOK, DataOK
  <2> QED
    BY <1>1, <1>3, <2>1, PartsKept, TypeParts, TypePartsNext, ConfigFixed DEF IInv
<1>5. phase' \in {"building", "down"} => phase \in {"building", "down"}
  BY DEF HandleStep, BuildStep, BuildDone, BuildFails, ShutdownClose, CloseStep, Restart
<1>6. wiping # <<>> => phase' = "up"
  BY DEF IInv, HandleInv, HandleStep, BuildStep, BuildDone, BuildFails, ShutdownClose,
     CloseStep, Restart
<1>7. HandleInv'
  BY <1>2, <1>3, <1>5, <1>6 DEF IInv, HandleInv, ClosersInv
<1>8. WipeInv' /\ RunInv'
  BY <1>1, <1>2 DEF IInv, WipeInv, Pending, RunInv, RunAt
<1>9. ForgetInv'
  <2>1. \A r, s : Gone(r, s) => Gone(r, s)'
    BY <1>1, <1>2 DEF Gone
  <2>2. Ended' = Ended
    BY <1>2 DEF Ended
  <2> QED
    BY <1>2, <2>1, <2>2 DEF IInv, ForgetInv
<1>10. UnreadInv'
  <2>1. Unread' = Unread
    BY <1>2 DEF Unread
  <2> QED
    BY <1>1, <1>2, <2>1 DEF IInv, UnreadInv
<1>11. EvictedWhenFull'
  <2>1. restarts' = 0 /\ phase' # "down" => phase # "down"
    <3>1. CASE Restart
      <4>1. restarts \in Nat /\ restarts' = restarts + 1
        BY <3>1, StoreBundleAssumption DEF Restart, IInv, TypeOK
      <4> QED
        BY <4>1
    <3> QED
      BY <3>1 DEF HandleStep, BuildStep, BuildDone, BuildFails, ShutdownClose, CloseStep
  <2>2. \A r \in Runs : Listed(r)' <=> Listed(r)
    BY <1>2, ListedKept
  <2> QED
    BY <1>1, <1>2, <2>1, <2>2 DEF IInv, EvictedWhenFull
<1>12. RecordInv'
  <2> SUFFICES ASSUME backend = "redis", durable = "file" => resets = 0,
                      NEW r \in Runs, pc[r] \in {"insert", "manage", "remember", "complete"}
               PROVE  OnRecord(r) \/ "redis" \notin open'
    BY <1>1, <1>2 DEF IInv, RecordInv, OnRecord
  <2>1. OnRecord(r) \/ "redis" \notin open
    BY DEF IInv, RecordInv
  <2>2. phase \notin {"building", "down"}
    BY DEF IInv, HandleInv, Over
  <2>3. open' \subseteq open
    BY <2>2 DEF HandleStep, BuildStep, BuildDone, BuildFails, ShutdownClose, CloseStep, Restart
  <2> QED
    BY <2>1, <2>3
<1>13. CompletedHasRecord'
  BY <1>1, <1>2 DEF IInv, CompletedHasRecord
<1> QED
  BY <1>4, <1>7, <1>8, <1>9, <1>10, <1>11, <1>12, <1>13 DEF IInv

(* A Reset that is over.                                                   *)
LEMMA NothingRemains == Rest(<<>>)
  BY DEF Rest

(* The process ends at any step of any run: the runs are dead, the ring    *)
(* and the claims of memstore gone, the files and Redis as they were.      *)
LEMMA ExitKeeps ==
    ASSUME IInv, Exit
    PROVE  IInv'
<1>1. /\ phase' = "down" /\ open' = {} /\ closers' = <<>> /\ ring' = <<>>
      /\ known' = {}
      /\ idem' = IF backend = "redis" THEN idem ELSE [p \in Posts |-> "new"]
      /\ pc' = [r \in Runs |-> IF pc[r] = "idle" THEN "idle" ELSE "dead"]
      /\ wiping' = <<>> /\ failed' = FALSE /\ kept' = {} /\ ended' = {} /\ cleared' = {}
      /\ UNCHANGED <<config, durable, backend, log, torn, post, outcome, wiped, lost, faults,
                     tears, resets, restarts>>
  BY DEF Exit, config
<1>2. \A r \in Runs : pc'[r] = IF pc[r] = "idle" THEN "idle" ELSE "dead"
  BY <1>1
<1>3. BuildOrder' = BuildOrder /\ Len(BuildOrder) \in Nat
  BY <1>1, ConfigFixed, OrderFacts DEF IInv
<1>4. TypeOK'
  <2>1. HandlesOK'
    BY <1>1, NoElements DEF HandlesOK
  <2>2. DataOK'
    <3>1. <<>> \in Seq(Runs) /\ Len(<<>>) = 0 /\ 0 <= Capacity
      BY StoreBundleAssumption
    <3> QED
      BY <1>1, <3>1 DEF IInv, TypeOK, DataOK
  <2>3. TurnsOK'
    BY <1>1 DEF IInv, TypeOK, TurnsOK, Over
  <2>4. ResetOK'
    BY <1>1, NoElements DEF IInv, TypeOK, ResetOK
  <2>5. CountsOK'
    BY <1>1 DEF IInv, TypeOK, CountsOK
  <2> QED
    BY <1>1, <2>1, <2>2, <2>3, <2>4, <2>5, TypePartsNext DEF IInv, TypeOK
<1>5. HandleInv'
  <2>1. <<>> \in Seq(Stores) /\ Len(<<>>) = 0 /\ 0 <= Len(BuildOrder)
    BY <1>3
  <2> QED
    BY <1>1, <1>2, <1>3, <2>1, NoElements DEF HandleInv, Over
<1>6. WipeInv'
  BY <1>1, NothingRemains DEF WipeInv, Pending
<1>7. RunInv'
  BY <1>1, <1>2 DEF IInv, RunInv, RunAt, Over
<1>8. ForgetInv'
  <2>1. wiped \subseteq Runs /\ \A r \in wiped : pc[r] # "idle"
    BY DEF IInv, TypeOK, ForgetInv, Ended, Over
  <2>2. \A r \in wiped : r \in Ended'
    BY <1>2, <2>1 DEF Ended, Over
  <2>3. durable = "file" => \A r \in wiped, s \in Places : Gone(r, s)'
    BY <1>1, NoElements DEF IInv, ForgetInv, Gone
  <2> QED
    BY <1>1, <2>2, <2>3 DEF ForgetInv
<1>9. UnreadInv'
  <2>1. Unread' = {}
    BY <1>1, <1>2, NoElements DEF Unread
  <2>2. IsFiniteSet({}) /\ Cardinality({}) = 0
    BY FS_EmptySet
  <2>3. ASSUME durable = "file", resets = 0
        PROVE  (IF "escalations" \in torn THEN 1 ELSE 0) <= tears
    <3>1. /\ IsFiniteSet(Unread)
          /\ Cardinality(Unread) + (IF "escalations" \in torn THEN 1 ELSE 0) <= tears
      BY <2>3 DEF IInv, UnreadInv
    <3>2. Cardinality(Unread) \in Nat /\ tears \in Int
      BY <3>1, FS_CardinalityType DEF IInv, TypeOK
    <3> QED
      BY <3>1, <3>2
  <2> QED
    BY <1>1, <2>1, <2>2, <2>3 DEF UnreadInv
<1>10. EvictedWhenFull'
  BY <1>1 DEF EvictedWhenFull
<1>11. RecordInv'
  <2>1. \A r \in Runs : pc'[r] \notin {"insert", "manage", "remember", "complete"}
    BY <1>2
  <2> QED
    BY <1>1, <2>1 DEF IInv, RecordInv
<1>12. CompletedHasRecord'
  BY <1>1 DEF IInv, CompletedHasRecord
<1> QED
  BY <1>4, <1>5, <1>6, <1>7, <1>8, <1>9, <1>10, <1>11, <1>12 DEF IInv

-----------------------------------------------------------------------------
(* A delivery, or a step of the Run it leads to.                           *)
TurnStep(r) == (\E p \in Posts : Deliver(r, p)) \/ Run(r)

(* Whom a record of run r may name besides itself: in the memory, whom the *)
(* snapshot knows.                                                         *)
Named(r, m) == IF m = "memory" THEN known \cup {r} ELSE {r}

(* What writing a record of run r to log l may do, well or not.            *)
Wrote(r, l) ==
    /\ log' \in [Logs -> SUBSET Runs] /\ torn' \in SUBSET Logs
    /\ \A m \in Logs : log'[m] \subseteq log[m] \cup Named(r, m)
    /\ \A m \in Logs \ {l} : log'[m] = log[m] /\ (m \in torn' <=> m \in torn)
    /\ log["escalations"] \subseteq log'["escalations"]
    /\ faults' \in 0..MaxFaults /\ tears' \in 0..faults' /\ tears <= tears' /\ faults <= faults'
    /\ faults' = 0 => faults = 0 /\ torn' \subseteq torn
    /\ l \in torn' => l \in torn \/ tears' = tears + 1

(* The line goes to its own log, and replaces only lines of a collection   *)
(* that keeps one per post.                                                *)
LEMMA LineEffect ==
    ASSUME TypeOK, NEW r \in Runs, NEW l \in Logs, Line(r, l)
    PROVE  /\ log' \in [Logs -> SUBSET Runs] /\ torn' = torn \ {l}
           /\ \A m \in Logs : log'[m] \subseteq log[m] \cup Named(r, m)
           /\ \A m \in Logs \ {l} : log'[m] = log[m]
           /\ log["escalations"] \subseteq log'["escalations"]
           /\ l \notin torn => r \in log'[l]
<1>1. log \in [Logs -> SUBSET Runs] /\ "escalations" \in Logs /\ known \subseteq Runs
  BY DEF TypeOK, Logs, TurnLogs
<1>2. /\ torn' = torn \ {l}
      /\ log' = IF l \in torn THEN log
                 ELSE [log EXCEPT ![l] = (@ \ Upserted(r, l)) \cup Recorded(r, l)]
  BY DEF Line
<1>3. l = "escalations" => Upserted(r, l) = {}
  BY DEF Upserted
<1>4. r \in Recorded(r, l) /\ Recorded(r, l) \subseteq Named(r, l) /\ Recorded(r, l) \subseteq Runs
  BY <1>1 DEF Recorded, Named
<1>5. CASE l \in torn
  BY <1>1, <1>2, <1>5
<1>6. CASE l \notin torn
  <2>1. /\ log'[l] = (log[l] \ Upserted(r, l)) \cup Recorded(r, l)
        /\ \A m \in Logs \ {l} : log'[m] = log[m]
    BY <1>1, <1>2, <1>6
  <2>2. log' \in [Logs -> SUBSET Runs]
    BY <1>1, <1>2, <1>4, <1>6
  <2> QED
    BY <1>1, <1>2, <1>3, <1>4, <1>6, <2>1, <2>2
<1> QED
  BY <1>5, <1>6

(* Put and Append, also when they fail.                                    *)
LEMMA WriteEffect ==
    ASSUME TypeOK, NEW r \in Runs, NEW l \in Logs, Write(r, l)
    PROVE  Wrote(r, l)
<1>1. /\ log \in [Logs -> SUBSET Runs] /\ torn \in SUBSET Logs
      /\ faults \in 0..MaxFaults /\ tears \in 0..faults /\ MaxFaults \in Nat
  BY StoreBundleAssumption DEF TypeOK
<1>2. faults \in Nat /\ tears \in Nat /\ tears <= faults /\ faults <= MaxFaults
  BY <1>1
<1>0. \A f, n, m \in Nat : n <= f /\ f < m =>
         /\ f + 1 \in 0..m /\ f + 1 # 0
         /\ n \in 0..(f + 1) /\ n + 1 \in 0..(f + 1) /\ n <= n /\ n <= n + 1 /\ f <= f + 1
  OBVIOUS
<1>3. CASE Line(r, l) /\ UNCHANGED <<faults, tears>>
  BY <1>1, <1>2, <1>3, LineEffect DEF Wrote
<1>4. CASE UNCHANGED <<log, torn, faults, tears>>
  BY <1>1, <1>2, <1>4 DEF Wrote
<1>5. CASE /\ faults < MaxFaults /\ faults' = faults + 1
           /\ UNCHANGED <<log, torn, tears>>
  BY <1>1, <1>2, <1>5 DEF Wrote
<1>6. CASE faults < MaxFaults /\ faults' = faults + 1 /\ Line(r, l) /\ UNCHANGED tears
  <2>1. /\ faults' \in 0..MaxFaults /\ tears' \in 0..faults' /\ tears <= tears' /\ faults' # 0
        /\ faults <= faults'
    BY <1>0, <1>1, <1>2, <1>6
  <2> QED
    BY <1>1, <1>6, <2>1, LineEffect DEF Wrote
<1>7. CASE /\ faults < MaxFaults /\ faults' = faults + 1
           /\ torn' = torn \cup {l} /\ tears' = tears + 1 /\ UNCHANGED log
  <2>1. /\ faults' \in 0..MaxFaults /\ tears' \in 0..faults' /\ tears <= tears' /\ faults' # 0
        /\ faults <= faults'
    BY <1>0, <1>1, <1>2, <1>7
  <2> QED
    BY <1>1, <1>7, <2>1 DEF Wrote
<1> QED
  BY <1>3, <1>4, <1>5, <1>6, <1>7 DEF Write, WriteOK, WriteFails, Within

(* As long as nothing failed, a store that answers has the record, and one *)
(* that does not is closed.                                                *)
LEMMA WriteWithoutFault ==
    ASSUME TypeOK, NEW r \in Runs, NEW l \in Logs, faults' = 0, torn = {}
    PROVE  /\ WriteOK(r, l) => r \in log'[l]
           /\ WriteFails(r, l) => Handle(l) \notin open /\ log' = log
<1>1. faults \in Nat
  BY StoreBundleAssumption DEF TypeOK
<1>2. WriteOK(r, l) => r \in log'[l]
  BY LineEffect DEF WriteOK
<1>3. WriteFails(r, l) => Handle(l) \notin open /\ log' = log
  BY <1>1 DEF WriteFails
<1> QED
  BY <1>2, <1>3

(* A store that is open and has not taken the record has met a failing     *)
(* write, this one or the one that left the torn line before it.           *)
LEMMA WriteWithFault ==
    ASSUME TypeOK, NEW r \in Runs, NEW l \in Logs, Handle(l) \in open, Write(r, l),
           r \notin log'[l], faults = 0 => torn = {}
    PROVE  faults' > 0
<1>1. faults \in Nat
  BY StoreBundleAssumption DEF TypeOK
<1>2. CASE WriteOK(r, l)
  <2>1. l \in torn /\ faults' = faults
    BY <1>2, LineEffect DEF WriteOK
  <2> QED
    BY <1>1, <2>1
<1>3. CASE WriteFails(r, l)
  <2>1. faults' = faults + 1
    BY <1>3 DEF WriteFails
  <2> QED
    BY <1>1, <2>1
<1> QED
  BY <1>2, <1>3 DEF Write

(* LogClosers closes Redis first: while it answers, so does every store.   *)
LEMMA RedisClosedFirst ==
    ASSUME TypeOK, HandleInv, Intact, backend = "redis", "redis" \in open, NEW l \in Logs
    PROVE  Handle(l) \in open
<1> DEFINE n == Len(BuildOrder)
<1>1. /\ open = ToSet(closers) /\ closers \in Seq(Stores) /\ Len(closers) \in Nat
      /\ Len(closers) <= n /\ \A i \in 1..Len(closers) : closers[i] = BuildOrder[i]
  BY DEF HandleInv
<1>2. /\ n \in Nat /\ BuildOrder \in Seq(Stores) /\ BuildOrder[n] = "redis"
      /\ \A i, j \in 1..n : BuildOrder[i] = BuildOrder[j] => i = j
      /\ Handle(l) \in ToSet(BuildOrder)
  BY OrderFacts
<1> HIDE DEF n
<1>3. PICK i \in 1..Len(closers) : closers[i] = "redis"
  BY <1>1 DEF ToSet
<1>4. i \in 1..n /\ n \in 1..n
  BY <1>1, <1>2
<1>5. i = n
  BY <1>1, <1>2, <1>3, <1>4
<1>6. Len(closers) = n
  BY <1>1, <1>2, <1>5
<1>7. PICK k \in 1..n : BuildOrder[k] = Handle(l)
  BY <1>2 DEF ToSet, n
<1>8. closers[k] = Handle(l) /\ k \in DOMAIN closers
  BY <1>1, <1>6, <1>7
<1> QED
  BY <1>1, <1>8 DEF ToSet

-----------------------------------------------------------------------------
(* What a step of run r may change, and what it leaves of itself.          *)
TurnEffect(r) ==
    /\ UNCHANGED <<config, handles, reset, restarts>>
    /\ phase \in {"up", "closing"} /\ pc[r] \notin Over
    /\ DataOK' /\ TurnsOK' /\ CountsOK'
    /\ \A r0 \in Runs \ {r} : pc'[r0] = pc[r0] /\ post'[r0] = post[r0] /\ outcome'[r0] = outcome[r0]
    /\ \A m \in Logs : log'[m] \subseteq log[m] \cup Named(r, m)
    /\ ToSet(ring') \subseteq ToSet(ring) \cup {r}
    /\ known' \subseteq known \cup {r}
    /\ lost \subseteq lost' /\ lost' \subseteq lost \cup {r}
    /\ log["escalations"] \subseteq log'["escalations"]
    /\ faults' = 0 => faults = 0 /\ torn' \subseteq torn
    /\ faults <= faults' /\ tears <= tears'
    /\ RunAt(r)'
    /\ OnRecord(r) => OnRecord(r)' /\ post'[r] = post[r]

(* A run that is neither idle nor over belongs to a process that is up or  *)
(* closing.                                                                *)
LEMMA RunningPhase ==
    ASSUME IInv, NEW r \in Runs, pc[r] \notin Over \cup {"idle"}
    PROVE  phase \in {"up", "closing"} /\ post[r] \in Posts /\ RunAt(r)
  BY DEF IInv, TypeOK, HandleInv, RunInv, RunAt

(* The program counter, the outcome and the post of a run are its own.     *)
LEMMA GoTyped ==
    ASSUME TurnsOK, NEW r \in Runs,
           NEW step \in Over \cup {"idle", "claim", "classify", "reply", "escalate",
                                   "manage", "insert", "remember", "complete"},
           Go(r, step)
    PROVE  /\ pc' \in [Runs -> Over \cup {"idle", "claim", "classify", "reply", "escalate",
                                          "manage", "insert", "remember", "complete"}]
           /\ pc'[r] = step /\ \A r0 \in Runs \ {r} : pc'[r0] = pc[r0]
  BY DEF Go, TurnsOK

(* What a step of a run does where it leaves escalations and claims alone. *)
Aside(r) ==
    /\ TurnEffect(r) /\ log'["escalations"] = log["escalations"]
    /\ "escalations" \in torn' <=> "escalations" \in torn
    /\ UNCHANGED <<ring, idem, lost>>

(* A record of a log other than the escalations is written on the way.     *)
LEMMA WriteStep ==
    ASSUME IInv, NEW r \in Runs, NEW l \in Logs \ {"escalations"},
           Wrote(r, l) \/ UNCHANGED <<log, torn, faults, tears>>,
           UNCHANGED <<config, handles, ring, idem, reset, lost, restarts>>,
           known' \in {known, known \cup {r}},
           TurnsOK', pc[r] \notin Over, phase \in {"up", "closing"},
           \A r0 \in Runs \ {r} :
              pc'[r0] = pc[r0] /\ post'[r0] = post[r0] /\ outcome'[r0] = outcome[r0],
           RunAt(r)',
           OnRecord(r) => post'[r] = post[r] /\ outcome'[r] = outcome[r]
    PROVE  Aside(r)
<1>1. "escalations" \in Logs \ {l}
  BY DEF Logs, TurnLogs
<1>2. DataOK /\ CountsOK
  BY TypeParts DEF IInv
<1>3. faults \in Int /\ tears \in Int
  BY <1>2 DEF CountsOK
<1>4. /\ DataOK' /\ CountsOK' /\ faults <= faults' /\ tears <= tears'
      /\ \A m \in Logs : log'[m] \subseteq log[m] \cup Named(r, m)
      /\ faults' = 0 => faults = 0 /\ torn' \subseteq torn
      /\ log'["escalations"] = log["escalations"]
      /\ "escalations" \in torn' <=> "escalations" \in torn
  <2>1. CASE Wrote(r, l)
    BY <1>1, <1>2, <2>1 DEF Wrote, DataOK, CountsOK
  <2>2. CASE UNCHANGED <<log, torn, faults, tears>>
    BY <1>2, <1>3, <2>2 DEF DataOK, CountsOK
  <2> QED
    BY <2>1, <2>2
<1>5. OnRecord(r) => OnRecord(r)' /\ post'[r] = post[r]
  <2>1. faults > 0 => faults' > 0
    <3>1. faults' \in Int
      BY <1>4 DEF CountsOK
    <3> QED
      BY <1>3, <1>4, <3>1
  <2> QED
    BY <1>4, <2>1 DEF OnRecord
<1> QED
  BY <1>4, <1>5 DEF Aside, TurnEffect

(* The webhook record, before the claim.                                   *)
LEMMA DeliverEffect ==
    ASSUME IInv, NEW r \in Runs, NEW p \in Posts, Deliver(r, p)
    PROVE  Aside(r) /\ pc[r] = "idle" /\ pc'[r] = "claim"
<1>1. /\ phase = "up" /\ pc[r] = "idle" /\ post' = [post EXCEPT ![r] = p]
      /\ Write(r, "webhooks") /\ Go(r, "claim")
      /\ UNCHANGED <<config, handles, ring, known, idem, outcome, reset, lost, restarts>>
  BY DEF Deliver
<1>2. TypeOK /\ TurnsOK
  BY TypeParts DEF IInv
<1>3. Wrote(r, "webhooks")
  BY <1>1, <1>2, WriteEffect DEF Logs, TurnLogs
<1>4. pc'[r] = "claim" /\ \A r0 \in Runs \ {r} : pc'[r0] = pc[r0]
  BY <1>1, <1>2, GoTyped
<1>5. TurnsOK' /\ post'[r] = p /\ \A r0 \in Runs \ {r} : post'[r0] = post[r0]
  BY <1>1, <1>2, GoTyped DEF TurnsOK
<1>6. ~OnRecord(r) /\ outcome[r] # "sent" /\ r \notin log["escalations"] /\ r \notin lost
  BY <1>1 DEF IInv, RunInv, RunAt, OnRecord
<1>7. log'["escalations"] = log["escalations"]
  BY <1>3 DEF Wrote, Logs, TurnLogs
<1>8. RunAt(r)'
  BY <1>1, <1>4, <1>5, <1>6, <1>7 DEF RunAt, Over
<1>9. pc[r] \notin Over
  BY <1>1 DEF Over
<1> QED
  BY <1>1, <1>3, <1>4, <1>5, <1>6, <1>8, <1>9, WriteStep DEF Logs, TurnLogs

(* The classification, or an escalation before it.                         *)
LEMMA ClassifyEffect ==
    ASSUME IInv, NEW r \in Runs, Classify(r)
    PROVE  /\ Aside(r)
           /\ pc[r] = "classify" /\ pc'[r] \in {"reply", "escalate"}
<1>1. /\ pc[r] = "classify"
      /\ UNCHANGED <<config, handles, ring, known, idem, post, outcome, reset, lost, restarts>>
  BY DEF Classify
<1>2. TypeOK /\ TurnsOK
  BY TypeParts DEF IInv
<1>3. Wrote(r, "classifications") \/ UNCHANGED <<log, torn, faults, tears>>
  BY <1>2, WriteEffect DEF Classify, Logs, TurnLogs
<1>4. PICK step \in {"reply", "escalate"} : Go(r, step)
  BY DEF Classify
<1>5. pc'[r] = step /\ \A r0 \in Runs \ {r} : pc'[r0] = pc[r0]
  BY <1>2, <1>4, GoTyped
<1>6. TurnsOK'
  BY <1>1, <1>2, <1>4, GoTyped DEF TurnsOK
<1>7. pc[r] \notin Over /\ pc[r] \notin Over \cup {"idle"}
  BY <1>1 DEF Over
<1>8. phase \in {"up", "closing"} /\ post[r] \in Posts /\ RunAt(r)
  BY <1>7, RunningPhase
<1>9. ~OnRecord(r) /\ outcome[r] # "sent" /\ r \notin log["escalations"] /\ r \notin lost
  BY <1>1, <1>8 DEF RunAt, OnRecord
<1>10. log'["escalations"] = log["escalations"]
  BY <1>3 DEF Wrote, Logs, TurnLogs
<1>11. RunAt(r)'
  BY <1>1, <1>5, <1>8, <1>9, <1>10 DEF RunAt, Over
<1> QED
  BY <1>1, <1>3, <1>5, <1>6, <1>7, <1>8, <1>9, <1>11, WriteStep DEF Logs, TurnLogs

(* The reply, and the note or an escalation.                               *)
LEMMA PutReplyEffect ==
    ASSUME IInv, NEW r \in Runs, PutReply(r)
    PROVE  /\ Aside(r)
           /\ pc[r] = "reply" /\ pc'[r] \in {"manage", "escalate"}
           /\ pc'[r] = "manage" => outcome'[r] = "sent"
<1>1. /\ pc[r] = "reply"
      /\ UNCHANGED <<config, handles, ring, known, idem, post, reset, lost, restarts>>
  BY DEF PutReply
<1>2. TypeOK /\ TurnsOK
  BY TypeParts DEF IInv
<1>3. Wrote(r, "replies") \/ UNCHANGED <<log, torn, faults, tears>>
  BY <1>2, WriteEffect DEF PutReply, Logs, TurnLogs
<1>4. PICK step \in {"manage", "escalate"} :
         /\ Go(r, step)
         /\ step = "manage" => outcome' = [outcome EXCEPT ![r] = "sent"]
         /\ step = "escalate" => outcome' = outcome
  BY DEF PutReply, Ends
<1>5. pc'[r] = step /\ \A r0 \in Runs \ {r} : pc'[r0] = pc[r0]
  BY <1>2, <1>4, GoTyped
<1>6. /\ TurnsOK' /\ \A r0 \in Runs \ {r} : outcome'[r0] = outcome[r0]
      /\ step = "manage" => outcome'[r] = "sent"
  BY <1>1, <1>2, <1>4, GoTyped DEF TurnsOK
<1>7. pc[r] \notin Over /\ pc[r] \notin Over \cup {"idle"}
  BY <1>1 DEF Over
<1>8. phase \in {"up", "closing"} /\ post[r] \in Posts /\ RunAt(r)
  BY <1>7, RunningPhase
<1>9. ~OnRecord(r) /\ outcome[r] # "sent" /\ r \notin log["escalations"] /\ r \notin lost
  BY <1>1, <1>8 DEF RunAt, OnRecord
<1>10. log'["escalations"] = log["escalations"]
  BY <1>3 DEF Wrote, Logs, TurnLogs
<1>11. RunAt(r)'
  BY <1>1, <1>4, <1>5, <1>8, <1>9, <1>10 DEF RunAt, Over
<1> QED
  BY <1>1, <1>3, <1>5, <1>6, <1>7, <1>8, <1>9, <1>11, WriteStep DEF Logs, TurnLogs

(* The steps after the outcome that only keep its records: MarkManaged and *)
(* Memory.Update.                                                          *)
LEMMA KeepEffect ==
    ASSUME IInv, NEW r \in Runs, MarkManaged(r) \/ Remember(r)
    PROVE  /\ Aside(r)
           /\ \/ pc[r] = "manage" /\ pc'[r] = "remember"
              \/ pc[r] = "remember" /\ pc'[r] = "complete"
<1>1. /\ UNCHANGED <<config, handles, ring, idem, post, outcome, reset, lost, restarts>>
      /\ known' \in {known, known \cup {r}}
  BY DEF MarkManaged, Remember
<1>2. TypeOK /\ TurnsOK
  BY TypeParts DEF IInv
<1>3. PICK l \in {"conversions", "memory"} : Wrote(r, l)
  BY <1>2, WriteEffect DEF MarkManaged, Remember, Logs, TurnLogs
<1>4. PICK step \in {"remember", "complete"} :
         /\ Go(r, step)
         /\ \/ pc[r] = "manage" /\ step = "remember"
            \/ pc[r] = "remember" /\ step = "complete"
  BY DEF MarkManaged, Remember
<1>5. pc'[r] = step /\ \A r0 \in Runs \ {r} : pc'[r0] = pc[r0]
  BY <1>2, <1>4, GoTyped
<1>6. TurnsOK'
  BY <1>1, <1>2, <1>4, GoTyped DEF TurnsOK
<1>7. pc[r] \notin Over /\ pc[r] \notin Over \cup {"idle"}
  BY <1>4 DEF Over
<1>8. phase \in {"up", "closing"} /\ post[r] \in Posts /\ RunAt(r)
  BY <1>7, RunningPhase
<1>9. log'["escalations"] = log["escalations"] /\ l \in Logs \ {"escalations"}
  BY <1>3 DEF Wrote, Logs, TurnLogs
<1>10. RunAt(r)'
  BY <1>1, <1>4, <1>5, <1>8, <1>9 DEF RunAt, Over
<1> QED
  BY <1>1, <1>3, <1>4, <1>5, <1>6, <1>7, <1>8, <1>9, <1>10, WriteStep

(* EscalationRing.Record up to its lock: the line, or the error after      *)
(* which nothing is inserted.                                              *)
LEMMA RecordAppendEffect ==
    ASSUME IInv, NEW r \in Runs, RecordAppend(r)
    PROVE  /\ TurnEffect(r) /\ Wrote(r, "escalations")
           /\ UNCHANGED <<ring, idem, post>> /\ pc[r] = "escalate"
           /\ r \notin log["escalations"] /\ Spoilt(r) \subseteq lost'
           /\ \/ WriteOK(r, "escalations") /\ pc'[r] = IF durable = "file" THEN "insert" ELSE "remember"
              \/ WriteFails(r, "escalations") /\ pc'[r] = "remember"
<1> DEFINE next == IF durable = "file" THEN "insert" ELSE "remember"
<1>1. /\ pc[r] = "escalate" /\ outcome' = [outcome EXCEPT ![r] = "escalated"]
      /\ lost' = lost \cup Spoilt(r) /\ Spoilt(r) \subseteq {r}
      /\ UNCHANGED <<config, handles, ring, known, idem, post, reset, restarts>>
  BY DEF RecordAppend, Ends, Spoilt
<1>2. TypeOK /\ TurnsOK /\ DataOK /\ CountsOK
  BY TypeParts DEF IInv
<1>3. PICK step \in {"insert", "remember"} :
         /\ Go(r, step)
         /\ step = "insert" => durable = "file"
         /\ \/ WriteOK(r, "escalations") /\ step = next
            \/ WriteFails(r, "escalations") /\ step = "remember"
  BY DEF RecordAppend, RecordMongo, Write
<1>4. Wrote(r, "escalations")
  BY <1>2, <1>3, WriteEffect DEF Write, Logs, TurnLogs
<1>5. pc'[r] = step /\ \A r0 \in Runs \ {r} : pc'[r0] = pc[r0]
  BY <1>2, <1>3, GoTyped
<1>6. /\ TurnsOK' /\ outcome'[r] = "escalated"
      /\ \A r0 \in Runs \ {r} : outcome'[r0] = outcome[r0]
  BY <1>1, <1>2, <1>3, GoTyped DEF TurnsOK
<1>7. pc[r] \notin Over /\ pc[r] \notin Over \cup {"idle"}
  BY <1>1 DEF Over
<1>8. phase \in {"up", "closing"} /\ post[r] \in Posts /\ RunAt(r)
  BY <1>7, RunningPhase
<1>9. ~OnRecord(r) /\ r \notin log["escalations"]
  BY <1>1, <1>8 DEF RunAt, OnRecord
<1>10. durable' = durable
  BY <1>1 DEF config
<1>11. RunAt(r)'
  BY <1>1, <1>3, <1>5, <1>6, <1>8, <1>10 DEF RunAt
<1>12. DataOK' /\ CountsOK'
  BY <1>1, <1>2, <1>4 DEF Wrote, DataOK, CountsOK
<1>13. TurnEffect(r)
  BY <1>1, <1>4, <1>5, <1>6, <1>7, <1>8, <1>9, <1>11, <1>12 DEF TurnEffect, Wrote
<1> QED
  BY <1>1, <1>3, <1>4, <1>5, <1>9, <1>13

(* The insert into the ring: the newest is in, and somebody leaves only    *)
(* when the ring is full.                                                  *)
LEMMA InsertRing ==
    ASSUME DataOK, NEW r \in Runs
    PROVE  /\ insert(ring, r) \in Seq(Runs) /\ Len(insert(ring, r)) <= Capacity
           /\ r \in ToSet(insert(ring, r)) /\ ToSet(insert(ring, r)) \subseteq ToSet(ring) \cup {r}
           /\ \/ Len(insert(ring, r)) = Capacity
              \/ Len(ring) < Capacity /\ ToSet(insert(ring, r)) = ToSet(ring) \cup {r}
<1>1. ring \in Seq(Runs) /\ Len(ring) \in Nat /\ Len(ring) <= Capacity
  BY DEF DataOK
<1>2. Capacity \in Nat \ {0}
  BY StoreBundleAssumption
<1>3. CASE Len(ring) >= Capacity
  <2> DEFINE b == Tail(ring)
  <2>1. insert(ring, r) = Append(b, r)
    BY <1>3 DEF insert
  <2>2. ring # <<>>
    BY <1>2, <1>3
  <2>3. /\ b \in Seq(Runs) /\ Len(b) = Len(ring) - 1
        /\ ToSet(b) \subseteq ToSet(ring)
    BY <1>1, <2>2, TailElements
  <2> HIDE DEF b
  <2>4. /\ insert(ring, r) \in Seq(Runs) /\ Len(insert(ring, r)) = Len(b) + 1
        /\ ToSet(insert(ring, r)) = ToSet(b) \cup {r}
    BY <2>1, <2>3, AppendElements
  <2>5. Len(insert(ring, r)) = Capacity
    <3>1. \A k, c \in Nat : k >= c /\ k <= c => k - 1 + 1 = c
      OBVIOUS
    <3> QED
      BY <1>1, <1>2, <1>3, <2>3, <2>4, <3>1
  <2>6. Capacity <= Capacity
    BY <1>2
  <2> QED
    BY <2>3, <2>4, <2>5, <2>6
<1>4. CASE ~(Len(ring) >= Capacity)
  <2>0. \A k, c \in Nat : ~(k >= c) => k < c /\ k + 1 <= c
    OBVIOUS
  <2>1. insert(ring, r) = Append(ring, r)
    BY <1>4 DEF insert
  <2>2. /\ insert(ring, r) \in Seq(Runs) /\ Len(insert(ring, r)) = Len(ring) + 1
        /\ ToSet(insert(ring, r)) = ToSet(ring) \cup {r}
    BY <1>1, <2>1, AppendElements
  <2>3. Len(ring) < Capacity /\ Len(insert(ring, r)) <= Capacity
    BY <1>1, <1>2, <1>4, <2>0, <2>2
  <2> QED
    BY <2>2, <2>3
<1> QED
  BY <1>3, <1>4

(* The rest of Record, under the ring's lock.                              *)
LEMMA RecordInsertEffect ==
    ASSUME IInv, NEW r \in Runs, RecordInsert(r)
    PROVE  /\ TurnEffect(r) /\ ring' = insert(ring, r)
           /\ UNCHANGED <<log, torn, idem, post, outcome, lost, faults, tears>>
           /\ pc[r] = "insert" /\ pc'[r] = "remember"
<1>1. /\ pc[r] = "insert" /\ ring' = insert(ring, r) /\ Go(r, "remember")
      /\ UNCHANGED <<config, handles, log, torn, known, idem, post, outcome, reset, lost, faults,
                     tears, restarts>>
  BY DEF RecordInsert
<1>2. TypeOK /\ TurnsOK /\ DataOK /\ CountsOK
  BY TypeParts DEF IInv
<1>3. pc'[r] = "remember" /\ \A r0 \in Runs \ {r} : pc'[r0] = pc[r0]
  BY <1>1, <1>2, GoTyped
<1>4. TurnsOK'
  BY <1>1, <1>2, GoTyped DEF TurnsOK
<1>5. pc[r] \notin Over /\ pc[r] \notin Over \cup {"idle"}
  BY <1>1 DEF Over
<1>6. phase \in {"up", "closing"} /\ post[r] \in Posts /\ RunAt(r)
  BY <1>5, RunningPhase
<1>7. DataOK' /\ ToSet(ring') \subseteq ToSet(ring) \cup {r}
  BY <1>1, <1>2, InsertRing DEF DataOK
<1>8. CountsOK' /\ faults <= faults' /\ tears <= tears'
  BY <1>1, <1>2 DEF CountsOK
<1>9. RunAt(r)'
  BY <1>1, <1>3, <1>6 DEF RunAt
<1>10. OnRecord(r)' <=> OnRecord(r)
  BY <1>1 DEF OnRecord
<1> QED
  BY <1>1, <1>3, <1>4, <1>5, <1>6, <1>7, <1>8, <1>9, <1>10 DEF TurnEffect

(* The claim, and its completion: only the claims change.                  *)
LEMMA ClaimEffect ==
    ASSUME IInv, NEW r \in Runs, SeenOrClaim(r) \/ Complete(r)
    PROVE  /\ TurnEffect(r)
           /\ UNCHANGED <<log, torn, ring, post, outcome, lost, faults, tears>>
           /\ \/ pc[r] = "claim" /\ pc'[r] \in {"refused", "duplicate", "classify"}
              \/ pc[r] = "complete" /\ pc'[r] = "done"
           /\ \A p \in Posts : idem'[p] = "complete" =>
                 \/ idem[p] = "complete"
                 \/ p = post[r] /\ pc[r] = "complete" /\ IdemUp
<1>1. UNCHANGED <<config, handles, log, torn, ring, known, post, outcome, reset, lost, faults,
                  tears, restarts>>
  BY DEF SeenOrClaim, Complete
<1>2. TypeOK /\ TurnsOK /\ DataOK /\ CountsOK
  BY TypeParts DEF IInv
<1>3. PICK step \in {"refused", "duplicate", "classify", "done"} :
         /\ Go(r, step)
         /\ \/ pc[r] = "claim" /\ step # "done"
            \/ pc[r] = "complete" /\ step = "done"
  BY DEF SeenOrClaim, Complete
<1>4. step \in Over \cup {"idle", "claim", "classify", "reply", "escalate",
                         "manage", "insert", "remember", "complete"}
  BY DEF Over
<1>5. pc'[r] = step /\ \A r0 \in Runs \ {r} : pc'[r0] = pc[r0]
  BY <1>2, <1>3, <1>4, GoTyped
<1>6. TurnsOK'
  BY <1>1, <1>2, <1>3, <1>4, GoTyped DEF TurnsOK
<1>7. pc[r] \notin Over /\ pc[r] \notin Over \cup {"idle"}
  BY <1>3 DEF Over
<1>8. phase \in {"up", "closing"} /\ post[r] \in Posts /\ RunAt(r)
  BY <1>7, RunningPhase
<1>9. /\ idem' \in [Posts -> {"new", "claimed", "complete"}]
      /\ \A p \in Posts : idem'[p] = "complete" =>
            \/ idem[p] = "complete"
            \/ p = post[r] /\ pc[r] = "complete" /\ IdemUp
  <2>1. CASE SeenOrClaim(r)
    BY <1>2, <1>8, <2>1 DEF SeenOrClaim, DataOK
  <2>2. CASE Complete(r)
    BY <1>2, <1>8, <2>2 DEF Complete, DataOK
  <2> QED
    BY <2>1, <2>2
<1>10. DataOK'
  BY <1>1, <1>2, <1>9 DEF DataOK
<1>11. CountsOK' /\ faults <= faults' /\ tears <= tears'
  BY <1>1, <1>2 DEF CountsOK
<1>12. RunAt(r)'
  BY <1>1, <1>3, <1>5, <1>8 DEF RunAt, Over
<1>13. OnRecord(r)' <=> OnRecord(r)
  BY <1>1 DEF OnRecord
<1>14. TurnEffect(r)
  BY <1>1, <1>5, <1>6, <1>7, <1>8, <1>10, <1>11, <1>12, <1>13 DEF TurnEffect
<1> QED
  BY <1>1, <1>3, <1>5, <1>9, <1>14

-----------------------------------------------------------------------------
(* A step that loses no further line, and tears the file at most at the    *)
(* price of one more torn write.                                           *)
LEMMA UnreadShrinks ==
    ASSUME UnreadInv, CountsOK, CountsOK', UNCHANGED <<durable, resets>>, tears <= tears',
           durable = "file" => Unread' \subseteq Unread,
           "escalations" \in torn' => "escalations" \in torn \/ tears' = tears + 1
    PROVE  UnreadInv'
<1> DEFINE end == IF "escalations" \in torn THEN 1 ELSE 0
<1> SUFFICES ASSUME durable = "file", resets = 0
             PROVE  /\ IsFiniteSet(Unread')
                    /\ Cardinality(Unread') + (IF "escalations" \in torn' THEN 1 ELSE 0) <= tears'
  BY DEF UnreadInv
<1>1. IsFiniteSet(Unread) /\ Cardinality(Unread) + end <= tears
  BY DEF UnreadInv
<1>2. IsFiniteSet(Unread') /\ Cardinality(Unread') <= Cardinality(Unread)
  BY <1>1, FS_Subset
<1>3. Cardinality(Unread) \in Nat /\ Cardinality(Unread') \in Nat
  BY <1>1, <1>2, FS_CardinalityType
<1>4. tears \in Int /\ tears' \in Int
  BY DEF CountsOK
<1>5. \A a, b \in Nat, m, n \in Int : a <= b /\ m <= n =>
         /\ b + 0 <= m => a + 0 <= n
         /\ b + 1 <= m => a + 0 <= n /\ a + 1 <= n
         /\ b + 0 <= m /\ n = m + 1 => a + 1 <= n
  OBVIOUS
<1>6. CASE "escalations" \in torn
  BY <1>1, <1>2, <1>3, <1>4, <1>5, <1>6
<1>7. CASE "escalations" \notin torn
  BY <1>1, <1>2, <1>3, <1>4, <1>5, <1>7
<1> QED
  BY <1>6, <1>7

(* The line glued to the torn end of the file: one more is lost, and the   *)
(* end of the file is whole again.                                         *)
LEMMA UnreadGrows ==
    ASSUME UnreadInv, CountsOK, CountsOK', UNCHANGED <<durable, resets>>, tears <= tears', NEW r,
           Unread' \subseteq Unread \cup {r},
           "escalations" \in torn, "escalations" \notin torn'
    PROVE  UnreadInv'
<1> SUFFICES ASSUME durable = "file", resets = 0
             PROVE  IsFiniteSet(Unread') /\ Cardinality(Unread') + 0 <= tears'
  BY DEF UnreadInv
<1>1. IsFiniteSet(Unread) /\ Cardinality(Unread) + 1 <= tears
  BY DEF UnreadInv
<1>2. /\ IsFiniteSet(Unread \cup {r})
      /\ Cardinality(Unread \cup {r}) \in {Cardinality(Unread), Cardinality(Unread) + 1}
  BY <1>1, FS_AddElement
<1>3. IsFiniteSet(Unread') /\ Cardinality(Unread') <= Cardinality(Unread \cup {r})
  BY <1>2, FS_Subset
<1>4. Cardinality(Unread) \in Nat /\ Cardinality(Unread') \in Nat /\ Cardinality(Unread \cup {r}) \in Nat
  BY <1>1, <1>2, <1>3, FS_CardinalityType
<1>5. tears \in Int /\ tears' \in Int
  BY DEF CountsOK
<1>6. \A a, b, c \in Nat, m, n \in Int :
         c \in {b, b + 1} /\ a <= c /\ b + 1 <= m /\ m <= n => a + 0 <= n
  OBVIOUS
<1> QED
  BY <1>1, <1>2, <1>3, <1>4, <1>5, <1>6

(* Who is lost after a step of run r, but for r itself.                    *)
LEMMA OthersRead ==
    ASSUME NEW r \in Runs, TurnEffect(r), NEW r0 \in Unread', r0 # r
    PROVE  r0 \in Unread
  BY DEF TurnEffect, Unread

(* Every step of a run.                                                    *)
LEMMA TurnEffects ==
    ASSUME IInv, NEW r \in Runs, TurnStep(r)
    PROVE  TurnEffect(r)
  BY DeliverEffect, ClassifyEffect, PutReplyEffect, KeepEffect, RecordAppendEffect,
     RecordInsertEffect, ClaimEffect DEF TurnStep, Run, Aside

(* A torn write, and the line glued to it, are all a run can cost.         *)
LEMMA TurnUnread ==
    ASSUME IInv, NEW r \in Runs, TurnStep(r)
    PROVE  UnreadInv'
<1>1. TurnEffect(r)
  BY TurnEffects
<1>2. /\ UnreadInv /\ CountsOK /\ CountsOK' /\ tears <= tears'
      /\ UNCHANGED <<durable, resets>>
  BY <1>1, TypeParts DEF IInv, TurnEffect, config, reset
<1>3. CASE \/ \E p \in Posts : Deliver(r, p)
           \/ SeenOrClaim(r) \/ Classify(r) \/ PutReply(r)
           \/ MarkManaged(r) \/ Remember(r) \/ Complete(r)
  <2>1. /\ log'["escalations"] = log["escalations"] /\ ring' = ring /\ pc'[r] # "insert"
        /\ "escalations" \in torn' <=> "escalations" \in torn
    BY <1>3, DeliverEffect, ClassifyEffect, PutReplyEffect, KeepEffect, ClaimEffect DEF Aside
  <2>2. Unread' \subseteq Unread
    BY <1>1, <2>1 DEF TurnEffect, Unread
  <2> QED
    BY <1>2, <2>1, <2>2, UnreadShrinks
<1>4. CASE RecordInsert(r)
  <2>1. UNCHANGED <<log, torn>> /\ pc[r] = "insert"
    BY <1>4, RecordInsertEffect
  <2>2. r \in Unread' => r \in Unread
    BY <2>1 DEF Unread
  <2>3. Unread' \subseteq Unread
    BY <1>1, <2>2, OthersRead
  <2> QED
    BY <1>2, <2>1, <2>3, UnreadShrinks
<1>5. CASE RecordAppend(r)
  <2>1. /\ Wrote(r, "escalations") /\ ring' = ring /\ r \notin log["escalations"]
        /\ \/ WriteOK(r, "escalations")
           \/ WriteFails(r, "escalations") /\ pc'[r] = "remember"
    BY <1>5, RecordAppendEffect
  <2>2. "escalations" \in torn' => "escalations" \in torn \/ tears' = tears + 1
    BY <2>1 DEF Wrote
  <2>3. CASE WriteFails(r, "escalations") /\ pc'[r] = "remember"
    <3>1. r \in Unread' => r \in Unread
      BY <2>1, <2>3 DEF Unread
    <3>2. Unread' \subseteq Unread
      BY <1>1, <3>1, OthersRead
    <3> QED
      BY <1>2, <2>2, <3>2, UnreadShrinks
  <2>4. CASE WriteOK(r, "escalations") /\ "escalations" \notin torn
    <3>1. r \in log'["escalations"]
      BY <2>4, LineEffect DEF IInv, WriteOK, Logs, TurnLogs
    <3>2. Unread' \subseteq Unread
      BY <1>1, <3>1, OthersRead DEF Unread
    <3> QED
      BY <1>2, <2>2, <3>2, UnreadShrinks
  <2>5. CASE WriteOK(r, "escalations") /\ "escalations" \in torn
    <3>1. "escalations" \notin torn'
      BY <2>5 DEF WriteOK, Line
    <3>2. Unread' \subseteq Unread \cup {r}
      BY <1>1, OthersRead
    <3> QED
      BY <1>2, <2>5, <3>1, <3>2, UnreadGrows
  <2> QED
    BY <2>1, <2>3, <2>4, <2>5
<1> QED
  BY <1>3, <1>4, <1>5 DEF TurnStep, Run

(* An escalation leaves the ring only when the ring is full.               *)
LEMMA TurnEvicts ==
    ASSUME IInv, NEW r \in Runs, TurnStep(r)
    PROVE  EvictedWhenFull'
<1>1. TurnEffect(r) /\ DataOK
  BY TurnEffects, TypeParts DEF IInv
<1>2. UNCHANGED <<durable, phase, resets, restarts>>
  BY <1>1 DEF TurnEffect, config, handles, reset
<1> SUFFICES ASSUME resets = 0, restarts = 0, phase # "down", faults' = 0,
                    NEW r0 \in Runs, r0 \in log'["escalations"],
                    pc'[r0] \in {"remember", "complete", "done"}
             PROVE  Listed(r0)' \/ Len(ring') = Capacity
  BY <1>2 DEF EvictedWhenFull
<1>3. CASE durable # "file"
  BY <1>2, <1>3 DEF Listed
<1>4. CASE durable = "file"
  <2>1. /\ Listed(r0)' <=> r0 \in ToSet(ring')
        /\ \A q \in Runs : Listed(q) <=> q \in ToSet(ring)
    <3>1. Listed(r0)' <=> r0 \in ToSet(ring')
      BY <1>1, <1>2, <1>4, ListedIsRingNext DEF TurnEffect, DataOK, RingListed
    <3> QED
      BY <1>1, <1>4, <3>1, ListedIsRing DEF DataOK, RingListed
  <2>2. faults = 0 /\ torn = {}
    BY <1>1 DEF IInv, TurnEffect, RecordInv
  <2>3. ASSUME r0 \in log["escalations"], pc[r0] \in {"remember", "complete", "done"}
        PROVE  r0 \in ToSet(ring) \/ Len(ring) = Capacity
    BY <2>1, <2>2, <2>3 DEF IInv, EvictedWhenFull
  <2>4. CASE RecordInsert(r)
    <3>1. /\ ring' = insert(ring, r) /\ log' = log
          /\ r0 # r => pc[r0] = pc'[r0]
      BY <1>1, <2>4, RecordInsertEffect DEF TurnEffect
    <3>2. r0 # r => r0 \in ToSet(ring) \/ Len(ring) = Capacity
      BY <2>3, <3>1
    <3>3. /\ r \in ToSet(ring')
          /\ Len(ring') = Capacity \/ (Len(ring) < Capacity /\ ToSet(ring') = ToSet(ring) \cup {r})
      <4>1. /\ r \in ToSet(insert(ring, r))
            /\ \/ Len(insert(ring, r)) = Capacity
               \/ Len(ring) < Capacity /\ ToSet(insert(ring, r)) = ToSet(ring) \cup {r}
        BY <1>1, InsertRing
      <4> QED
        BY <3>1, <4>1, Zenon
    <3>4. Len(ring) \in Nat /\ Capacity \in Nat
      <4>1. Capacity \in Nat
        BY StoreBundleAssumption
      <4>2. Len(ring) \in Nat
        BY <1>1 DEF DataOK
      <4> QED
        BY <4>1, <4>2
    <3>5. Len(ring) = Capacity => ~(Len(ring) < Capacity)
      BY <3>4
    <3> QED
      BY <2>1, <3>2, <3>3, <3>5
  <2>5. CASE RecordAppend(r)
    <3>1. /\ ring' = ring /\ Wrote(r, "escalations") /\ r \notin log["escalations"]
          /\ \/ pc'[r] = "insert"
             \/ WriteFails(r, "escalations")
      BY <1>4, <2>5, RecordAppendEffect
    <3>2. r0 # r
      <4>1. CASE pc'[r] = "insert"
        BY <4>1
      <4>2. CASE WriteFails(r, "escalations")
        BY <2>2, <3>1, <4>2, WriteWithoutFault DEF IInv, Logs, TurnLogs
      <4> QED
        BY <3>1, <4>1, <4>2
    <3>3. r0 \in log["escalations"] /\ pc[r0] = pc'[r0]
      BY <1>1, <3>2 DEF TurnEffect, Named, Logs, TurnLogs
    <3> QED
      BY <2>1, <2>3, <3>1, <3>3
  <2>6. CASE \/ \E p \in Posts : Deliver(r, p)
             \/ SeenOrClaim(r) \/ Classify(r) \/ PutReply(r)
             \/ MarkManaged(r) \/ Remember(r) \/ Complete(r)
    <3>1. /\ ring' = ring /\ log'["escalations"] = log["escalations"]
          /\ pc[r] \in {"idle", "claim", "classify", "reply", "manage", "remember", "complete"}
      BY <2>6, DeliverEffect, ClassifyEffect, PutReplyEffect, KeepEffect, ClaimEffect DEF Aside
    <3>2. pc[r0] \in {"remember", "complete", "done"}
      <4>1. CASE r0 # r
        BY <1>1, <4>1 DEF TurnEffect
      <4>2. CASE r0 = r
        BY <3>1, <4>2 DEF IInv, RunInv, RunAt
      <4> QED
        BY <4>1, <4>2
    <3> QED
      BY <2>1, <2>3, <3>1, <3>2
  <2> QED
    BY <2>4, <2>5, <2>6 DEF TurnStep, Run
<1> QED
  BY <1>3, <1>4

(* What is on record of a run stays there as long as no file is reset.     *)
LEMMA OnRecordStays ==
    ASSUME IInv, NEW r \in Runs, TurnEffect(r), NEW q \in Runs, OnRecord(q)
    PROVE  OnRecord(q)' /\ post'[q] = post[q]
<1>1. faults > 0 => faults' > 0
  <2>1. faults \in Int /\ faults' \in Int /\ faults <= faults'
    BY TypeParts DEF IInv, TurnEffect, CountsOK
  <2> QED
    BY <2>1
<1>2. CASE q # r
  BY <1>1, <1>2 DEF TurnEffect, OnRecord
<1>3. CASE q = r
  BY <1>3 DEF TurnEffect
<1> QED
  BY <1>2, <1>3

(* A run gets to Complete with its record, or with Redis closed.           *)
LEMMA TurnRecords ==
    ASSUME IInv, NEW r \in Runs, TurnStep(r)
    PROVE  RecordInv'
<1> DEFINE AtRecord == {"insert", "manage", "remember", "complete"}
<1>1. TurnEffect(r)
  BY TurnEffects
<1>2. UNCHANGED <<durable, backend, open, resets>>
  BY <1>1 DEF TurnEffect, config, handles, reset
<1>3. faults' = 0 => torn' = {}
  BY <1>1 DEF IInv, TurnEffect, RecordInv
<1> SUFFICES ASSUME backend = "redis", durable = "file" => resets = 0,
                    NEW r0 \in Runs, pc'[r0] \in AtRecord, "redis" \in open
             PROVE  OnRecord(r0)'
  BY <1>2, <1>3 DEF RecordInv
<1>4. \A q \in Runs : pc[q] \in AtRecord => OnRecord(q)
  BY DEF IInv, RecordInv
<1>5. CASE r0 # r
  <2>1. OnRecord(r0)
    BY <1>1, <1>4, <1>5 DEF TurnEffect
  <2> QED
    BY <1>1, <2>1, OnRecordStays
<1>6. CASE r0 = r
  <2>1. CASE RecordAppend(r)
    <3>1. /\ WriteOK(r, "escalations") \/ WriteFails(r, "escalations")
          /\ Spoilt(r) \subseteq lost'
      BY <2>1, RecordAppendEffect
    <3>2. Handle("escalations") \in open
      <4>1. Intact
        BY StoreBundleAssumption DEF IInv, TypeOK, Intact
      <4> QED
        BY <4>1, RedisClosedFirst DEF IInv, Logs, TurnLogs
    <3>3. CASE r \in log'["escalations"]
      BY <1>6, <3>3 DEF OnRecord
    <3>4. CASE r \notin log'["escalations"]
      <4>1. r \in lost'
        BY <3>1, <3>2, <3>4 DEF Spoilt
      <4>2. faults' > 0
        BY <3>1, <3>2, <3>4, WriteWithFault DEF IInv, RecordInv, Write, Logs, TurnLogs
      <4> QED
        BY <1>6, <4>1, <4>2 DEF OnRecord
    <3> QED
      BY <3>3, <3>4
  <2>2. CASE RecordInsert(r) \/ MarkManaged(r) \/ Remember(r)
    <3>1. OnRecord(r)
      BY <1>4, <2>2, RecordInsertEffect, KeepEffect
    <3> QED
      BY <1>1, <1>6, <3>1, OnRecordStays
  <2>3. CASE PutReply(r)
    BY <1>6, <2>3, PutReplyEffect DEF OnRecord
  <2>4. CASE \/ \E p \in Posts : Deliver(r, p)
             \/ SeenOrClaim(r) \/ Classify(r) \/ Complete(r)
    BY <1>6, <2>4, DeliverEffect, ClassifyEffect, ClaimEffect
  <2> QED
    BY <2>1, <2>2, <2>3, <2>4 DEF TurnStep, Run
<1> QED
  BY <1>5, <1>6

(* Complete finds Redis open only where the record is.                     *)
LEMMA TurnCompletes ==
    ASSUME IInv, NEW r \in Runs, TurnStep(r)
    PROVE  CompletedHasRecord'
<1>1. TurnEffect(r)
  BY TurnEffects
<1>2. UNCHANGED <<durable, backend, resets>>
  BY <1>1 DEF TurnEffect, config, reset
<1> SUFFICES ASSUME backend = "redis", durable = "file" => resets = 0,
                    NEW p \in Posts, idem'[p] = "complete"
             PROVE  \E q \in Runs : post'[q] = p /\ OnRecord(q)'
  BY <1>2 DEF CompletedHasRecord, OnRecord
<1>3. ASSUME NEW q \in Runs, post[q] = p, OnRecord(q)
      PROVE  post'[q] = p /\ OnRecord(q)'
  BY <1>1, <1>3, OnRecordStays
<1>4. CASE idem[p] = "complete"
  <2>1. \E q \in Runs : post[q] = p /\ OnRecord(q)
    BY <1>4 DEF IInv, CompletedHasRecord, OnRecord
  <2> QED
    BY <1>3, <2>1
<1>5. CASE idem[p] # "complete"
  <2>1. SeenOrClaim(r) \/ Complete(r)
    BY <1>5, DeliverEffect, ClassifyEffect, PutReplyEffect, KeepEffect, RecordAppendEffect,
       RecordInsertEffect DEF TurnStep, Run, Aside
  <2>2. p = post[r] /\ pc[r] = "complete" /\ IdemUp
    BY <1>5, <2>1, ClaimEffect
  <2>3. OnRecord(r)
    BY <2>2 DEF IInv, RecordInv, IdemUp
  <2> QED
    BY <1>3, <2>2, <2>3
<1> QED
  BY <1>4, <1>5

(* Runs that a Reset has forgotten are over, and write no more.            *)
LEMMA TurnForgets ==
    ASSUME IInv, NEW r \in Runs, TurnStep(r)
    PROVE  ForgetInv'
<1>1. TurnEffect(r)
  BY TurnEffects
<1>2. UNCHANGED <<durable, wiping, failed, kept, ended, cleared, wiped>>
  BY <1>1 DEF TurnEffect, config, reset
<1>3. r \notin Ended /\ \A q \in Ended : q \in Ended'
  BY <1>1 DEF TurnEffect, Ended
<1>4. ASSUME NEW q \in Ended, NEW s \in Places, Gone(q, s)
      PROVE  Gone(q, s)'
  <2>1. q # r
    BY <1>3
  <2> QED
    BY <1>1, <1>4, <2>1 DEF TurnEffect, Gone, Named, Places
<1> QED
  BY <1>2, <1>3, <1>4 DEF IInv, ForgetInv

(* Every step of a run keeps the invariant.                                *)
LEMMA TurnStepKeeps ==
    ASSUME IInv, NEW r \in Runs, TurnStep(r)
    PROVE  IInv'
<1>1. TurnEffect(r)
  BY TurnEffects
<1>2. UNCHANGED <<config, handles, reset, restarts, durable, backend, phase, closers, open,
                  wiping, resets>>
  BY <1>1 DEF TurnEffect, config, handles, reset
<1>3. TypeOK'
  BY <1>1, <1>2, PartsKept, TypeParts, TypePartsNext, ConfigFixed DEF IInv, TurnEffect
<1>4. HandleInv'
  BY <1>1, <1>2, ConfigFixed DEF IInv, TurnEffect, HandleInv, Intact
<1>5. WipeInv'
  BY <1>2 DEF IInv, WipeInv, Pending
<1>6. RunInv'
  <2>1. ASSUME NEW q \in Runs, q # r PROVE RunAt(q)'
    BY <1>1, <1>2, <2>1 DEF IInv, RunInv, RunAt, TurnEffect, Named, Logs, TurnLogs
  <2> QED
    BY <1>1, <2>1 DEF RunInv, TurnEffect
<1> QED
  BY <1>3, <1>4, <1>5, <1>6, TurnUnread, TurnEvicts, TurnRecords, TurnCompletes, TurnForgets DEF IInv

-----------------------------------------------------------------------------
(* The list of Bundle.Reset, store by store.                               *)
LEMMA ResetOrderIs ==
    /\ ResetOrder \in Seq(ToSet(ResetOrder)) /\ Len(ResetOrder) = 8
    /\ ResetOrder[1] = "webhooks" /\ ResetOrder[2] = "classifications"
    /\ ResetOrder[3] = "replies" /\ ResetOrder[4] = "escalations"
    /\ ResetOrder[5] = "ring" /\ ResetOrder[6] = "idempotency"
    /\ ResetOrder[7] = "memory" /\ ResetOrder[8] = "conversions"
    /\ ToSet(ResetOrder) = Logs \cup {"ring", "idempotency"}
<1>1. /\ Len(ResetOrder) = 8 /\ DOMAIN ResetOrder = 1..8
      /\ ResetOrder[1] = "webhooks" /\ ResetOrder[2] = "classifications"
      /\ ResetOrder[3] = "replies" /\ ResetOrder[4] = "escalations"
      /\ ResetOrder[5] = "ring" /\ ResetOrder[6] = "idempotency"
      /\ ResetOrder[7] = "memory" /\ ResetOrder[8] = "conversions"
  BY DEF ResetOrder
<1>2. \A i : i \in 1..8 <=> i \in {1, 2, 3, 4, 5, 6, 7, 8}
  OBVIOUS
<1>3. ToSet(ResetOrder) = Logs \cup {"ring", "idempotency"}
  BY <1>1, <1>2 DEF ToSet, Logs, TurnLogs
<1>4. ResetOrder \in Seq(Logs \cup {"ring", "idempotency"})
  BY DEF ResetOrder, Logs, TurnLogs
<1> QED
  BY <1>1, <1>3, <1>4

(* The whole list is an end of itself.                                     *)
LEMMA AllRemains == Rest(ResetOrder)
  BY ResetOrderIs DEF Rest

(* What a Reset has still to do, after the store at its head.              *)
LEMMA RestTail ==
    ASSUME NEW w, Rest(w), w # <<>>
    PROVE  /\ Len(w) \in 1..8 /\ Rest(Tail(w)) /\ Len(Tail(w)) = Len(w) - 1
           /\ Head(w) = ResetOrder[9 - Len(w)]
           /\ ToSet(w) = {ResetOrder[k] : k \in (9 - Len(w))..8}
           /\ ToSet(Tail(w)) = {ResetOrder[k] : k \in (10 - Len(w))..8}
<1> DEFINE n == Len(w)
<1>1. w \in Seq(ToSet(ResetOrder)) /\ n <= 8 /\ \A i \in 1..n : w[i] = ResetOrder[8 - n + i]
  BY DEF Rest
<1>2. n \in Nat \ {0}
  BY <1>1, EmptySeq
<1>3. n \in 1..8
  <2>1. \A m \in Nat \ {0} : m <= 8 => m \in 1..8
    OBVIOUS
  <2> QED
    BY <1>1, <1>2, <2>1
<1>4. /\ Tail(w) \in Seq(ToSet(ResetOrder)) /\ Len(Tail(w)) = n - 1
      /\ \A i \in 1..(n - 1) : i + 1 \in 1..n /\ Tail(w)[i] = w[i + 1]
      /\ Head(w) = w[1]
  BY <1>1, <1>2
<1> HIDE DEF n
<1>5. ASSUME NEW i \in 1..(n - 1) PROVE Tail(w)[i] = ResetOrder[8 - (n - 1) + i]
  <2>1. 8 - n + (i + 1) = 8 - (n - 1) + i
    BY <1>3
  <2>2. Tail(w)[i] = ResetOrder[8 - n + (i + 1)]
    BY <1>1, <1>4
  <2> QED
    BY <2>1, <2>2
<1>6. Rest(Tail(w))
  BY <1>3, <1>4, <1>5 DEF Rest
<1>7. 1 \in 1..n /\ 8 - n + 1 = 9 - n
  BY <1>3
<1>8. Head(w) = ResetOrder[9 - n]
  BY <1>1, <1>4, <1>7
<1>9. ToSet(w) = {ResetOrder[k] : k \in (9 - n)..8}
  <2>1. \A i \in 1..n : 8 - n + i \in (9 - n)..8
    BY <1>3
  <2>2. \A k \in (9 - n)..8 : k - 8 + n \in 1..n /\ 8 - n + (k - 8 + n) = k
    BY <1>3
  <2>3. \A k \in (9 - n)..8 : ResetOrder[k] = w[k - 8 + n]
    BY <1>1, <2>2
  <2>4. ToSet(w) = {w[i] : i \in 1..n}
    BY <1>1 DEF ToSet, n
  <2> QED
    BY <1>1, <2>1, <2>2, <2>3, <2>4
<1>10. ToSet(Tail(w)) = {ResetOrder[k] : k \in (10 - n)..8}
  <2>1. \A i \in 1..(n - 1) : 8 - (n - 1) + i \in (10 - n)..8
    BY <1>3
  <2>2. \A k \in (10 - n)..8 : k - 9 + n \in 1..(n - 1) /\ 8 - (n - 1) + (k - 9 + n) = k
    BY <1>3
  <2>3. \A k \in (10 - n)..8 : ResetOrder[k] = Tail(w)[k - 9 + n]
    BY <1>5, <2>2
  <2>4. ToSet(Tail(w)) = {Tail(w)[i] : i \in 1..(n - 1)}
    BY <1>4 DEF ToSet
  <2>5. ASSUME NEW x \in ToSet(Tail(w)) PROVE x \in {ResetOrder[k] : k \in (10 - n)..8}
    <3>1. PICK i \in 1..(n - 1) : x = Tail(w)[i]
      BY <2>4
    <3>2. x = ResetOrder[8 - (n - 1) + i]
      BY <1>5, <3>1
    <3> QED
      BY <2>1, <3>2
  <2>6. ASSUME NEW k \in (10 - n)..8 PROVE ResetOrder[k] \in ToSet(Tail(w))
    BY <2>2, <2>3, <2>4
  <2> QED
    BY <2>5, <2>6
<1> QED
  BY <1>3, <1>4, <1>6, <1>8, <1>9, <1>10 DEF n

(* The store at the head of the list, and no other, is done with the step; *)
(* after the claims, nothing that the turns write is left to do.           *)
LEMMA HeadLeaves ==
    ASSUME NEW w, Rest(w), w # <<>>
    PROVE  /\ Head(w) \in ToSet(w) /\ ToSet(Tail(w)) \subseteq ToSet(w)
           /\ ToSet(w) \ ToSet(Tail(w)) = {Head(w)}
           /\ Head(w) = "idempotency" => TurnPlaces \cap ToSet(Tail(w)) = {}
<1> DEFINE n == Len(w)
<1>1. /\ n \in 1..8 /\ Head(w) = ResetOrder[9 - n]
      /\ ToSet(w) = {ResetOrder[k] : k \in (9 - n)..8}
      /\ ToSet(Tail(w)) = {ResetOrder[k] : k \in (10 - n)..8}
  BY RestTail
<1>2. \A i, j \in 1..8 : ResetOrder[i] = ResetOrder[j] => i = j
  <2>1. \A i \in 1..8 : i \in {1, 2, 3, 4, 5, 6, 7, 8}
    OBVIOUS
  <2> QED
    BY <2>1, ResetOrderIs
<1> HIDE DEF n
<1>3. /\ 9 - n \in (9 - n)..8 /\ 9 - n \in 1..8
      /\ \A k \in (10 - n)..8 : k \in (9 - n)..8 /\ k \in 1..8 /\ k # 9 - n
      /\ \A k \in (9 - n)..8 : k \in 1..8 /\ (k \in (10 - n)..8 \/ k = 9 - n)
  BY <1>1
<1>4. /\ Head(w) \in ToSet(w) /\ ToSet(Tail(w)) \subseteq ToSet(w)
      /\ ToSet(w) \ ToSet(Tail(w)) = {Head(w)}
  BY <1>1, <1>2, <1>3
<1>5. ASSUME Head(w) = "idempotency"
      PROVE  TurnPlaces \cap ToSet(Tail(w)) = {}
  <2>1. 9 - n = 6
    <3>1. 6 \in 1..8
      OBVIOUS
    <3> QED
      BY <1>1, <1>2, <1>3, <1>5, <3>1, ResetOrderIs
  <2>2. \A k \in (10 - n)..8 : k \in {7, 8}
    BY <1>1, <2>1
  <2>3. \A x \in ToSet(Tail(w)) : x \in {"memory", "conversions"}
    BY <1>1, <2>2, ResetOrderIs
  <2> QED
    BY <2>3 DEF TurnPlaces, TurnLogs
<1> QED
  BY <1>4, <1>5

(* When the escalations fail, their ring is skipped with them.             *)
LEMMA RingSkipped ==
    ASSUME NEW w, Rest(w), w # <<>>, Head(w) = "escalations"
    PROVE  Rest(Tail(Tail(w))) /\ ToSet(Tail(Tail(w))) \subseteq ToSet(w)
<1>1. /\ Len(w) \in 1..8 /\ Rest(Tail(w)) /\ Len(Tail(w)) = Len(w) - 1
      /\ Head(w) = ResetOrder[9 - Len(w)]
  BY RestTail
<1>2. Len(w) # 1
  <2>1. Len(w) = 1 => 9 - Len(w) = 8
    OBVIOUS
  <2> QED
    BY <1>1, <2>1, ResetOrderIs
<1> DEFINE v == Tail(w)
<1>3. v # <<>> /\ Rest(v) /\ ToSet(v) \subseteq ToSet(w)
  <2>1. Len(v) # 0 /\ Len(<<>>) = 0
    BY <1>1, <1>2
  <2>2. v # <<>>
    BY <2>1
  <2> QED
    BY <1>1, <2>2, HeadLeaves
<1> HIDE DEF v
<1>4. Rest(Tail(v)) /\ ToSet(Tail(v)) \subseteq ToSet(v)
  BY <1>3, RestTail, HeadLeaves
<1> QED
  BY <1>3, <1>4 DEF v

(* What is left of a Reset after its head, with files or on Mongo.         *)
LEMMA PendingTail ==
    ASSUME IInv, wiping # <<>>
    PROVE  /\ Pending(Tail(wiping)) /\ ToSet(Tail(wiping)) \subseteq ToSet(wiping)
           /\ ToSet(wiping) \ ToSet(Tail(wiping)) = {Head(wiping)}
           /\ Head(wiping) = "idempotency" => TurnPlaces \cap ToSet(Tail(wiping)) = {}
<1>1. CASE durable = "file"
  BY <1>1, RestTail, HeadLeaves DEF IInv, WipeInv, Pending
<1>2. CASE durable # "file"
  <2>1. wiping = <<"idempotency">>
    BY <1>2 DEF IInv, WipeInv, Pending
  <2>2. Tail(wiping) = <<>> /\ Head(wiping) = "idempotency"
    BY <2>1
  <2>3. ToSet(wiping) = {"idempotency"}
    BY <2>1 DEF ToSet
  <2> QED
    BY <1>2, <2>2, <2>3, NoElements DEF Pending
<1> QED
  BY <1>1, <1>2

-----------------------------------------------------------------------------
(* Reset begins: it has nothing behind it yet.                             *)
LEMMA ResetBeginKeeps ==
    ASSUME IInv, ResetBegin
    PROVE  IInv'
<1>1. /\ phase = "up" /\ wiping = <<>> /\ resets < MaxResets /\ resets' = resets + 1
      /\ wiping' = IF durable = "file" THEN ResetOrder ELSE <<"idempotency">>
      /\ failed' = FALSE /\ ended' = Ended
      /\ UNCHANGED <<config, handles, data, turns, kept, cleared, wiped, lost, faults, tears, restarts>>
  BY DEF ResetBegin, Within
<1>2. UNCHANGED <<durable, backend, phase, closers, open, log, torn, ring, known, idem, post, pc,
                  outcome>>
  BY <1>1 DEF config, handles, data, turns
<1>3. durable \in {"file", "mongo"}
  BY StoreBundleAssumption DEF IInv, TypeOK
<1>4. resets' \in 0..MaxResets /\ resets' > 0
  <2>1. \A n, m \in Nat : n < m => n + 1 \in 0..m /\ n + 1 > 0
    OBVIOUS
  <2>2. resets \in Nat /\ MaxResets \in Nat
    BY StoreBundleAssumption DEF IInv, TypeOK
  <2> QED
    BY <1>1, <2>1, <2>2
<1>5. /\ ToSet(wiping') \subseteq ToSet(ResetOrder) /\ Pending(wiping')
      /\ durable = "file" => Places \subseteq ToSet(wiping')
  <2>1. ToSet(<<"idempotency">>) \subseteq ToSet(ResetOrder)
    BY ResetOrderIs DEF ToSet
  <2>2. Places \subseteq ToSet(ResetOrder)
    BY ResetOrderIs DEF Places
  <2>3. CASE durable = "file"
    BY <1>1, <2>2, <2>3, AllRemains DEF Pending
  <2>4. CASE durable = "mongo"
    BY <1>1, <2>1, <2>4 DEF Pending
  <2> QED
    BY <1>3, <2>3, <2>4
<1>6. TypeOK'
  <2>1. ResetOK'
    BY <1>1, <1>4, <1>5 DEF IInv, TypeOK, ResetOK, Ended
  <2> QED
    BY <1>1, <2>1, PartsKept, TypeParts, TypePartsNext, ConfigFixed DEF IInv
<1>7. HandleInv'
  <2>1. Intact' => Intact
    BY <1>1, <1>2, <1>4 DEF Intact
  <2> QED
    BY <1>1, <1>2, <1>4, <2>1, ConfigFixed DEF IInv, HandleInv
<1>8. WipeInv'
  BY <1>2, <1>5 DEF WipeInv, Pending
<1>9. RunInv'
  BY <1>1, <1>2 DEF IInv, RunInv, RunAt
<1>10. ForgetInv'
  <2>1. Ended' = Ended
    BY <1>2 DEF Ended
  <2>2. \A r, s : Gone(r, s)' <=> Gone(r, s)
    BY <1>2 DEF Gone
  <2>3. ToSet(wiping) = {}
    BY <1>1, NoElements
  <2> QED
    BY <1>1, <1>2, <1>5, <2>1, <2>2, <2>3 DEF IInv, ForgetInv
<1>11. UnreadInv' /\ EvictedWhenFull'
  BY <1>4 DEF UnreadInv, EvictedWhenFull
<1>12. RecordInv'
  <2>1. durable = "file" => resets' # 0
    BY <1>4
  <2> QED
    BY <1>1, <1>2, <1>3, <2>1 DEF IInv, RecordInv, OnRecord
<1>13. CompletedHasRecord'
  <2>1. durable = "file" => resets' # 0
    BY <1>4
  <2> QED
    BY <1>1, <1>2, <1>3, <2>1 DEF IInv, CompletedHasRecord
<1> QED
  BY <1>6, <1>7, <1>8, <1>9, <1>10, <1>11, <1>12, <1>13 DEF IInv

(* One store of a Reset in progress, with the rest still to be done: what  *)
(* it does to the records is to forget some.                               *)
WipeEffect(ok, rest) ==
    /\ wiping # <<>> /\ Wiped(ok, rest)
    /\ Pending(rest) /\ ToSet(rest) \subseteq ToSet(wiping)
    /\ UNCHANGED <<config, phase, closers, turns, ended, resets, lost, tears, restarts>>
    /\ log' \in [Logs -> SUBSET Runs] /\ \A m \in Logs : log'[m] \subseteq log[m]
    /\ torn' \subseteq torn
    /\ ring' \in {ring, <<>>}
    /\ known' \in {known, {}}
    /\ durable = "mongo" => log' = log
    /\ idem' \in [Posts -> {"new", "claimed", "complete"}]
    /\ backend = "redis" => idem' = idem
    /\ open' \subseteq ToSet(BuildOrder)
    /\ "redis" \in open' => "redis" \in open
    /\ faults' \in 0..MaxFaults /\ faults <= faults'
    /\ faults' = 0 => faults = 0
    /\ faults' = 0 \/ durable = "mongo" => open' = open
    /\ ok => \A s \in Places \cap (ToSet(wiping) \ ToSet(rest)) : \A r : Gone(r, s)'
    /\ \/ cleared' = cleared
       \/ cleared' = ended /\ TurnPlaces \cap ToSet(rest) = {}

(* Reset forgets in each place, or says that it failed.                    *)
LEMMA WipeForgets ==
    ASSUME IInv, NEW ok \in BOOLEAN, NEW rest, WipeEffect(ok, rest)
    PROVE  ForgetInv'
<1> DEFINE done == ToSet(wiping) \ ToSet(rest)
<1>1. /\ wiping # <<>> /\ wiping' = rest /\ failed' = (failed \/ ~ok)
      /\ kept' = IF ok THEN kept \ done ELSE kept \cup done
      /\ wiped' = IF rest = <<>> /\ ~failed' THEN wiped \cup ended ELSE wiped
      /\ ended' = ended /\ (cleared' = cleared \/ (cleared' = ended /\ TurnPlaces \cap ToSet(rest) = {}))
      /\ UNCHANGED <<durable, pc>>
  BY DEF WipeEffect, Wiped, config, turns
<1>2. Ended' = Ended
  BY <1>1 DEF Ended
<1>3. ASSUME NEW r, NEW s \in Places, Gone(r, s) PROVE Gone(r, s)'
  <2>1. ring' = ring \/ ring' = <<>>
    BY DEF WipeEffect
  <2>2. s # "ring" => log'[s] \subseteq log[s]
    BY DEF WipeEffect, Places
  <2>3. r \in ToSet(ring') => r \in ToSet(ring)
    BY <2>1, NoElements
  <2>4. known' \subseteq known
    BY DEF WipeEffect
  <2> QED
    BY <1>3, <2>2, <2>3, <2>4 DEF Gone
<1>4. ok => \A s \in Places \cap done : \A r : Gone(r, s)'
  BY DEF WipeEffect
<1>5. ended \cup cleared \cup wiped \subseteq Ended
  BY DEF IInv, ForgetInv
<1>6. (ended \cup cleared \cup wiped)' \subseteq Ended'
  BY <1>1, <1>2, <1>5
<1> HIDE DEF done
<1> SUFFICES ASSUME durable = "file"
             PROVE  /\ \A r \in wiped', s \in Places : Gone(r, s)'
                    /\ \A r \in cleared', s \in Places \ kept' :
                          s \in TurnPlaces \/ s \notin ToSet(rest) => Gone(r, s)'
                    /\ rest # <<>> => \A r \in ended, s \in Places \ ToSet(rest) :
                          Gone(r, s)' \/ (failed' /\ s \in kept')
  BY <1>1, <1>6 DEF ForgetInv
<1>7. /\ \A r \in wiped, s \in Places : Gone(r, s)
      /\ \A r \in cleared, s \in Places \ kept :
            s \in TurnPlaces \/ s \notin ToSet(wiping) => Gone(r, s)
      /\ \A r \in ended, s \in Places \ ToSet(wiping) : Gone(r, s) \/ (failed /\ s \in kept)
  BY <1>1 DEF IInv, ForgetInv
<1>8. ASSUME NEW r \in ended, NEW s \in Places, s \notin ToSet(rest)
      PROVE  Gone(r, s)' \/ (failed' /\ s \in kept')
  <2>1. CASE s \in done
    BY <1>1, <1>4, <2>1
  <2>2. CASE s \notin done
    <3>1. s \notin ToSet(wiping)
      BY <1>8, <2>2 DEF done
    <3>2. Gone(r, s) \/ (failed /\ s \in kept)
      BY <1>7, <3>1
    <3> QED
      BY <1>1, <1>3, <2>2, <3>2
  <2> QED
    BY <2>1, <2>2
<1>9. ASSUME NEW r \in wiped', NEW s \in Places PROVE Gone(r, s)'
  <2>1. CASE r \in wiped
    BY <1>3, <1>7, <2>1
  <2>2. CASE r \notin wiped
    <3>1. r \in ended /\ rest = <<>> /\ ~failed'
      BY <1>1, <2>2
    <3> QED
      BY <1>8, <3>1, NoElements
  <2> QED
    BY <2>1, <2>2
<1>10. ASSUME NEW r \in cleared', NEW s \in Places \ kept',
              s \in TurnPlaces \/ s \notin ToSet(rest)
       PROVE  Gone(r, s)'
  <2>1. CASE cleared' = cleared
    <3>1. CASE ok /\ s \in done
      BY <1>4, <3>1
    <3>2. CASE s \notin done
      <4>1. s \notin kept
        BY <1>1, <3>2
      <4>2. s \notin ToSet(rest) => s \notin ToSet(wiping)
        BY <3>2 DEF done
      <4> QED
        BY <1>3, <1>7, <1>10, <2>1, <4>1, <4>2
    <3> QED
      BY <1>1, <3>1, <3>2
  <2>2. CASE cleared' # cleared
    <3>1. r \in ended /\ s \notin ToSet(rest)
      BY <1>1, <1>10, <2>2
    <3> QED
      BY <1>8, <3>1
  <2> QED
    BY <2>1, <2>2
<1> QED
  BY <1>8, <1>9, <1>10

(* Every store a Reset goes over keeps the invariant.                      *)
LEMMA WipeKeeps ==
    ASSUME IInv, NEW ok \in BOOLEAN, NEW rest, WipeEffect(ok, rest)
    PROVE  IInv'
<1>1. /\ wiping # <<>> /\ wiping' = rest
      /\ failed' = (failed \/ ~ok)
      /\ kept' = IF ok THEN kept \ (ToSet(wiping) \ ToSet(rest))
                       ELSE kept \cup (ToSet(wiping) \ ToSet(rest))
      /\ wiped' = IF rest = <<>> /\ ~failed' THEN wiped \cup ended ELSE wiped
      /\ Pending(rest) /\ ToSet(rest) \subseteq ToSet(wiping)
      /\ UNCHANGED <<config, phase, closers, turns, ended, resets, lost, tears, restarts>>
      /\ cleared' = cleared \/ cleared' = ended
  BY DEF WipeEffect, Wiped
<1>2. UNCHANGED <<durable, backend, post, pc, outcome>>
  BY <1>1 DEF config, turns
<1>3. /\ phase = "up" /\ resets > 0 /\ resets \in Nat
      /\ durable \in {"file", "mongo"}
  BY <1>1, StoreBundleAssumption DEF IInv, HandleInv, TypeOK
<1>4. BuildOrder' = BuildOrder
  BY <1>1, ConfigFixed DEF IInv
<1>5. TypeOK'
  <2>1. HandlesOK'
    BY <1>1, <1>4 DEF IInv, TypeOK, HandlesOK, WipeEffect
  <2>2. DataOK'
    <3>1. <<>> \in Seq(Runs) /\ Len(<<>>) = 0 /\ 0 <= Capacity
      BY StoreBundleAssumption
    <3>2. ring' \in Seq(Runs) /\ Len(ring') <= Capacity
      BY <3>1 DEF IInv, TypeOK, WipeEffect
    <3> QED
      BY <3>2 DEF IInv, TypeOK, DataOK, WipeEffect
  <2>3. ResetOK'
    <3>1. ended \subseteq Runs /\ cleared' \subseteq Runs /\ wiped' \subseteq Runs
      BY <1>1 DEF IInv, TypeOK
    <3>2. failed' \in BOOLEAN
      BY <1>1 DEF IInv, TypeOK
    <3>3. kept' \subseteq ToSet(ResetOrder) /\ ToSet(rest) \subseteq ToSet(ResetOrder)
      BY <1>1 DEF IInv, TypeOK
    <3> QED
      BY <1>1, <3>1, <3>2, <3>3 DEF IInv, TypeOK, ResetOK
  <2>4. CountsOK'
    <3>1. faults' \in 0..MaxFaults /\ faults <= faults' /\ tears' = tears /\ restarts' = restarts
      BY <1>1 DEF WipeEffect
    <3>2. /\ faults \in 0..MaxFaults /\ tears \in 0..faults /\ restarts \in 0..MaxRestarts
          /\ MaxFaults \in Nat /\ lost' \subseteq Runs
      BY <1>1, StoreBundleAssumption DEF IInv, TypeOK
    <3> QED
      BY <3>1, <3>2 DEF CountsOK
  <2> QED
    BY <1>1, <2>1, <2>2, <2>3, <2>4, PartsKept, TypeParts, TypePartsNext, ConfigFixed DEF IInv
<1>6. HandleInv'
  <2>1. Intact' => open' = ToSet(closers')
    <3>1. Intact' => (faults' = 0 \/ durable = "mongo") /\ Intact
      BY <1>1, <1>2, <1>3 DEF Intact, WipeEffect
    <3> QED
      BY <1>1, <3>1 DEF IInv, HandleInv, WipeEffect
  <2> QED
    BY <1>1, <1>3, <1>4, <2>1 DEF IInv, HandleInv
<1>7. WipeInv'
  BY <1>1, <1>2 DEF WipeInv, Pending
<1>8. RunInv'
  BY <1>1, <1>2 DEF IInv, RunInv, RunAt, WipeEffect, Logs, TurnLogs
<1>9. ForgetInv'
  BY WipeForgets
<1>10. UnreadInv' /\ EvictedWhenFull'
  BY <1>1, <1>3 DEF UnreadInv, EvictedWhenFull
<1>11. RecordInv'
  <2>1. (faults' = 0 => faults = 0) /\ torn' \subseteq torn /\ (faults > 0 => faults' > 0)
    <3>1. faults \in Int /\ faults' \in Int /\ faults <= faults'
      BY DEF IInv, TypeOK, WipeEffect
    <3> QED
      BY <3>1 DEF WipeEffect
  <2>2. durable = "mongo" => log' = log /\ open' = open
    BY DEF WipeEffect
  <2> QED
    BY <1>1, <1>2, <1>3, <2>1, <2>2 DEF IInv, RecordInv, OnRecord
<1>12. CompletedHasRecord'
  <2>1. durable = "mongo" => log' = log
    BY DEF WipeEffect
  <2>2. backend = "redis" => idem' = idem
    BY DEF WipeEffect
  <2>3. faults > 0 => faults' > 0
    <3>1. faults \in Int /\ faults' \in Int /\ faults <= faults'
      BY DEF IInv, TypeOK, WipeEffect
    <3> QED
      BY <3>1
  <2> QED
    BY <1>1, <1>2, <1>3, <2>1, <2>2, <2>3 DEF IInv, CompletedHasRecord
<1> QED
  BY <1>5, <1>6, <1>7, <1>8, <1>9, <1>10, <1>11, <1>12 DEF IInv

(* A file store is closed, truncated and opened again; on Mongo none is.   *)
LEMMA ResetFileHead ==
    ASSUME IInv, wiping # <<>>, Head(wiping) \in Logs
    PROVE  /\ durable = "file" /\ Head(wiping) \in ToSet(BuildOrder) /\ Head(wiping) # "redis"
           /\ faults = 0 => Head(wiping) \in open
<1>1. phase = "up"
  BY DEF IInv, HandleInv
<1>2. durable = "file"
  <2>1. <<"idempotency">>[1] = "idempotency" /\ Head(<<"idempotency">>) = "idempotency"
    OBVIOUS
  <2> QED
    BY <2>1 DEF IInv, WipeInv, Pending, Logs, TurnLogs
<1>3. Head(wiping) \in ToSet(BuildOrder) /\ Head(wiping) # "redis"
  BY <1>2, OrderFacts DEF IInv
<1>4. ToSet(closers) = ToSet(BuildOrder)
  <2>1. /\ closers \in Seq(Stores) /\ Len(closers) = Len(BuildOrder)
        /\ \A i \in 1..Len(closers) : closers[i] = BuildOrder[i]
    BY <1>1 DEF IInv, HandleInv
  <2>2. BuildOrder \in Seq(Stores)
    BY OrderFacts DEF IInv
  <2> QED
    BY <2>1, <2>2 DEF ToSet
<1>5. faults = 0 => Head(wiping) \in open
  BY <1>3, <1>4 DEF IInv, HandleInv, Intact
<1> QED
  BY <1>2, <1>3, <1>5

(* A store that was truncated remembers nobody.                            *)
LEMMA EmptiedForgets ==
    ASSUME TypeOK, NEW s \in Logs, Emptied(s)
    PROVE  /\ log' \in [Logs -> SUBSET Runs] /\ \A m \in Logs : log'[m] \subseteq log[m]
           /\ torn' \subseteq torn /\ log'[s] = {}
<1>1. log \in [Logs -> SUBSET Runs]
  BY DEF TypeOK
<1>2. log' = [log EXCEPT ![s] = {}] /\ torn' = torn \ {s}
  BY DEF Emptied
<1> QED
  BY <1>1, <1>2

(* Reset of a file store that succeeds.                                    *)
LEMMA ResetFileKeeps ==
    ASSUME IInv, ResetFile
    PROVE  IInv'
<1>0. PICK s \in Logs : s = Head(wiping)
  BY DEF ResetFile
<1>1. /\ wiping # <<>> /\ s \in Logs /\ Emptied(s) /\ open' = open \cup {s}
      /\ known' = (IF s = "memory" THEN {} ELSE known)
      /\ Wiped(TRUE, Tail(wiping))
      /\ UNCHANGED <<config, phase, closers, ring, idem, turns, ended, cleared, resets, lost,
                     faults, tears, restarts>>
  BY <1>0 DEF ResetFile
<1>2. /\ durable = "file" /\ s \in ToSet(BuildOrder) /\ s # "redis"
      /\ faults = 0 => s \in open
      /\ Pending(Tail(wiping)) /\ ToSet(Tail(wiping)) \subseteq ToSet(wiping)
      /\ ToSet(wiping) \ ToSet(Tail(wiping)) = {s}
  BY <1>0, <1>1, ResetFileHead, PendingTail
<1>3. /\ log' \in [Logs -> SUBSET Runs] /\ \A m \in Logs : log'[m] \subseteq log[m]
      /\ torn' \subseteq torn /\ log'[s] = {}
  BY <1>1, EmptiedForgets DEF IInv
<1>4. s # "ring" /\ \A r : Gone(r, s)'
  BY <1>1, <1>3 DEF Gone, Logs, TurnLogs
<1>5. faults \in 0..MaxFaults /\ faults <= faults
  BY DEF IInv, TypeOK
<1>6. open \subseteq ToSet(BuildOrder) /\ idem \in [Posts -> {"new", "claimed", "complete"}]
  BY DEF IInv, TypeOK
<1>7. WipeEffect(TRUE, Tail(wiping))
  BY <1>1, <1>2, <1>3, <1>4, <1>5, <1>6 DEF WipeEffect
<1> QED
  BY <1>7, WipeKeeps

(* And one that fails.                                                     *)
LEMMA ResetFileFailsKeeps ==
    ASSUME IInv, ResetFileFails
    PROVE  IInv'
<1> DEFINE s == Head(wiping)
           rest == IF s = "escalations" THEN Tail(Tail(wiping)) ELSE Tail(wiping)
<1>1. /\ wiping # <<>> /\ s \in Logs
      /\ faults < MaxFaults /\ faults' = faults + 1
      /\ Emptied(s) \/ UNCHANGED <<log, torn>>
      /\ open' = open \ {s}
      /\ Wiped(FALSE, rest)
      /\ UNCHANGED <<config, phase, closers, ring, known, idem, turns, ended, cleared, resets,
                     lost, tears, restarts>>
  BY DEF ResetFileFails, Within
<1>2. durable = "file" /\ Pending(Tail(wiping)) /\ ToSet(Tail(wiping)) \subseteq ToSet(wiping)
  BY <1>1, ResetFileHead, PendingTail
<1>3. Pending(rest) /\ ToSet(rest) \subseteq ToSet(wiping)
  <2>1. CASE s = "escalations"
    BY <1>1, <1>2, <2>1, RingSkipped DEF IInv, WipeInv, Pending
  <2>2. CASE s # "escalations"
    BY <1>2, <2>2
  <2> QED
    BY <2>1, <2>2
<1> HIDE DEF s, rest
<1>4. /\ log' \in [Logs -> SUBSET Runs] /\ \A m \in Logs : log'[m] \subseteq log[m]
      /\ torn' \subseteq torn
  <2>1. CASE Emptied(s)
    BY <1>1, <2>1, EmptiedForgets DEF IInv
  <2>2. CASE UNCHANGED <<log, torn>>
    BY <2>2 DEF IInv, TypeOK
  <2> QED
    BY <1>1, <2>1, <2>2
<1>5. faults' \in 0..MaxFaults /\ faults <= faults' /\ faults' # 0
  <2>1. \A f, m \in Nat : f < m => f + 1 \in 0..m /\ f <= f + 1 /\ f + 1 # 0
    OBVIOUS
  <2>2. faults \in Nat /\ MaxFaults \in Nat
    BY StoreBundleAssumption DEF IInv, TypeOK
  <2> QED
    BY <1>1, <2>1, <2>2
<1>6. open \subseteq ToSet(BuildOrder) /\ idem \in [Posts -> {"new", "claimed", "complete"}]
  BY DEF IInv, TypeOK
<1>7. WipeEffect(FALSE, rest)
  BY <1>1, <1>2, <1>3, <1>4, <1>5, <1>6 DEF WipeEffect
<1> QED
  BY <1>7, WipeKeeps

(* The ring, after its file.                                               *)
LEMMA ResetRingKeeps ==
    ASSUME IInv, ResetRing
    PROVE  IInv'
<1>1. /\ wiping # <<>> /\ Head(wiping) = "ring" /\ ring' = <<>> /\ Wiped(TRUE, Tail(wiping))
      /\ UNCHANGED <<config, handles, log, torn, known, idem, turns, ended, cleared, resets, lost,
                     faults, tears, restarts>>
  BY DEF ResetRing
<1>2. /\ Pending(Tail(wiping)) /\ ToSet(Tail(wiping)) \subseteq ToSet(wiping)
      /\ ToSet(wiping) \ ToSet(Tail(wiping)) = {"ring"}
  BY <1>1, PendingTail
<1>3. /\ log \in [Logs -> SUBSET Runs] /\ open \subseteq ToSet(BuildOrder)
      /\ idem \in [Posts -> {"new", "claimed", "complete"}]
      /\ faults \in 0..MaxFaults /\ faults <= faults
  BY DEF IInv, TypeOK
<1>4. \A r : Gone(r, "ring")'
  BY <1>1, NoElements DEF Gone
<1>5. UNCHANGED <<phase, closers, open>>
  BY <1>1 DEF handles
<1>6. WipeEffect(TRUE, Tail(wiping))
  BY <1>1, <1>2, <1>3, <1>4, <1>5 DEF WipeEffect
<1> QED
  BY <1>6, WipeKeeps

(* The claims, before memory and conversions: memstore forgets them, Redis *)
(* is skipped.                                                             *)
LEMMA ResetIdempotencyKeeps ==
    ASSUME IInv, ResetIdempotency
    PROVE  IInv'
<1>1. /\ wiping # <<>> /\ Head(wiping) = "idempotency" /\ Wiped(TRUE, Tail(wiping))
      /\ idem' = IF backend = "memstore" THEN [p \in Posts |-> "new"] ELSE idem
      /\ cleared' = ended
      /\ UNCHANGED <<config, handles, log, torn, ring, known, turns, ended, resets, lost, faults,
                     tears, restarts>>
  BY DEF ResetIdempotency
<1>2. /\ Pending(Tail(wiping)) /\ ToSet(Tail(wiping)) \subseteq ToSet(wiping)
      /\ ToSet(wiping) \ ToSet(Tail(wiping)) = {"idempotency"}
      /\ TurnPlaces \cap ToSet(Tail(wiping)) = {}
  BY <1>1, PendingTail
<1>3. /\ log \in [Logs -> SUBSET Runs] /\ open \subseteq ToSet(BuildOrder)
      /\ faults \in 0..MaxFaults /\ faults <= faults
  BY DEF IInv, TypeOK
<1>4. idem' \in [Posts -> {"new", "claimed", "complete"}] /\ (backend = "redis" => idem' = idem)
  BY <1>1 DEF IInv, TypeOK
<1>5. UNCHANGED <<phase, closers, open>>
  BY <1>1 DEF handles
<1>6. "idempotency" \notin Places
  BY DEF Places, Logs, TurnLogs
<1>7. WipeEffect(TRUE, Tail(wiping))
  BY <1>1, <1>2, <1>3, <1>4, <1>5, <1>6 DEF WipeEffect
<1> QED
  BY <1>7, WipeKeeps

-----------------------------------------------------------------------------
(* Before the first process is built there is nothing in any store.        *)
LEMMA InitEstablishes == Init => IInv
<1> SUFFICES ASSUME Init PROVE IInv
  OBVIOUS
<1>1. TypeOK
  <2>1. HandlesOK
    BY NoElements DEF Init, HandlesOK
  <2>2. DataOK
    <3>1. <<>> \in Seq(Runs) /\ Len(<<>>) = 0 /\ 0 <= Capacity
      BY StoreBundleAssumption
    <3> QED
      BY <3>1 DEF Init, DataOK
  <2>3. TurnsOK
    BY DEF Init, TurnsOK
  <2>4. ResetOK
    <3>1. ToSet(wiping) = {} /\ failed = FALSE /\ kept = {} /\ ended = {} /\ cleared = {}
          /\ wiped = {} /\ resets = 0
      BY NoElements DEF Init
    <3>2. 0 \in 0..MaxResets
      BY StoreBundleAssumption
    <3> QED
      BY <3>1, <3>2 DEF ResetOK
  <2>5. CountsOK
    <3>1. 0 \in 0..MaxFaults /\ 0 \in 0..0 /\ 0 \in 0..MaxRestarts
      BY StoreBundleAssumption
    <3> QED
      BY <3>1 DEF Init, CountsOK
  <2> QED
    BY <2>1, <2>2, <2>3, <2>4, <2>5, TypeParts DEF Init
<1>2. HandleInv
  <2>1. <<>> \in Seq(Stores) /\ Len(<<>>) = 0 /\ Len(BuildOrder) \in Nat
    BY <1>1, OrderFacts
  <2>2. 0 <= Len(BuildOrder)
    BY <2>1
  <2> QED
    BY <2>1, <2>2, NoElements DEF Init, HandleInv
<1>3. WipeInv
  BY NothingRemains DEF Init, WipeInv, Pending
<1>4. RunInv
  BY DEF Init, RunInv, RunAt, Logs, TurnLogs
<1>5. ForgetInv
  BY DEF Init, ForgetInv
<1>6. UnreadInv
  <2>1. Unread = {}
    BY NoElements DEF Init, Unread
  <2> QED
    BY <2>1, FS_EmptySet DEF Init, UnreadInv
<1>7. EvictedWhenFull
  BY DEF Init, EvictedWhenFull, Logs, TurnLogs
<1>8. RecordInv /\ CompletedHasRecord
  BY DEF Init, RecordInv, CompletedHasRecord, OnRecord
<1> QED
  BY <1>1, <1>2, <1>3, <1>4, <1>5, <1>6, <1>7, <1>8 DEF IInv

(* The inductive invariant of the bundle: the handles, what is left of a   *)
(* Reset, what the records say of their runs.                              *)
THEOREM Invariance == Spec => []IInv
<1>1. IInv /\ [Next]_vars => IInv'
  <2> SUFFICES ASSUME IInv, [Next]_vars PROVE IInv'
    OBVIOUS
  <2>1. CASE HandleStep
    BY <2>1, HandleStepKeeps
  <2>2. CASE Exit
    BY <2>2, ExitKeeps
  <2>3. CASE \E r \in Runs : TurnStep(r)
    BY <2>3, TurnStepKeeps
  <2>4. CASE ResetBegin \/ ResetFile \/ ResetFileFails \/ ResetRing \/ ResetIdempotency
    BY <2>4, ResetBeginKeeps, ResetFileKeeps, ResetFileFailsKeeps, ResetRingKeeps,
       ResetIdempotencyKeeps
  <2>5. CASE UNCHANGED vars
    <3>1. UNCHANGED <<config, handles, data, turns, reset, lost, faults, tears, restarts>>
      BY <2>5 DEF vars
    <3>2. UNCHANGED <<durable, backend, phase, closers, open, log, torn, ring, known, idem, post, pc,
                      outcome, wiping, failed, kept, ended, cleared, wiped, resets>>
      BY <3>1 DEF config, handles, data, turns, reset
    <3>3. TypeOK' /\ HandleInv' /\ WipeInv' /\ RunInv'
      BY <3>1, <3>2, ConfigFixed, PartsKept, TypeParts, TypePartsNext
         DEF IInv, HandleInv, Intact, WipeInv, Pending, RunInv, RunAt
    <3>4. ForgetInv' /\ UnreadInv' /\ RecordInv' /\ CompletedHasRecord'
      <4>1. Unread' = Unread
        BY <3>2 DEF Unread
      <4> QED
        BY <3>1, <3>2, <4>1 DEF IInv, ForgetInv, Gone, Ended, UnreadInv, RecordInv, OnRecord,
           CompletedHasRecord
    <3>5. EvictedWhenFull'
      BY <3>1, <3>2, ListedKept DEF IInv, EvictedWhenFull
    <3> QED
      BY <3>3, <3>4, <3>5 DEF IInv
  <2> QED
    BY <2>1, <2>2, <2>3, <2>4, <2>5 DEF Next, HandleStep, TurnStep
<1> QED
  BY InitEstablishes, <1>1, PTL DEF Spec

(* wire.go on Build, "It never partially opens resources", and the ring    *)
(* that evicts only when it is full, for every instance.                   *)
THEOREM BundleIsSound == Spec => []BundleInv
<1>1. IInv => BundleInv
  BY DEF IInv, BundleInv, NothingLeaks, HandleInv
<1> QED
  BY <1>1, Invariance, PTL

(* What GET /escalations shows survives a crash, but for one line per torn *)
(* write.                                                                  *)
THEOREM ListedSurvives == Spec => []ListedIsDurable
<1>1. IInv => ListedIsDurable
  <2> SUFFICES ASSUME IInv, resets = 0
               PROVE  Cardinality({r \in Runs : Listed(r) /\ r \notin log["escalations"]}) <= tears
    BY DEF ListedIsDurable
  <2> DEFINE Shown == {r \in Runs : Listed(r) /\ r \notin log["escalations"]}
  <2>1. tears \in Nat
    BY DEF IInv, TypeOK
  <2>2. CASE durable = "file"
    <3>1. Shown \subseteq Unread
      BY <2>2, ListedIsRing DEF IInv, TypeOK, RingListed, Unread
    <3>2. /\ IsFiniteSet(Unread)
          /\ Cardinality(Unread) + (IF "escalations" \in torn THEN 1 ELSE 0) <= tears
      BY <2>2 DEF IInv, UnreadInv
    <3>3. IsFiniteSet(Shown) /\ Cardinality(Shown) <= Cardinality(Unread)
      BY <3>1, <3>2, FS_Subset
    <3>4. Cardinality(Shown) \in Nat /\ Cardinality(Unread) \in Nat
      BY <3>2, <3>3, FS_CardinalityType
    <3> QED
      BY <2>1, <3>2, <3>3, <3>4
  <2>3. CASE durable # "file"
    <3>1. Shown = {}
      BY <2>3 DEF Listed
    <3> QED
      BY <2>1, <3>1, FS_EmptySet
  <2> QED
    BY <2>2, <2>3
<1> QED
  BY <1>1, Invariance, PTL

(* A Reset of the files that returned nil has forgotten every run that was *)
(* over when it began.                                                     *)
THEOREM ResetForgetsAll == Spec => []ResetForgets
<1>1. IInv => ResetForgets
  <2> SUFFICES ASSUME IInv, durable = "file", NEW r \in wiped
               PROVE  ~Listed(r) /\ r \notin known /\ \A l \in Logs : r \notin log[l]
    BY DEF ResetForgets
  <2>1. r \in Runs /\ \A s \in Places : Gone(r, s)
    BY DEF IInv, TypeOK, ForgetInv
  <2>2. r \notin ToSet(ring) /\ r \notin known /\ \A l \in Logs : r \notin log[l]
    BY <2>1 DEF Gone, Places, Logs, TurnLogs
  <2> QED
    BY <2>1, <2>2, ListedIsRing DEF IInv, TypeOK, RingListed
<1> QED
  BY <1>1, Invariance, PTL

(* What a run that was over before a Reset may have left when a post is    *)
(* claimed again.                                                          *)
Clean(r0) ==
    /\ \A l \in Logs \ (kept \cup ToSet(wiping)) : r0 \notin log[l]
    /\ \A l \in TurnLogs \ kept : r0 \notin log[l]
    /\ "ring" \notin kept => ~Listed(r0)
    /\ "memory" \notin kept \cup ToSet(wiping) => r0 \notin known

(* A post that is claimed again after a Reset finds nothing of what its    *)
(* earlier runs left, but where the Reset failed, and but for memory and   *)
(* conversions as long as the Reset has not come to them.                  *)
THEOREM RerunsStartClean == Spec => RerunStartsClean
<1>1. IInv => \A r0 \in cleared : durable = "file" => Clean(r0)
  <2> SUFFICES ASSUME IInv, NEW r0 \in cleared, durable = "file"
               PROVE  Clean(r0)
    OBVIOUS
  <2>1. /\ r0 \in Runs
        /\ \A s \in Places \ kept : s \in TurnPlaces \/ s \notin ToSet(wiping) => Gone(r0, s)
    BY DEF IInv, TypeOK, ForgetInv
  <2>2. /\ \A l \in Logs \ (kept \cup ToSet(wiping)) : r0 \notin log[l]
        /\ \A l \in TurnLogs \ kept : r0 \notin log[l]
    BY <2>1 DEF Gone, Places, TurnPlaces, Logs, TurnLogs
  <2>3. "ring" \notin kept => r0 \notin ToSet(ring)
    BY <2>1 DEF Gone, Places, TurnPlaces
  <2>4. "memory" \notin kept \cup ToSet(wiping) => r0 \notin known
    BY <2>1 DEF Gone, Places, Logs
  <2> QED
    BY <2>1, <2>2, <2>3, <2>4, ListedIsRing DEF IInv, TypeOK, RingListed, Clean
<1>2. IInv => [\A r \in Runs : durable = "file" /\ Claims(r) =>
                  \A r0 \in Earlier(r) :
                      /\ \A l \in Logs \ (kept \cup ToSet(wiping)) : r0 \notin log[l]
                      /\ \A l \in TurnLogs \ kept : r0 \notin log[l]
                      /\ "ring" \notin kept => ~Listed(r0)
                      /\ "memory" \notin kept \cup ToSet(wiping) => r0 \notin known]_vars
  BY <1>1 DEF Clean, Earlier
<1> QED
  BY <1>2, Invariance, PTL DEF RerunStartsClean

(* A claim that is complete in Redis has a note or an escalation on disk   *)
(* behind it, or a failing write that kept the escalation off, whatever    *)
(* shutdown closed in the meantime.                                        *)
THEOREM CompletedIsRecorded == Spec => []CompletedHasRecord
<1>1. IInv => CompletedHasRecord
  BY DEF IInv
<1> QED
  BY <1>1, Invariance, PTL
=============================================================================
