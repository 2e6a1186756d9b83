-------------------------- MODULE DebouncerProofs --------------------------
(***************************************************************************)
(* Proofs about the debouncer, for any conversations, posts, window and    *)
(* ceiling and any number of messages: accepted messages are partitioned   *)
(* into buffered, in flight, flushed and dropped; a buffer always has a    *)
(* wake-up, due neither too early nor past the ceiling; turns are in order *)
(* without a repeated post; and every step is one of Collector or none.    *)
(*                                                                         *)
(* Two facts carry the argument.  The number of a message is larger than   *)
(* that of every earlier one, so no timer but the one a Push arms belongs  *)
(* to the buffer it appends to.  And a message is buffered under its own   *)
(* conversation, so taking or dropping one buffer leaves the others alone. *)
(***************************************************************************)
EXTENDS Debouncer, TLAPS

(* A message is buffered under its own conversation, and its number is its *)
(* own among the buffered ones.                                            *)
HomeInv ==
    /\ \A k \in Keys : \A m \in Elements(msgs[k]) : KeyOf[m[2]] = k
    /\ \A k, l \in Keys : \A m \in Elements(msgs[k]), n \in Elements(msgs[l]) :
         m[1] = n[1] => m = n

(* fire hands on no empty buffer.                                          *)
TurnInv == \A t \in inflight : t # <<>>

(* No timer is from the future.  The timer of a buffer is for its key; it  *)
(* is due by the ceiling, and not before the window or the ceiling; a      *)
(* buffer whose timer is gone has a callback pending.                      *)
TimerInv == \A t \in timers : t.id <= accepted

Wake(k) ==
    /\ \A t \in Own(k) :
         /\ t.key = k
         /\ t.left = 0 \/ age[k] + t.left <= MaxWait
         /\ quiet[k] + t.left >= Window \/ age[k] + t.left >= MaxWait
    /\ msgs[k] # <<>> /\ Own(k) = {} =>
         pending[k] > 0 /\ (quiet[k] = Window \/ age[k] = MaxWait)

WakeInv == \A k \in Keys : Wake(k)

IInv ==
    /\ TypeOK
    /\ HomeInv /\ TurnInv
    /\ MessagesConserved /\ TurnsOrdered
    /\ TimerInv /\ WakeInv

-----------------------------------------------------------------------------
(* Buffers and turns as sequences of numbered posts.                       *)
LEMMA MessageParts ==
    ASSUME NEW m \in Messages
    PROVE  m = <<m[1], m[2]>> /\ m[1] \in 1..MaxAccepted /\ m[2] \in Posts
  BY DEF Messages

(* The elements of a buffer; a buffer that is not empty has a last one.    *)
LEMMA SequenceElements ==
    ASSUME NEW s \in Seq(Messages)
    PROVE  /\ Elements(s) \subseteq Messages
           /\ Elements(s) = {} <=> s = <<>>
           /\ s # <<>> => Len(s) \in Nat \ {0} /\ s[Len(s)] \in Elements(s)
<1>1. Elements(s) \subseteq Messages
  BY DEF Elements
<1>2. s # <<>> => Len(s) \in Nat \ {0} /\ s[Len(s)] \in Elements(s)
  BY DEF Elements
<1>3. s = <<>> => Elements(s) = {}
  BY DEF Elements
<1> QED
  BY <1>1, <1>2, <1>3

(* Appending, as Push does.                                                *)
LEMMA AppendElements ==
    ASSUME NEW s \in Seq(Messages), NEW x \in Messages
    PROVE  /\ Append(s, x) \in Seq(Messages) /\ Append(s, x) # <<>>
           /\ Len(s) \in Nat /\ Len(Append(s, x)) = Len(s) + 1
           /\ Append(s, x)[Len(s) + 1] = x
           /\ \A i \in 1..Len(s) : Append(s, x)[i] = s[i]
           /\ Elements(Append(s, x)) = Elements(s) \cup {x}
<1>1. /\ Append(s, x) \in Seq(Messages) /\ Append(s, x) # <<>>
      /\ Len(s) \in Nat /\ Len(Append(s, x)) = Len(s) + 1
      /\ Append(s, x)[Len(s) + 1] = x
      /\ \A i \in 1..Len(s) : Append(s, x)[i] = s[i]
  OBVIOUS
<1>2. 1..(Len(s) + 1) = 1..Len(s) \cup {Len(s) + 1}
  BY <1>1
<1>3. Elements(Append(s, x)) = Elements(s) \cup {x}
  BY <1>1, <1>2 DEF Elements
<1> QED
  BY <1>1, <1>3

(* The wait of a re-armed timer ends at the window or at the ceiling.      *)
LEMMA ClampedWait ==
    ASSUME NEW a \in 0..MaxWait
    PROVE  /\ windowClamped(a) \in 0..Window
           /\ a + windowClamped(a) <= MaxWait
           /\ windowClamped(a) = Window \/ a + windowClamped(a) = MaxWait
  BY WindowAssumption DEF windowClamped

(* Numbers of messages and of the timers of buffers.                       *)
LEMMA KnownNumbers ==
    ASSUME TypeOK, HomeInv, NothingVanishes
    PROVE  /\ \A m \in InBuffers \cup InFlight \cup flushed \cup dropped :
                m[1] \in 1..accepted
           /\ \A k \in Keys : msgs[k] # <<>> => LastId(k) \in 1..accepted
           /\ \A k, l \in Keys :
                k # l /\ msgs[k] # <<>> /\ msgs[l] # <<>> => LastId(k) # LastId(l)
<1>1. \A m \in InBuffers \cup InFlight \cup flushed \cup dropped : m[1] \in 1..accepted
  BY DEF NothingVanishes
<1>2. ASSUME NEW k \in Keys, msgs[k] # <<>>
      PROVE  msgs[k][Len(msgs[k])] \in Elements(msgs[k])
  BY <1>2, SequenceElements DEF TypeOK
<1>3. \A k \in Keys : msgs[k] # <<>> => LastId(k) \in 1..accepted
  BY <1>1, <1>2 DEF LastId, InBuffers
<1>4. ASSUME NEW k \in Keys, NEW l \in Keys, k # l, msgs[k] # <<>>, msgs[l] # <<>>
      PROVE  LastId(k) # LastId(l)
  <2> DEFINE m == msgs[k][Len(msgs[k])]
             n == msgs[l][Len(msgs[l])]
  <2>1. m \in Elements(msgs[k]) /\ n \in Elements(msgs[l])
    BY <1>2, <1>4
  <2>2. KeyOf[m[2]] = k /\ KeyOf[n[2]] = l
    BY <2>1 DEF HomeInv
  <2>3. m[1] # n[1]
    BY <1>4, <2>1, <2>2 DEF HomeInv
  <2> QED
    BY <2>3 DEF LastId
<1> QED
  BY <1>1, <1>3, <1>4

(* Emptying one buffer takes its messages out and no others.               *)
LEMMA EmptiedBuffer ==
    ASSUME TypeOK, HomeInv, NEW k \in Keys, msgs' = [msgs EXCEPT ![k] = <<>>]
    PROVE  /\ msgs' \in [Keys -> Seq(Messages)]
           /\ msgs'[k] = <<>> /\ \A l \in Keys : l # k => msgs'[l] = msgs[l]
           /\ \A l \in Keys : Elements(msgs'[l]) \subseteq Elements(msgs[l])
           /\ Elements(msgs[k]) \subseteq InBuffers
           /\ InBuffers' = InBuffers \ Elements(msgs[k])
<1>1. msgs \in [Keys -> Seq(Messages)] /\ <<>> \in Seq(Messages)
  BY DEF TypeOK
<1>2. msgs' \in [Keys -> Seq(Messages)] /\ msgs'[k] = <<>> /\ \A l \in Keys : l # k => msgs'[l] = msgs[l]
  BY <1>1
<1>3. Elements(msgs'[k]) = {}
  BY <1>1, <1>2, SequenceElements
<1>4. Elements(msgs[k]) \subseteq InBuffers
  BY DEF InBuffers
<1>5. \A l \in Keys : l # k => Elements(msgs[l]) \cap Elements(msgs[k]) = {}
  BY DEF HomeInv
<1>6. InBuffers' = InBuffers \ Elements(msgs[k])
  <2>1. ASSUME NEW m \in InBuffers' PROVE m \in InBuffers \ Elements(msgs[k])
    <3>1. PICK l \in Keys : m \in Elements(msgs'[l])
      BY <2>1 DEF InBuffers
    <3>2. l # k /\ m \in Elements(msgs[l])
      BY <1>2, <1>3, <3>1
    <3> QED
      BY <1>5, <3>2 DEF InBuffers
  <2>2. ASSUME NEW m \in InBuffers \ Elements(msgs[k]) PROVE m \in InBuffers'
    <3>1. PICK l \in Keys : m \in Elements(msgs[l])
      BY <2>2 DEF InBuffers
    <3>2. m \in Elements(msgs'[l])
      BY <1>2, <2>2, <3>1
    <3> QED
      BY <3>2 DEF InBuffers
  <2> QED
    BY <2>1, <2>2
<1>7. \A l \in Keys : Elements(msgs'[l]) \subseteq Elements(msgs[l])
  BY <1>2, <1>3
<1> QED
  BY <1>2, <1>4, <1>6, <1>7

-----------------------------------------------------------------------------
(* The messages.                                                           *)
messages == <<msgs, inflight, accepted, flushed, dropped>>

MessagesTyped ==
    /\ msgs \in [Keys -> Seq(Messages)]
    /\ inflight \in SUBSET Seq(Messages)
    /\ accepted \in 0..MaxAccepted
    /\ flushed \in SUBSET Messages
    /\ dropped \in SUBSET Messages

MessageInv == MessagesTyped /\ HomeInv /\ TurnInv /\ MessagesConserved /\ TurnsOrdered

(* A step that leaves the messages alone.                                  *)
LEMMA MessagesKept ==
    ASSUME MessageInv, UNCHANGED messages
    PROVE  MessageInv'
<1>1. MessagesTyped' /\ TurnInv'
  BY DEF MessageInv, messages, MessagesTyped, TurnInv
<1>2. HomeInv'
  BY DEF MessageInv, messages, HomeInv, Elements
<1>3. InBuffers' = InBuffers /\ InFlight' = InFlight
  BY DEF messages, InBuffers, InFlight, Elements
<1>4. MessagesConserved'
  BY <1>3 DEF MessageInv, messages, MessagesConserved, EachMessageOnce, NothingVanishes, Elements
<1>5. TurnsOrdered'
  BY DEF MessageInv, messages, TurnsOrdered, Ordered
<1> QED
  BY <1>1, <1>2, <1>4, <1>5 DEF MessageInv

(* Push appends a message with a number of its own.                        *)
LEMMA PushAppends ==
    ASSUME IInv, NEW p \in Posts, Push(p)
    PROVE  LET k == KeyOf[p]
               new == <<accepted + 1, p>>
           IN  /\ k \in Keys /\ new \in Messages
               /\ msgs' \in [Keys -> Seq(Messages)]
               /\ msgs'[k] = Append(msgs[k], new)
               /\ \A l \in Keys : l # k => msgs'[l] = msgs[l]
               /\ Elements(msgs'[k]) = Elements(msgs[k]) \cup {new}
               /\ accepted' = accepted + 1 /\ accepted' \in 1..MaxAccepted
               /\ UNCHANGED <<inflight, flushed, dropped>>
<1> DEFINE k == KeyOf[p]
           new == <<accepted + 1, p>>
<1>1. /\ accepted < MaxAccepted /\ accepted' = accepted + 1
      /\ msgs' = [msgs EXCEPT ![k] = Append(@, new)]
      /\ UNCHANGED <<inflight, flushed, dropped>>
  BY DEF Push
<1>2. msgs \in [Keys -> Seq(Messages)] /\ accepted \in 0..MaxAccepted
  BY DEF IInv, TypeOK
<1>3. k \in Keys /\ new \in Messages /\ accepted' \in 1..MaxAccepted
  BY <1>1, <1>2, KeyOfAssumption, MaxAcceptedAssumption DEF Messages
<1> HIDE DEF new, k
<1>4. /\ Append(msgs[k], new) \in Seq(Messages)
      /\ Elements(Append(msgs[k], new)) = Elements(msgs[k]) \cup {new}
  BY <1>2, <1>3, AppendElements
<1>5. /\ msgs' \in [Keys -> Seq(Messages)] /\ msgs'[k] = Append(msgs[k], new)
      /\ \A l \in Keys : l # k => msgs'[l] = msgs[l]
  BY <1>1, <1>2, <1>3, <1>4
<1> QED
  BY <1>1, <1>3, <1>4, <1>5 DEF k, new

(* Push: the accepted message has a new number and goes into one buffer.   *)
LEMMA PushMessages ==
    ASSUME IInv, NEW p \in Posts, Push(p)
    PROVE  MessageInv'
<1> DEFINE k == KeyOf[p]
           new == <<accepted + 1, p>>
           Known == InBuffers \cup InFlight \cup flushed \cup dropped
<1>1. /\ k \in Keys /\ new \in Messages
      /\ msgs' \in [Keys -> Seq(Messages)]
      /\ msgs'[k] = Append(msgs[k], new)
      /\ \A l \in Keys : l # k => msgs'[l] = msgs[l]
      /\ Elements(msgs'[k]) = Elements(msgs[k]) \cup {new}
      /\ accepted' = accepted + 1 /\ accepted' \in 1..MaxAccepted
      /\ UNCHANGED <<inflight, flushed, dropped>>
  BY PushAppends
<1>2. new[1] = accepted + 1 /\ new[2] = p /\ accepted \in Nat
  BY DEF IInv, TypeOK
<1>3. \A m \in Known : m[1] \in 1..accepted
  BY KnownNumbers DEF IInv, MessagesConserved
<1> HIDE DEF new
<1>4. new \notin Known /\ \A m \in Known : m[1] # new[1]
  BY <1>2, <1>3
<1>5. InBuffers' = InBuffers \cup {new} /\ InFlight' = InFlight
  <2>1. \A l \in Keys : Elements(msgs'[l]) = Elements(msgs[l]) \cup (IF l = k THEN {new} ELSE {})
    BY <1>1
  <2>2. InBuffers' = InBuffers \cup {new}
    BY <1>1, <2>1 DEF InBuffers
  <2>3. InFlight' = InFlight
    BY <1>1 DEF InFlight, Elements
  <2> QED
    BY <2>2, <2>3
<1>6. MessagesTyped' /\ TurnInv'
  <2>1. MessagesTyped /\ TurnInv
    BY DEF IInv, TypeOK, MessagesTyped
  <2> QED
    BY <1>1, <2>1 DEF MessagesTyped, TurnInv
<1>7. HomeInv'
  <2>1. \A l \in Keys : \A m \in Elements(msgs'[l]) :
          m \in Elements(msgs[l]) \/ (l = k /\ m = new)
    BY <1>1
  <2>2. \A l \in Keys : \A m \in Elements(msgs[l]) : m[1] # new[1]
    BY <1>4 DEF InBuffers
  <2>3. \A l \in Keys : \A m \in Elements(msgs'[l]) : KeyOf[m[2]] = l
    BY <1>2, <2>1 DEF IInv, HomeInv
  <2>4. ASSUME NEW a \in Keys, NEW b \in Keys, NEW m \in Elements(msgs'[a]),
               NEW n \in Elements(msgs'[b]), m[1] = n[1]
        PROVE  m = n
    <3>1. m \in Elements(msgs[a]) \/ m = new
      BY <2>1
    <3>2. n \in Elements(msgs[b]) \/ n = new
      BY <2>1
    <3> QED
      BY <2>2, <2>4, <3>1, <3>2 DEF IInv, HomeInv
  <2> QED
    BY <2>3, <2>4 DEF HomeInv
<1>8. EachMessageOnce'
  <2>1. UNCHANGED inflight
    BY <1>1
  <2>2. \A t1, t2 \in inflight' : t1 # t2 => Elements(t1) \cap Elements(t2) = {}
    BY <2>1 DEF IInv, MessagesConserved, EachMessageOnce
  <2> QED
    BY <1>1, <1>4, <1>5, <2>2 DEF IInv, MessagesConserved, EachMessageOnce
<1>9. NothingVanishes'
  <2>1. (InBuffers \cup InFlight \cup flushed \cup dropped)' = Known \cup {new}
    BY <1>1, <1>5
  <2>2. {m[1] : m \in Known} = 1..accepted
    BY DEF IInv, MessagesConserved, NothingVanishes
  <2>3. {m[1] : m \in Known \cup {new}} = {m[1] : m \in Known} \cup {new[1]}
    OBVIOUS
  <2>4. 1..(accepted + 1) = 1..accepted \cup {accepted + 1}
    BY <1>2
  <2> QED
    BY <1>1, <1>2, <2>1, <2>2, <2>3, <2>4 DEF NothingVanishes
<1>10. TurnsOrdered'
  <2>1. Ordered(msgs'[k])
    <3>1. msgs[k] \in Seq(Messages) /\ Ordered(msgs[k])
      BY <1>1 DEF IInv, TypeOK, TurnsOrdered
    <3>2. /\ Len(msgs[k]) \in Nat /\ Len(msgs'[k]) = Len(msgs[k]) + 1
          /\ msgs'[k][Len(msgs[k]) + 1] = new
          /\ \A i \in 1..Len(msgs[k]) : msgs'[k][i] = msgs[k][i]
      BY <1>1, <3>1, AppendElements
    <3>3. \A i \in 1..Len(msgs[k]) : msgs[k][i] \in Elements(msgs[k])
      BY DEF Elements
    <3>4. \A m \in Elements(msgs[k]) : m[1] \in 1..accepted /\ m[2] # p
      <4>1. Elements(msgs[k]) \subseteq Known
        BY <1>1 DEF InBuffers
      <4>2. ~Buffered(p)
        BY DEF Push
      <4> QED
        BY <1>3, <4>1, <4>2 DEF Buffered
    <3>5. ASSUME NEW i \in 1..Len(msgs'[k]), NEW j \in 1..Len(msgs'[k]), i < j
          PROVE  msgs'[k][i][1] < msgs'[k][j][1] /\ msgs'[k][i][2] # msgs'[k][j][2]
      <4>1. i \in 1..Len(msgs[k]) /\ msgs'[k][i] = msgs[k][i]
        BY <3>2, <3>5
      <4>2. CASE j \in 1..Len(msgs[k])
        <5>1. msgs'[k][j] = msgs[k][j]
          BY <3>2, <4>2
        <5>2. msgs[k][i][1] < msgs[k][j][1] /\ msgs[k][i][2] # msgs[k][j][2]
          BY <3>1, <3>5, <4>1, <4>2 DEF Ordered
        <5> QED
          BY <4>1, <5>1, <5>2
      <4>3. CASE j = Len(msgs[k]) + 1
        <5>1. msgs[k][i][1] \in 1..accepted /\ msgs[k][i][2] # p
          BY <3>3, <3>4, <4>1
        <5>2. msgs'[k][j] = new
          BY <3>2, <4>3
        <5> QED
          BY <1>2, <4>1, <5>1, <5>2
      <4> QED
        BY <3>2, <4>2, <4>3
    <3> QED
      BY <3>5 DEF Ordered
  <2>2. \A l \in Keys : Ordered(msgs'[l])
    BY <1>1, <2>1 DEF IInv, TurnsOrdered
  <2> QED
    BY <1>1, <2>2 DEF IInv, TurnsOrdered, Ordered
<1> QED
  BY <1>6, <1>7, <1>8, <1>9, <1>10 DEF MessageInv, MessagesConserved

(* A step that only takes messages out of buffers.                         *)
LEMMA FewerBuffered ==
    ASSUME IInv, msgs' \in [Keys -> Seq(Messages)],
           \A l \in Keys : msgs'[l] = msgs[l] \/ msgs'[l] = <<>>
    PROVE  HomeInv' /\ \A l \in Keys : Ordered(msgs'[l])
<1>1. Elements(<<>>) = {} /\ Ordered(<<>>)
  BY DEF Elements, Ordered
<1>2. \A l \in Keys : Elements(msgs'[l]) \subseteq Elements(msgs[l])
  BY <1>1
<1>3. HomeInv'
  BY <1>2 DEF IInv, HomeInv
<1>4. \A l \in Keys : Ordered(msgs'[l])
  BY <1>1 DEF IInv, TurnsOrdered
<1> QED
  BY <1>3, <1>4

(* A host reply drops one buffer, Stop drops them all.                     *)
LEMMA DropMessages ==
    ASSUME IInv, Stop \/ \E k \in Keys : CancelIfHostReplied(k)
    PROVE  MessageInv'
<1>1. UNCHANGED <<inflight, accepted, flushed>>
  BY DEF Stop, CancelIfHostReplied
<1>2. InFlight' = InFlight
  BY <1>1 DEF InFlight, Elements
<1>3. PICK gone \in SUBSET InBuffers :
        /\ InBuffers' = InBuffers \ gone
        /\ dropped' = dropped \cup gone
        /\ msgs' \in [Keys -> Seq(Messages)]
        /\ \A l \in Keys : msgs'[l] = msgs[l] \/ msgs'[l] = <<>>
  <2>1. ASSUME NEW k \in Keys, CancelIfHostReplied(k)
        PROVE  /\ Elements(msgs[k]) \in SUBSET InBuffers
               /\ InBuffers' = InBuffers \ Elements(msgs[k])
               /\ dropped' = dropped \cup Elements(msgs[k])
               /\ msgs' \in [Keys -> Seq(Messages)]
               /\ \A l \in Keys : msgs'[l] = msgs[l] \/ msgs'[l] = <<>>
    BY <2>1, EmptiedBuffer DEF CancelIfHostReplied, IInv
  <2>2. CASE Stop
    <3>1. dropped' = dropped \cup InBuffers /\ msgs' = [k \in Keys |-> <<>>]
      BY <2>2 DEF Stop, InBuffers
    <3>2. msgs' \in [Keys -> Seq(Messages)] /\ \A l \in Keys : msgs'[l] = <<>>
      BY <3>1
    <3>3. \A l \in Keys : Elements(msgs'[l]) = {}
      BY <3>2 DEF Elements
    <3>4. InBuffers' = {}
      BY <3>3 DEF InBuffers
    <3> QED
      BY <3>1, <3>2, <3>4
  <2> QED
    BY <2>1, <2>2
<1>4. InBuffers \subseteq Messages
  BY SequenceElements DEF IInv, TypeOK, InBuffers
<1>5. HomeInv' /\ \A l \in Keys : Ordered(msgs'[l])
  BY <1>3, FewerBuffered
<1>6. TurnsOrdered' /\ TurnInv'
  BY <1>1, <1>5 DEF IInv, TurnsOrdered, TurnInv, Ordered
<1>7. MessagesTyped'
  BY <1>1, <1>3, <1>4 DEF IInv, TypeOK, MessagesTyped
<1>8. EachMessageOnce'
  <2>1. \A t1, t2 \in inflight' : t1 # t2 => Elements(t1) \cap Elements(t2) = {}
    BY <1>1 DEF IInv, MessagesConserved, EachMessageOnce
  <2> QED
    BY <1>1, <1>2, <1>3, <2>1 DEF IInv, MessagesConserved, EachMessageOnce
<1>9. NothingVanishes'
  <2>1. (InBuffers \cup InFlight \cup flushed \cup dropped)'
          = InBuffers \cup InFlight \cup flushed \cup dropped
    BY <1>1, <1>2, <1>3
  <2> QED
    BY <1>1, <2>1 DEF IInv, MessagesConserved, NothingVanishes
<1> QED
  BY <1>5, <1>6, <1>7, <1>8, <1>9 DEF MessageInv, MessagesConserved

(* fire takes a buffer as one turn.                                        *)
LEMMA FireMessages ==
    ASSUME IInv, NEW k \in Keys, Fire(k)
    PROVE  MessageInv'
<1>1. /\ UNCHANGED <<accepted, flushed, dropped>>
      /\ msgs' = [msgs EXCEPT ![k] = <<>>]
  BY DEF Fire
<1>2. /\ msgs' \in [Keys -> Seq(Messages)]
      /\ msgs'[k] = <<>> /\ \A l \in Keys : l # k => msgs'[l] = msgs[l]
      /\ Elements(msgs[k]) \subseteq InBuffers
      /\ InBuffers' = InBuffers \ Elements(msgs[k])
  BY <1>1, EmptiedBuffer DEF IInv
<1>3. msgs[k] \in Seq(Messages) /\ (Elements(msgs[k]) = {} <=> msgs[k] = <<>>)
  BY SequenceElements DEF IInv, TypeOK
<1>4. CASE msgs[k] = <<>>
  <2>1. UNCHANGED messages
    <3>1. UNCHANGED msgs
      BY <1>1, <1>4 DEF IInv, TypeOK
    <3> QED
      BY <1>1, <1>4, <3>1 DEF Fire, messages
  <2> QED
    BY <2>1, MessagesKept DEF IInv, TypeOK, MessageInv, MessagesTyped
<1>5. CASE msgs[k] # <<>>
  <2>1. inflight' = inflight \cup {msgs[k]}
    BY <1>5 DEF Fire
  <2>2. InFlight' = InFlight \cup Elements(msgs[k])
    BY <2>1 DEF InFlight
  <2>3. HomeInv' /\ \A l \in Keys : Ordered(msgs'[l])
    BY <1>2, FewerBuffered
  <2>4. TurnsOrdered' /\ TurnInv'
    BY <1>5, <2>1, <2>3 DEF IInv, TurnsOrdered, TurnInv
  <2>5. MessagesTyped'
    BY <1>1, <1>2, <1>3, <2>1 DEF IInv, TypeOK, MessagesTyped
  <2>6. EachMessageOnce'
    <3>1. \A t \in inflight : Elements(t) \cap Elements(msgs[k]) = {}
      BY <1>2 DEF IInv, MessagesConserved, EachMessageOnce, InFlight
    <3>2. \A t1, t2 \in inflight' : t1 # t2 => Elements(t1) \cap Elements(t2) = {}
      BY <2>1, <3>1 DEF IInv, MessagesConserved, EachMessageOnce
    <3>3. /\ InBuffers \cap (InFlight \cup flushed \cup dropped) = {}
          /\ InFlight \cap (flushed \cup dropped) = {}
          /\ flushed \cap dropped = {}
      BY DEF IInv, MessagesConserved, EachMessageOnce
    <3> QED
      BY <1>1, <1>2, <2>2, <3>2, <3>3 DEF EachMessageOnce
  <2>7. NothingVanishes'
    <3>1. (InBuffers \cup InFlight \cup flushed \cup dropped)'
            = InBuffers \cup InFlight \cup flushed \cup dropped
      BY <1>1, <1>2, <2>2
    <3> QED
      BY <1>1, <3>1 DEF IInv, MessagesConserved, NothingVanishes
  <2> QED
    BY <2>3, <2>4, <2>5, <2>6, <2>7 DEF MessageInv, MessagesConserved
<1> QED
  BY <1>4, <1>5

(* flush gets the messages of one turn.                                    *)
LEMMA FlushMessages ==
    ASSUME IInv, NEW t \in inflight, Flush(t)
    PROVE  MessageInv'
<1>1. /\ UNCHANGED <<msgs, accepted, dropped>>
      /\ inflight' = inflight \ {t} /\ flushed' = flushed \cup Elements(t)
  BY DEF Flush
<1>2. \A t1, t2 \in inflight : t1 # t2 => Elements(t1) \cap Elements(t2) = {}
  BY DEF IInv, MessagesConserved, EachMessageOnce
<1>3. Elements(t) \subseteq InFlight /\ Elements(t) \subseteq Messages
  BY SequenceElements DEF InFlight, IInv, TypeOK
<1>4. InFlight' = InFlight \ Elements(t) /\ InBuffers' = InBuffers
  <2>1. InFlight' = InFlight \ Elements(t)
    BY <1>1, <1>2 DEF InFlight
  <2>2. InBuffers' = InBuffers
    BY <1>1 DEF InBuffers, Elements
  <2> QED
    BY <2>1, <2>2
<1>5. HomeInv' /\ TurnInv' /\ TurnsOrdered'
  BY <1>1 DEF IInv, HomeInv, TurnInv, TurnsOrdered, Ordered, Elements
<1>6. MessagesTyped'
  BY <1>1, <1>3 DEF IInv, TypeOK, MessagesTyped
<1>7. EachMessageOnce'
  <2>1. \A t1, t2 \in inflight' : t1 # t2 => Elements(t1) \cap Elements(t2) = {}
    BY <1>1, <1>2
  <2>2. /\ InBuffers \cap (InFlight \cup flushed \cup dropped) = {}
        /\ InFlight \cap (flushed \cup dropped) = {}
        /\ flushed \cap dropped = {}
    BY DEF IInv, MessagesConserved, EachMessageOnce
  <2> QED
    BY <1>1, <1>3, <1>4, <2>1, <2>2 DEF EachMessageOnce
<1>8. NothingVanishes'
  <2>1. (InBuffers \cup InFlight \cup flushed \cup dropped)'
          = InBuffers \cup InFlight \cup flushed \cup dropped
    BY <1>1, <1>3, <1>4
  <2> QED
    BY <1>1, <2>1 DEF IInv, MessagesConserved, NothingVanishes
<1> QED
  BY <1>5, <1>6, <1>7, <1>8 DEF MessageInv, MessagesConserved

(* Every step keeps the messages apart, numbered and in order.             *)
LEMMA MessagesStep ==
    ASSUME IInv, [Next]_vars
    PROVE  MessageInv'
<1>1. CASE UNCHANGED messages
  BY <1>1, MessagesKept DEF IInv, TypeOK, MessageInv, MessagesTyped
<1>2. \/ UNCHANGED messages
      \/ \E p \in Posts : Push(p)
      \/ Stop \/ \E k \in Keys : CancelIfHostReplied(k)
      \/ \E k \in Keys : Fire(k)
      \/ \E t \in inflight : Flush(t)
  BY DEF Next, TimerExpires, Tick, vars, messages
<1> QED
  BY <1>1, <1>2, PushMessages, DropMessages, FireMessages, FlushMessages

-----------------------------------------------------------------------------
(* The timers.                                                             *)
TimersTyped ==
    /\ age \in [Keys -> 0..MaxWait]
    /\ timers \in SUBSET Timers
    /\ quiet \in [Keys -> 0..Window]
    /\ pending \in [Keys -> Nat]
    /\ stopped \in BOOLEAN

WakeupParts == TimersTyped /\ TimerInv /\ WakeInv

(* A timer is one record of number, key and time left.                     *)
LEMMA TimerParts ==
    ASSUME NEW t \in Timers
    PROVE  /\ t = [id |-> t.id, key |-> t.key, left |-> t.left]
           /\ t.id \in 1..MaxAccepted /\ t.key \in Keys /\ t.left \in 0..Window
  BY DEF Timers

(* A buffer that a step leaves alone, with its timers.                     *)
LEMMA WakeKept ==
    ASSUME NEW k \in Keys, Wake(k), msgs'[k] = msgs[k], age'[k] = age[k],
           quiet'[k] = quiet[k], pending[k] \in Nat, pending'[k] \in Nat, pending'[k] >= pending[k],
           \A t \in timers' : t.id = LastId(k) => t \in timers,
           \A t \in timers : t.id = LastId(k) => t \in timers'
    PROVE  Wake(k)'
<1>1. LastId(k)' = LastId(k)
  BY DEF LastId
<1>2. Own(k)' = Own(k)
  BY <1>1 DEF Own
<1> QED
  BY <1>2 DEF Wake

(* A key without a buffer needs no wake-up.                                *)
LEMMA WakeEmpty ==
    ASSUME NEW k \in Keys, msgs'[k] = <<>>
    PROVE  Wake(k)'
  BY DEF Wake, Own

(* Push stops the timer of its buffer and arms one for the new message.    *)
LEMMA PushWakes ==
    ASSUME IInv, NEW p \in Posts, Push(p)
    PROVE  WakeupParts'
<1> DEFINE j == KeyOf[p]
           new == <<accepted + 1, p>>
           a == BufferAge(j)
           armed == Arm(j)
<1>1. /\ j \in Keys /\ msgs'[j] = Append(msgs[j], new)
      /\ \A l \in Keys : l # j => msgs'[l] = msgs[l]
      /\ accepted' = accepted + 1 /\ accepted' \in 1..MaxAccepted /\ new \in Messages
  BY PushAppends
<1>2. /\ age' = [age EXCEPT ![j] = a]
      /\ timers' = (timers \ Own(j)) \cup {armed}
      /\ quiet' = [quiet EXCEPT ![j] = 0]
      /\ UNCHANGED <<pending, stopped>>
  BY DEF Push
<1>3. /\ age \in [Keys -> 0..MaxWait] /\ quiet \in [Keys -> 0..Window]
      /\ timers \in SUBSET Timers /\ pending \in [Keys -> Nat] /\ accepted \in Nat
      /\ Window \in Nat /\ MaxWait \in Nat
  BY WindowAssumption DEF IInv, TypeOK
<1>4. a \in 0..MaxWait
  BY <1>1, <1>3 DEF BufferAge
<1>5. /\ armed.id = accepted + 1 /\ armed.key = j /\ armed.left \in 0..Window
      /\ a + armed.left <= MaxWait
      /\ armed.left = Window \/ a + armed.left = MaxWait
      /\ armed \in Timers
  <2>1. armed = [id |-> accepted + 1, key |-> j, left |-> windowClamped(a)]
    BY DEF Arm
  <2> HIDE DEF a, j, armed
  <2>2. /\ windowClamped(a) \in 0..Window
        /\ a + windowClamped(a) <= MaxWait
        /\ windowClamped(a) = Window \/ a + windowClamped(a) = MaxWait
    BY <1>4, ClampedWait
  <2> QED
    BY <1>1, <2>1, <2>2 DEF Timers
<1>6. \A t \in timers : t.id # accepted + 1 /\ t.id <= accepted
  <2>1. \A t \in timers : t.id <= accepted /\ t.id \in Nat
    BY <1>3, TimerParts DEF IInv, TimerInv
  <2> QED
    BY <1>3, <2>1
<1> HIDE DEF a, armed, new
<1>7. TimersTyped'
  <2>1. age' \in [Keys -> 0..MaxWait] /\ quiet' \in [Keys -> 0..Window]
    BY <1>1, <1>2, <1>3, <1>4
  <2> QED
    BY <1>2, <1>3, <1>5, <2>1 DEF TimersTyped, IInv, TypeOK
<1>8. TimerInv'
  <2>1. \A t \in timers' : t.id <= accepted + 1
    <3>1. \A t \in timers : t.id \in Nat
      BY <1>3, TimerParts
    <3> QED
      BY <1>2, <1>3, <1>5, <1>6, <3>1
  <2> QED
    BY <1>1, <2>1 DEF TimerInv
<1>9. Wake(j)'
  <2>1. LastId(j)' = accepted + 1
    <3>1. msgs[j] \in Seq(Messages)
      BY <1>1 DEF IInv, TypeOK
    <3>2. msgs'[j][Len(msgs'[j])] = new
      BY <1>1, <3>1, AppendElements
    <3> QED
      BY <3>2 DEF LastId, new
  <2>2. msgs'[j] # <<>>
    <3>1. msgs[j] \in Seq(Messages)
      BY <1>1 DEF IInv, TypeOK
    <3> QED
      BY <1>1, <3>1, AppendElements
  <2>3. Own(j)' = {armed}
    BY <1>2, <1>5, <1>6, <2>1, <2>2 DEF Own
  <2>4. age'[j] = a /\ quiet'[j] = 0
    BY <1>1, <1>2, <1>3
  <2> QED
    BY <1>3, <1>4, <1>5, <2>3, <2>4 DEF Wake
<1>10. ASSUME NEW k \in Keys, k # j PROVE Wake(k)'
  <2>1. CASE msgs[k] = <<>>
    BY <1>1, <1>10, <2>1, WakeEmpty
  <2>2. CASE msgs[k] # <<>>
    <3>1. LastId(k) \in 1..accepted /\ (msgs[j] # <<>> => LastId(k) # LastId(j))
      BY <1>1, <1>10, <2>2, KnownNumbers DEF IInv, MessagesConserved
    <3>2. \A t \in timers' : t.id = LastId(k) => t \in timers
      BY <1>2, <1>3, <1>5, <3>1
    <3>3. \A t \in timers : t.id = LastId(k) => t \in timers'
      BY <1>2, <3>1 DEF Own
    <3>4. /\ msgs'[k] = msgs[k] /\ age'[k] = age[k] /\ quiet'[k] = quiet[k]
          /\ pending[k] \in Nat /\ pending'[k] = pending[k]
      BY <1>1, <1>2, <1>3, <1>10
    <3> QED
      BY <3>2, <3>3, <3>4, WakeKept DEF IInv, WakeInv
  <2> QED
    BY <2>1, <2>2
<1> QED
  BY <1>7, <1>8, <1>9, <1>10 DEF WakeupParts, WakeInv

(* A host reply and Stop drop a buffer with its timer.                     *)
LEMMA DropWakes ==
    ASSUME IInv, Stop \/ \E k \in Keys : CancelIfHostReplied(k)
    PROVE  WakeupParts'
<1>1. /\ UNCHANGED <<age, quiet, pending, accepted>> /\ timers' \subseteq timers
      /\ stopped' \in BOOLEAN
  BY DEF Stop, CancelIfHostReplied, IInv, TypeOK
<1>2. TimersTyped' /\ TimerInv'
  BY <1>1 DEF IInv, TypeOK, TimersTyped, TimerInv
<1>3. CASE Stop
  <2>1. \A k \in Keys : msgs'[k] = <<>>
    BY <1>3 DEF Stop
  <2> QED
    BY <1>2, <2>1, WakeEmpty DEF WakeupParts, WakeInv
<1>4. ASSUME NEW j \in Keys, CancelIfHostReplied(j), NEW k \in Keys PROVE Wake(k)'
  <2>1. msgs[j] # <<>> /\ msgs' = [msgs EXCEPT ![j] = <<>>] /\ timers' = timers \ Own(j)
    BY <1>4 DEF CancelIfHostReplied
  <2>2. msgs'[j] = <<>> /\ (k # j => msgs'[k] = msgs[k])
    BY <2>1 DEF IInv, TypeOK
  <2>3. CASE k = j \/ msgs[k] = <<>>
    BY <2>2, <2>3, WakeEmpty
  <2>4. CASE k # j /\ msgs[k] # <<>>
    <3>1. LastId(k) # LastId(j)
      BY <2>1, <2>4, KnownNumbers DEF IInv, MessagesConserved
    <3>2. \A t \in timers : t.id = LastId(k) => t \in timers'
      BY <2>1, <3>1 DEF Own
    <3>3. pending[k] \in Nat
      BY DEF IInv, TypeOK
    <3> QED
      BY <1>1, <2>2, <2>4, <3>2, <3>3, WakeKept DEF IInv, WakeInv
  <2> QED
    BY <2>3, <2>4
<1> QED
  BY <1>2, <1>3, <1>4 DEF WakeupParts, WakeInv

(* A due timer turns into a callback for its key.                          *)
LEMMA ExpireWakes ==
    ASSUME IInv, NEW t \in timers, TimerExpires(t)
    PROVE  WakeupParts'
<1>1. /\ t.left = 0 /\ timers' = timers \ {t}
      /\ pending' = [pending EXCEPT ![t.key] = @ + 1]
      /\ UNCHANGED <<msgs, age, quiet, stopped, accepted>>
  BY DEF TimerExpires
<1>2. /\ t.key \in Keys /\ pending \in [Keys -> Nat]
      /\ age \in [Keys -> 0..MaxWait] /\ quiet \in [Keys -> 0..Window]
      /\ Window \in Nat /\ MaxWait \in Nat
  BY TimerParts, WindowAssumption DEF IInv, TypeOK
<1>3. /\ pending' \in [Keys -> Nat] /\ pending'[t.key] > 0
      /\ \A k \in Keys : pending'[k] >= pending[k]
  BY <1>1, <1>2
<1>4. TimersTyped' /\ TimerInv'
  BY <1>1, <1>3 DEF IInv, TypeOK, TimersTyped, TimerInv
<1>5. ASSUME NEW k \in Keys PROVE Wake(k)'
  <2>1. Wake(k) /\ pending[k] \in Nat /\ pending'[k] \in Nat /\ pending'[k] >= pending[k]
    BY <1>2, <1>3 DEF IInv, WakeInv
  <2>2. LastId(k)' = LastId(k) /\ Own(k)' = Own(k) \ {t}
    BY <1>1 DEF LastId, Own
  <2>3. CASE t \notin Own(k)
    BY <1>1, <2>1, <2>2, <2>3 DEF Wake
  <2>4. CASE t \in Own(k)
    <3>1. t.key = k /\ (quiet[k] >= Window \/ age[k] >= MaxWait)
      <4>1. t.key = k /\ (quiet[k] + t.left >= Window \/ age[k] + t.left >= MaxWait)
        BY <2>1, <2>4 DEF Wake
      <4>2. quiet[k] \in Int /\ age[k] \in Int
        BY <1>2
      <4> QED
        BY <1>1, <4>1, <4>2
    <3>2. pending'[k] > 0 /\ (quiet[k] = Window \/ age[k] = MaxWait)
      BY <1>2, <1>3, <3>1
    <3> QED
      BY <1>1, <2>1, <2>2, <3>2 DEF Wake
  <2> QED
    BY <2>3, <2>4
<1> QED
  BY <1>4, <1>5 DEF WakeupParts, WakeInv

(* fire uses up a callback, but there is no buffer left to wake.           *)
LEMMA FireWakes ==
    ASSUME IInv, NEW j \in Keys, Fire(j)
    PROVE  WakeupParts'
<1>1. /\ pending[j] > 0 /\ pending' = [pending EXCEPT ![j] = @ - 1]
      /\ msgs' = [msgs EXCEPT ![j] = <<>>]
      /\ UNCHANGED <<age, timers, quiet, stopped, accepted>>
  BY DEF Fire
<1>2. pending \in [Keys -> Nat] /\ msgs \in [Keys -> Seq(Messages)]
  BY DEF IInv, TypeOK
<1>3. /\ pending' \in [Keys -> Nat] /\ msgs'[j] = <<>>
      /\ \A k \in Keys : k # j => pending'[k] = pending[k] /\ msgs'[k] = msgs[k]
  BY <1>1, <1>2
<1>4. TimersTyped' /\ TimerInv'
  BY <1>1, <1>3 DEF IInv, TypeOK, TimersTyped, TimerInv
<1>5. ASSUME NEW k \in Keys PROVE Wake(k)'
  <2>1. CASE k = j
    BY <1>3, <2>1, WakeEmpty
  <2>2. CASE k # j
    <3>1. /\ msgs'[k] = msgs[k] /\ pending[k] \in Nat /\ pending'[k] = pending[k]
      BY <1>2, <1>3, <2>2
    <3> QED
      BY <1>1, <3>1, WakeKept DEF IInv, WakeInv
  <2> QED
    BY <2>1, <2>2
<1> QED
  BY <1>4, <1>5 DEF WakeupParts, WakeInv

(* A tick brings every timer nearer and every buffer and silence on.       *)
LEMMA TickWakes ==
    ASSUME IInv, Tick
    PROVE  WakeupParts'
<1> DEFINE aged(t) == [t EXCEPT !.left = IF @ = 0 THEN 0 ELSE @ - 1]
<1>1. /\ age' = [k \in Keys |-> AtMost(age[k] + 1, MaxWait)]
      /\ timers' = {aged(t) : t \in timers}
      /\ quiet' = [k \in Keys |-> AtMost(quiet[k] + 1, Window)]
      /\ UNCHANGED <<msgs, pending, stopped, accepted>>
  BY DEF Tick
<1>2. /\ timers \in SUBSET Timers
      /\ age \in [Keys -> 0..MaxWait] /\ quiet \in [Keys -> 0..Window]
      /\ Window \in Nat /\ MaxWait \in Nat
  BY WindowAssumption DEF IInv, TypeOK
<1>3. ASSUME NEW t \in timers
      PROVE  /\ aged(t) \in Timers /\ aged(t).id = t.id /\ aged(t).key = t.key
             /\ t.left \in Nat /\ aged(t).left \in Nat
             /\ aged(t).left = 0 \/ aged(t).left = t.left - 1
             /\ t.left # 0 => aged(t).left = t.left - 1
  <2>1. /\ t = [id |-> t.id, key |-> t.key, left |-> t.left]
        /\ t.id \in 1..MaxAccepted /\ t.key \in Keys /\ t.left \in 0..Window
    BY <1>2, TimerParts
  <2>2. aged(t) = [id |-> t.id, key |-> t.key, left |-> IF t.left = 0 THEN 0 ELSE t.left - 1]
    BY <2>1
  <2>3. (IF t.left = 0 THEN 0 ELSE t.left - 1) \in 0..Window
    BY <1>2, <2>1
  <2> QED
    BY <1>2, <2>1, <2>2, <2>3 DEF Timers
<1> HIDE DEF aged
<1>4. ASSUME NEW k \in Keys
      PROVE  /\ age'[k] \in 0..MaxWait /\ age[k] \in 0..MaxWait
             /\ age'[k] = age[k] + 1 \/ (age[k] = MaxWait /\ age'[k] = MaxWait)
             /\ quiet'[k] \in 0..Window /\ quiet[k] \in 0..Window
             /\ quiet'[k] = quiet[k] + 1 \/ (quiet[k] = Window /\ quiet'[k] = Window)
  BY <1>1, <1>2 DEF AtMost
<1>5. TimersTyped'
  <2>1. age' \in [Keys -> 0..MaxWait] /\ quiet' \in [Keys -> 0..Window]
    BY <1>1, <1>4
  <2>2. timers' \in SUBSET Timers
    BY <1>1, <1>3
  <2> QED
    BY <1>1, <2>1, <2>2 DEF IInv, TypeOK, TimersTyped
<1>6. TimerInv'
  BY <1>1, <1>3 DEF IInv, TimerInv
<1>7. ASSUME NEW k \in Keys PROVE Wake(k)'
  <2>1. Wake(k) /\ LastId(k)' = LastId(k)
    BY <1>1 DEF IInv, WakeInv, LastId
  <2>2. Own(k)' = {aged(t) : t \in Own(k)}
    BY <1>1, <1>3, <2>1 DEF Own
  <2>3. ASSUME NEW t \in Own(k)
        PROVE  /\ aged(t).key = k
               /\ aged(t).left = 0 \/ age'[k] + aged(t).left <= MaxWait
               /\ quiet'[k] + aged(t).left >= Window \/ age'[k] + aged(t).left >= MaxWait
    <3>1. t \in timers
      BY DEF Own
    <3>2. /\ t.key = k
          /\ t.left = 0 \/ age[k] + t.left <= MaxWait
          /\ quiet[k] + t.left >= Window \/ age[k] + t.left >= MaxWait
      BY <2>1 DEF Wake
    <3> QED
      BY <1>2, <1>3, <1>4, <3>1, <3>2
  <2>4. msgs'[k] # <<>> /\ Own(k)' = {} =>
          pending'[k] > 0 /\ (quiet'[k] = Window \/ age'[k] = MaxWait)
    <3>1. Own(k)' = {} => Own(k) = {}
      BY <2>2
    <3>2. (quiet[k] = Window => quiet'[k] = Window) /\ (age[k] = MaxWait => age'[k] = MaxWait)
      BY <1>2, <1>4
    <3> QED
      BY <1>1, <2>1, <3>1, <3>2 DEF Wake
  <2> QED
    BY <2>2, <2>3, <2>4 DEF Wake
<1> QED
  BY <1>5, <1>6, <1>7 DEF WakeupParts, WakeInv

(* Every step leaves each buffer a timer or a callback to wake it.         *)
LEMMA WakeupStep ==
    ASSUME IInv, [Next]_vars
    PROVE  WakeupParts'
<1>1. CASE UNCHANGED <<msgs, age, timers, quiet, pending, stopped, accepted>>
  <2>1. TimersTyped' /\ TimerInv'
    BY <1>1 DEF IInv, TypeOK, TimersTyped, TimerInv
  <2>2. \A k \in Keys : Wake(k)'
    BY <1>1 DEF IInv, WakeInv, Wake, Own, LastId
  <2> QED
    BY <2>1, <2>2 DEF WakeupParts, WakeInv
<1>2. \/ UNCHANGED <<msgs, age, timers, quiet, pending, stopped, accepted>>
      \/ \E p \in Posts : Push(p)
      \/ Stop \/ \E k \in Keys : CancelIfHostReplied(k)
      \/ \E t \in timers : TimerExpires(t)
      \/ \E k \in Keys : Fire(k)
      \/ Tick
  BY DEF Next, Flush, vars
<1> QED
  BY <1>1, <1>2, PushWakes, DropWakes, ExpireWakes, FireWakes, TickWakes

-----------------------------------------------------------------------------
(* At the start nothing is buffered and no timer runs.                     *)
LEMMA InitEstablishes == Init => IInv
<1> SUFFICES ASSUME Init PROVE IInv
  OBVIOUS
<1>1. \A k \in Keys : msgs[k] = <<>>
  BY DEF Init
<1>2. Elements(<<>>) = {} /\ Ordered(<<>>)
  BY DEF Elements, Ordered
<1>3. TypeOK
  <2>1. /\ msgs \in [Keys -> Seq(Messages)] /\ pending \in [Keys -> Nat]
        /\ accepted \in 0..MaxAccepted
    BY MaxAcceptedAssumption DEF Init
  <2>2. age \in [Keys -> 0..MaxWait] /\ quiet \in [Keys -> 0..Window]
    BY WindowAssumption DEF Init
  <2> QED
    BY <2>1, <2>2 DEF Init, TypeOK
<1>4. HomeInv /\ TurnInv /\ TurnsOrdered /\ TimerInv
  BY <1>1, <1>2 DEF Init, HomeInv, TurnInv, TurnsOrdered, TimerInv
<1>5. InBuffers = {} /\ InFlight = {}
  BY <1>1, <1>2 DEF Init, InBuffers, InFlight
<1>6. MessagesConserved
  BY <1>5 DEF Init, MessagesConserved, EachMessageOnce, NothingVanishes
<1>7. WakeInv
  BY <1>1 DEF WakeInv, Wake, Own
<1> QED
  BY <1>3, <1>4, <1>6, <1>7 DEF IInv

(* Every part of the invariant holds through pushes, stale callbacks, host *)
(* replies, Stop and the passing of time.                                  *)
THEOREM Invariance == Spec => []IInv
<1>1. Init => IInv
  BY InitEstablishes
<1>2. IInv /\ [Next]_vars => IInv'
  <2> SUFFICES ASSUME IInv, [Next]_vars PROVE IInv'
    OBVIOUS
  <2>1. MessageInv' /\ WakeupParts'
    BY MessagesStep, WakeupStep
  <2>2. TypeOK'
    BY <2>1 DEF MessageInv, MessagesTyped, WakeupParts, TimersTyped, TypeOK
  <2> QED
    BY <2>1, <2>2 DEF IInv, MessageInv, WakeupParts
<1> QED
  BY <1>1, <1>2, PTL DEF Spec

(* No message reaches flush twice, none disappears, none is flushed after  *)
(* it was discarded (Push, fire, CancelIfHostReplied, Stop).               *)
THEOREM MessagesPartitioned == Spec => []MessagesConserved
<1>1. IInv => MessagesConserved
  BY DEF IInv
<1> QED
  BY <1>1, Invariance, PTL

(* A buffer has its timer or a callback on its way; the timer is due by    *)
(* MaxWait, and its expiry means silence for Window or the ceiling reached *)
(* (windowClamped and the re-arming in Push).                              *)
THEOREM BuffersAreWoken == Spec => []WakeupInv
<1>1. IInv => WakeupInv
  <2> SUFFICES ASSUME IInv PROVE WakeupInv
    OBVIOUS
  <2>1. \A k \in Keys : Wake(k)
    BY DEF IInv, WakeInv
  <2>2. BufferHasWakeup /\ CeilingRespected /\ OwnTimerMeansQuiet
    BY <2>1 DEF Wake, BufferHasWakeup, CeilingRespected, OwnTimerMeansQuiet
  <2> QED
    BY <2>2 DEF IInv, WakeupInv
<1> QED
  BY <1>1, Invariance, PTL

(* A turn is in the order of acceptance and repeats no post, so LastPostID *)
(* is the newest of its burst (Push: append, unless the PostID is there).  *)
THEOREM TurnsInOrder == Spec => []TurnsOrdered
<1>1. IInv => TurnsOrdered
  BY DEF IInv
<1> QED
  BY <1>1, Invariance, PTL

-----------------------------------------------------------------------------
(* Refinement.                                                             *)

(* What the abstract state does when a buffer is emptied.                  *)
LEMMA HeldEmptied ==
    ASSUME TypeOK, NEW k \in Keys, msgs' = [msgs EXCEPT ![k] = <<>>]
    PROVE  [l \in Keys |-> Elements(msgs'[l])]
             = [[l \in Keys |-> Elements(msgs[l])] EXCEPT ![k] = {}]
<1>1. Elements(<<>>) = {}
  BY DEF Elements
<1>2. msgs'[k] = <<>> /\ \A l \in Keys : l # k => msgs'[l] = msgs[l]
  BY DEF TypeOK
<1> DEFINE held == [l \in Keys |-> Elements(msgs[l])]
<1>3. ASSUME NEW l \in Keys PROVE Elements(msgs'[l]) = [held EXCEPT ![k] = {}][l]
  <2>1. CASE l = k
    <3>1. [held EXCEPT ![k] = {}][k] = {}
      OBVIOUS
    <3> QED
      BY <1>1, <1>2, <2>1, <3>1
  <2>2. CASE l # k
    <3>1. [held EXCEPT ![k] = {}][l] = Elements(msgs[l])
      BY <2>2
    <3> QED
      BY <1>2, <2>2, <3>1
  <2> QED
    BY <2>1, <2>2
<1>4. [l \in Keys |-> Elements(msgs'[l])] = [l \in Keys |-> [held EXCEPT ![k] = {}][l]]
  BY <1>3
<1>5. [held EXCEPT ![k] = {}] = [l \in Keys |-> [held EXCEPT ![k] = {}][l]]
  OBVIOUS
<1> QED
  BY <1>4, <1>5

(* A step of the debouncer is the step of Collector with the same meaning, *)
(* or none: timers, callbacks and time are invisible.                      *)
LEMMA StepRefines ==
    ASSUME IInv, [Next]_vars
    PROVE  [Abstract!Next]_(Abstract!vars)
<1> DEFINE held == [k \in Keys |-> Elements(msgs[k])]
           leaving == {Elements(t) : t \in inflight}
<1>1. /\ msgs \in [Keys -> Seq(Messages)] /\ inflight \in SUBSET Seq(Messages)
      /\ \A k \in Keys : held[k] = Elements(msgs[k])
      /\ \A k \in Keys : Elements(msgs[k]) = {} <=> msgs[k] = <<>>
  BY SequenceElements DEF IInv, TypeOK
<1>2. CASE UNCHANGED <<msgs, inflight, stopped, accepted, flushed, dropped>>
  BY <1>2 DEF Abstract!vars, Elements
<1>3. ASSUME NEW p \in Posts, Push(p) PROVE Abstract!Accept(p)
  <2> DEFINE k == KeyOf[p]
             new == <<accepted + 1, p>>
  <2>1. /\ k \in Keys
        /\ \A l \in Keys : l # k => msgs'[l] = msgs[l]
        /\ Elements(msgs'[k]) = Elements(msgs[k]) \cup {new}
        /\ accepted' = accepted + 1
        /\ UNCHANGED <<inflight, flushed, dropped>>
    BY <1>3, PushAppends
  <2>2. ~stopped /\ UNCHANGED stopped /\ \A m \in Elements(msgs[k]) : m[2] # p
    BY <1>3 DEF Push, Buffered
  <2>3. held' = [held EXCEPT ![k] = @ \cup {new}]
    BY <2>1
  <2>4. leaving' = leaving
    BY <2>1 DEF Elements
  <2> QED
    BY <1>1, <2>1, <2>2, <2>3, <2>4 DEF Abstract!Accept
<1>4. ASSUME NEW k \in Keys, CancelIfHostReplied(k) PROVE Abstract!Discard(k)
  <2>1. /\ msgs[k] # <<>> /\ dropped' = dropped \cup Elements(msgs[k])
        /\ msgs' = [msgs EXCEPT ![k] = <<>>]
        /\ UNCHANGED <<inflight, stopped, accepted, flushed>>
    BY <1>4 DEF CancelIfHostReplied
  <2>2. held' = [held EXCEPT ![k] = {}]
    BY <2>1, HeldEmptied DEF IInv
  <2>3. leaving' = leaving
    BY <2>1 DEF Elements
  <2> QED
    BY <1>1, <2>1, <2>2, <2>3 DEF Abstract!Discard
<1>5. ASSUME Stop PROVE Abstract!Close
  <2>1. /\ ~stopped /\ stopped' = TRUE /\ msgs' = [k \in Keys |-> <<>>]
        /\ dropped' = dropped \cup UNION {Elements(msgs[k]) : k \in Keys}
        /\ UNCHANGED <<inflight, accepted, flushed>>
    BY <1>5 DEF Stop
  <2>2. Elements(<<>>) = {}
    BY DEF Elements
  <2>3. held' = [k \in Keys |-> {}]
    BY <2>1, <2>2
  <2>4. leaving' = leaving
    BY <2>1 DEF Elements
  <2>5. UNION {held[k] : k \in Keys} = UNION {Elements(msgs[k]) : k \in Keys}
    BY <1>1
  <2> QED
    BY <2>1, <2>3, <2>4, <2>5 DEF Abstract!Close
<1>6. ASSUME NEW k \in Keys, Fire(k), msgs[k] # <<>> PROVE Abstract!Take(k)
  <2>1. /\ inflight' = inflight \cup {msgs[k]} /\ msgs' = [msgs EXCEPT ![k] = <<>>]
        /\ UNCHANGED <<stopped, accepted, flushed, dropped>>
    BY <1>6 DEF Fire
  <2>2. held' = [held EXCEPT ![k] = {}]
    BY <2>1, HeldEmptied DEF IInv
  <2>3. leaving' = leaving \cup {held[k]}
    BY <1>1, <2>1
  <2> QED
    BY <1>1, <1>6, <2>1, <2>2, <2>3 DEF Abstract!Take
<1>7. ASSUME NEW k \in Keys, Fire(k), msgs[k] = <<>>
      PROVE  UNCHANGED <<msgs, inflight, stopped, accepted, flushed, dropped>>
  <2>1. msgs' = msgs
    BY <1>1, <1>7 DEF Fire
  <2> QED
    BY <1>7, <2>1 DEF Fire
<1>8. ASSUME NEW t \in inflight, Flush(t)
      PROVE  Elements(t) \in leaving /\ Abstract!Deliver(Elements(t))
  <2>1. /\ inflight' = inflight \ {t} /\ flushed' = flushed \cup Elements(t)
        /\ UNCHANGED <<msgs, stopped, accepted, dropped>>
    BY <1>8 DEF Flush
  <2>2. \A u \in inflight : u # t => Elements(u) # Elements(t)
    <3>1. Elements(t) # {}
      BY <1>1, SequenceElements DEF IInv, TurnInv
    <3> QED
      BY <3>1 DEF IInv, MessagesConserved, EachMessageOnce
  <2>3. leaving' = leaving \ {Elements(t)}
    BY <2>1, <2>2
  <2>4. held' = held
    BY <2>1 DEF Elements
  <2> QED
    BY <2>1, <2>3, <2>4 DEF Abstract!Deliver
<1>9. \/ UNCHANGED <<msgs, inflight, stopped, accepted, flushed, dropped>>
      \/ \E p \in Posts : Push(p)
      \/ Stop \/ \E k \in Keys : CancelIfHostReplied(k) \/ Fire(k)
      \/ \E t \in inflight : Flush(t)
  BY DEF Next, TimerExpires, Tick, vars
<1> HIDE DEF held, leaving
<1> QED
  BY <1>2, <1>3, <1>4, <1>5, <1>6, <1>7, <1>8, <1>9 DEF Abstract!Next, leaving

(* The safety part of ImplementsCollector: seen without its timers, its    *)
(* lock and its clock, the debouncer is Collector.                         *)
THEOREM Refinement == Spec => Abstract!Spec
<1>1. Init => Abstract!Init
  <2> SUFFICES ASSUME Init PROVE Abstract!Init
    OBVIOUS
  <2>1. Elements(<<>>) = {}
    BY DEF Elements
  <2> QED
    BY <2>1 DEF Init, Abstract!Init
<1>2. IInv /\ [Next]_vars => [Abstract!Next]_(Abstract!vars)
  BY StepRefines
<1> QED
  BY <1>1, <1>2, Invariance, PTL DEF Spec, Abstract!Spec
=============================================================================
