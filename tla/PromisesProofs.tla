--------------------------- MODULE PromisesProofs ---------------------------
(***************************************************************************)
(* Proofs about what the bot promises: that a guest who accepts an offer   *)
(* gets past the guard only after a hold was placed (Commitment), and that *)
(* a drafted reply promises only what its tools did (Generator).           *)
(*                                                                         *)
(* Commitment, for any turns, posts of the host and bodies.  The first     *)
(* part is about mergeThread: an order-preserving filter by index, whose   *)
(* result holds what the filter keeps, in order and once.  ThreadMeans,    *)
(* MemoryMeans and FetchedMeans say where the entries of each thread come  *)
(* from, whichever page was fetched and whatever was folded; ViewMeans     *)
(* that the view of a turn holds what it fetched, without its own posts    *)
(* and nothing twice; HoldsMeans that a stored success is a hold in        *)
(* Guesty.  With them GuardPasses and GuardHands show what                 *)
(* commitmentHandoff concludes from the view.                              *)
(*                                                                         *)
(* The second half is about the reply generator, module Generator.         *)
(***************************************************************************)
EXTENDS Commitment, Generator, FiniteSetTheorems, SequenceTheorems, TLAPS

(* No entry of a sequence occurs twice.                                    *)
Distinct(s) == \A i, j \in 1..Len(s) : s[i] = s[j] => i = j

-----------------------------------------------------------------------------
(* What EntriesAt selects by: the ranks number the indices from 1.         *)
LEMMA RankNumbers ==
    ASSUME NEW n \in Nat, NEW I \in SUBSET (1..n)
    PROVE  /\ IsFiniteSet(I) /\ Cardinality(I) \in Nat
           /\ \A i \in I : Rank(I, i) \in 1..Cardinality(I)
           /\ \A i, j \in I : Rank(I, i) = Rank(I, j) => i = j
           /\ \A m \in 1..Cardinality(I) : \E i \in I : Rank(I, i) = m
<1>1. IsFiniteSet(I) /\ Cardinality(I) \in Nat
  <2>1. IsFiniteSet(1..n)
    BY FS_Interval
  <2> QED
    BY <2>1, FS_Subset, FS_CardinalityType
<1> DEFINE upTo(i) == {j \in I : j <= i}
<1>2. \A i \in I : /\ IsFiniteSet(upTo(i)) /\ Cardinality(upTo(i)) \in Nat
                   /\ Cardinality(upTo(i)) <= Cardinality(I)
  <2> SUFFICES ASSUME NEW i \in I
               PROVE  /\ IsFiniteSet(upTo(i)) /\ Cardinality(upTo(i)) \in Nat
                      /\ Cardinality(upTo(i)) <= Cardinality(I)
    OBVIOUS
  <2>1. upTo(i) \in SUBSET I
    OBVIOUS
  <2> HIDE DEF upTo
  <2> QED
    BY <1>1, <2>1, FS_Subset, FS_CardinalityType
<1>3. \A i \in I : Cardinality(upTo(i)) # 0
  <2> SUFFICES ASSUME NEW i \in I PROVE Cardinality(upTo(i)) # 0
    OBVIOUS
  <2>1. i \in upTo(i)
    OBVIOUS
  <2>2. IsFiniteSet(upTo(i))
    BY <1>2
  <2> HIDE DEF upTo
  <2> QED
    BY <2>1, <2>2, FS_EmptySet
<1>4. \A i \in I : Rank(I, i) \in 1..Cardinality(I)
  <2> SUFFICES ASSUME NEW i \in I PROVE Rank(I, i) \in 1..Cardinality(I)
    OBVIOUS
  <2>1. Rank(I, i) = Cardinality(upTo(i))
    BY DEF Rank
  <2> HIDE DEF upTo
  <2> QED
    BY <1>1, <1>2, <1>3, <2>1
<1>5. ASSUME NEW i \in I, NEW j \in I, i < j
      PROVE  Rank(I, i) < Rank(I, j)
  <2>1. upTo(i) \in SUBSET upTo(j) /\ j \in upTo(j) /\ j \notin upTo(i)
    <3>1. i \in Int /\ j \in Int /\ \A k \in I : k \in Int
      OBVIOUS
    <3>2. \A k \in I : k <= i => k <= j
      BY <1>5, <3>1
    <3>3. j <= j /\ ~(j <= i)
      BY <1>5, <3>1
    <3> QED
      BY <3>2, <3>3
  <2>2. Rank(I, i) = Cardinality(upTo(i)) /\ Rank(I, j) = Cardinality(upTo(j))
    BY DEF Rank
  <2>3. IsFiniteSet(upTo(j)) /\ Cardinality(upTo(i)) \in Nat /\ Cardinality(upTo(j)) \in Nat
    BY <1>2
  <2> HIDE DEF upTo
  <2>4. /\ Cardinality(upTo(i)) <= Cardinality(upTo(j))
        /\ Cardinality(upTo(i)) # Cardinality(upTo(j))
    BY <2>1, <2>3, FS_Subset
  <2> QED
    BY <2>2, <2>3, <2>4
<1>6. \A i, j \in I : Rank(I, i) = Rank(I, j) => i = j
  <2> SUFFICES ASSUME NEW i \in I, NEW j \in I, i # j PROVE Rank(I, i) # Rank(I, j)
    OBVIOUS
  <2>1. i < j \/ j < i
    OBVIOUS
  <2>2. Rank(I, i) \in Nat /\ Rank(I, j) \in Nat
    BY <1>1, <1>4
  <2> QED
    BY <1>5, <2>1, <2>2
<1>7. \A m \in 1..Cardinality(I) : \E i \in I : Rank(I, i) = m
  <2> DEFINE T == 1..Cardinality(I)
             f == [i \in I |-> Rank(I, i)]
  <2>1. f \in Injection(I, T)
    BY <1>4, <1>6 DEF Injection, IsInjective
  <2>2. IsFiniteSet(T) /\ Cardinality(T) = Cardinality(I)
    BY <1>1, FS_Interval
  <2>3. f \in Surjection(I, T)
    <3> HIDE DEF f, T
    <3> QED
      BY <2>1, <2>2, FS_Injection
  <2> QED
    BY <2>3 DEF Surjection
<1> QED
  BY <1>1, <1>4, <1>6, <1>7

(* EntriesAt returns the entries at those indices and no other, and none   *)
(* twice that s does not hold twice.                                       *)
LEMMA EntriesAtMeans ==
    ASSUME NEW M, NEW s \in Seq(M), NEW I \in SUBSET (1..Len(s))
    PROVE  /\ EntriesAt(s, I) \in Seq(M)
           /\ \A i \in I : \E n \in 1..Len(EntriesAt(s, I)) : EntriesAt(s, I)[n] = s[i]
           /\ \A n \in 1..Len(EntriesAt(s, I)) : \E i \in I : EntriesAt(s, I)[n] = s[i]
           /\ Distinct(s) => Distinct(EntriesAt(s, I))
<1> DEFINE c == Cardinality(I)
           pick(n) == CHOOSE i \in I : Rank(I, i) = n
           e == EntriesAt(s, I)
<1>1. /\ c \in Nat
      /\ \A i \in I : Rank(I, i) \in 1..c
      /\ \A i, j \in I : Rank(I, i) = Rank(I, j) => i = j
      /\ \A n \in 1..c : \E i \in I : Rank(I, i) = n
  <2>1. Len(s) \in Nat
    OBVIOUS
  <2> QED
    BY <2>1, RankNumbers
<1>2. \A n \in 1..c : pick(n) \in I /\ Rank(I, pick(n)) = n
  BY <1>1
<1>3. \A i \in I : pick(Rank(I, i)) = i
  BY <1>1, <1>2
<1>4. e = [n \in 1..c |-> s[pick(n)]]
  BY DEF EntriesAt
<1> HIDE DEF c, pick, e
<1>5. \A i \in I : i \in 1..Len(s) /\ s[i] \in M
  OBVIOUS
<1>6. e \in Seq(M) /\ Len(e) = c
  <2>1. \A n \in 1..c : s[pick(n)] \in M
    BY <1>2, <1>5
  <2>2. e \in [1..c -> M]
    BY <1>4, <2>1
  <2> QED
    BY <1>1, <2>2
<1>7. \A n \in 1..c : e[n] = s[pick(n)]
  BY <1>4
<1>8. \A i \in I : \E n \in 1..Len(e) : e[n] = s[i]
  BY <1>1, <1>3, <1>6, <1>7
<1>9. \A n \in 1..Len(e) : \E i \in I : e[n] = s[i]
  BY <1>2, <1>6, <1>7
<1>10. Distinct(s) => Distinct(e)
  <2> SUFFICES ASSUME Distinct(s), NEW m \in 1..c, NEW n \in 1..c, e[m] = e[n]
               PROVE  m = n
    BY <1>6 DEF Distinct
  <2>1. pick(m) = pick(n)
    BY <1>2, <1>5, <1>7 DEF Distinct
  <2> QED
    BY <1>2, <2>1
<1> QED
  BY <1>6, <1>8, <1>9, <1>10 DEF e

(* Max of indices is one of them.                                          *)
LEMMA MaxIsOne ==
    ASSUME NEW n \in Nat, NEW I \in SUBSET (1..n), I # {}
    PROVE  Max(I) \in I
<1>1. IsFiniteSet(I) /\ Cardinality(I) \in Nat /\ Cardinality(I) # 0
  BY RankNumbers, FS_EmptySet
<1>2. PICK i \in I : Rank(I, i) = Cardinality(I)
  BY <1>1, RankNumbers
<1>3. {j \in I : j <= i} = I
  <2> DEFINE T == {j \in I : j <= i}
  <2>1. T \in SUBSET I /\ Cardinality(T) = Cardinality(I)
    BY <1>2 DEF Rank
  <2> HIDE DEF T
  <2> QED
    BY <1>1, <2>1, FS_Subset DEF T
<1>4. \A j \in I : i >= j
  BY <1>3
<1> QED
  BY <1>4 DEF Max

(* mergeThread: what either side knows of the conversation, nothing of the *)
(* turn itself, and nothing twice.                                         *)
LEMMA MergeMeans ==
    ASSUME NEW M, NEW mem \in Seq(M), NEW web \in Seq(M), NEW t
    PROVE  LET v == mergeThread(mem, web, t)
           IN  /\ v \in Seq(M)
               /\ \A i \in 1..Len(web) : ~Own(web[i], t) =>
                      \E n \in 1..Len(v) : v[n] = web[i]
               /\ \A n \in 1..Len(v) :
                      /\ ~Own(v[n], t)
                      /\ \/ \E i \in 1..Len(mem) : v[n] = mem[i]
                         \/ \E i \in 1..Len(web) : v[n] = web[i]
               /\ Distinct(mem) /\ Distinct(web) => Distinct(v)
<1> DEFINE I == Prior(mem, t)
           J == {i \in Prior(web, t) : ~Contains(mem, web[i])}
           a == EntriesAt(mem, I)
           b == EntriesAt(web, J)
           v == mergeThread(mem, web, t)
<1>1. I \in SUBSET (1..Len(mem)) /\ J \in SUBSET (1..Len(web))
  BY DEF Prior
<1>2. /\ a \in Seq(M) /\ b \in Seq(M)
      /\ \A i \in I : \E n \in 1..Len(a) : a[n] = mem[i]
      /\ \A n \in 1..Len(a) : \E i \in I : a[n] = mem[i]
      /\ \A i \in J : \E n \in 1..Len(b) : b[n] = web[i]
      /\ \A n \in 1..Len(b) : \E i \in J : b[n] = web[i]
      /\ Distinct(mem) => Distinct(a)
      /\ Distinct(web) => Distinct(b)
  <2> HIDE DEF I, J
  <2> QED
    BY <1>1, EntriesAtMeans
<1>3. v = a \o b
  BY DEF mergeThread
<1>4. /\ \A i \in 1..Len(mem) : i \in I <=> ~Own(mem[i], t)
      /\ \A i \in 1..Len(web) : i \in J <=> /\ ~Own(web[i], t)
                                            /\ \A k \in 1..Len(mem) : mem[k] # web[i]
  BY DEF Prior, Contains
<1> HIDE DEF I, J, a, b, v
<1>5. /\ v \in Seq(M) /\ Len(a) \in Nat /\ Len(b) \in Nat /\ Len(v) = Len(a) + Len(b)
      /\ \A n \in 1..Len(a) : n \in 1..Len(v) /\ v[n] = a[n]
      /\ \A n \in 1..Len(b) : Len(a) + n \in 1..Len(v) /\ v[Len(a) + n] = b[n]
      /\ \A n \in 1..Len(v) : \/ n \in 1..Len(a)
                              \/ n - Len(a) \in 1..Len(b) /\ v[n] = b[n - Len(a)]
  <2>1. /\ v \in Seq(M) /\ Len(a) \in Nat /\ Len(b) \in Nat /\ Len(v) = Len(a) + Len(b)
        /\ \A n \in 1..Len(a) + Len(b) : v[n] = IF n <= Len(a) THEN a[n] ELSE b[n - Len(a)]
    BY <1>2, <1>3
  <2>2. \A k, l \in Nat :
          /\ \A n \in 1..k : n \in 1..k + l /\ n <= k
          /\ \A n \in 1..l : k + n \in 1..k + l /\ ~(k + n <= k) /\ (k + n) - k = n
          /\ \A n \in 1..k + l : n \in 1..k \/ (n - k \in 1..l /\ ~(n <= k))
    OBVIOUS
  <2>3. \A n \in 1..Len(a) : n \in 1..Len(v) /\ v[n] = a[n]
    BY <2>1, <2>2
  <2>4. ASSUME NEW n \in 1..Len(b)
        PROVE  Len(a) + n \in 1..Len(v) /\ v[Len(a) + n] = b[n]
    <3>1. /\ Len(a) + n \in 1..Len(a) + Len(b) /\ ~(Len(a) + n <= Len(a))
          /\ (Len(a) + n) - Len(a) = n
      BY <2>1, <2>2
    <3> QED
      BY <2>1, <3>1
  <2>5. \A n \in 1..Len(v) : \/ n \in 1..Len(a)
                             \/ n - Len(a) \in 1..Len(b) /\ v[n] = b[n - Len(a)]
    <3>1. ASSUME NEW n \in 1..Len(v), n \notin 1..Len(a)
          PROVE  n - Len(a) \in 1..Len(b) /\ v[n] = b[n - Len(a)]
      <4>1. n \in 1..Len(a) + Len(b)
        BY <2>1
      <4>2. n - Len(a) \in 1..Len(b) /\ ~(n <= Len(a))
        BY <2>1, <2>2, <3>1, <4>1
      <4> QED
        BY <2>1, <4>1, <4>2
    <3> QED
      BY <3>1
  <2> QED
    BY <2>1, <2>3, <2>4, <2>5
<1>6. ASSUME NEW i \in 1..Len(web), ~Own(web[i], t)
      PROVE  \E n \in 1..Len(v) : v[n] = web[i]
  <2>1. CASE i \in J
    <3>1. PICK n \in 1..Len(b) : b[n] = web[i]
      BY <1>2, <2>1
    <3>2. Len(a) + n \in 1..Len(v) /\ v[Len(a) + n] = web[i]
      BY <1>5, <3>1
    <3> QED
      BY <3>2
  <2>2. CASE i \notin J
    <3>1. PICK k \in 1..Len(mem) : mem[k] = web[i]
      BY <1>4, <1>6, <2>2
    <3>2. k \in I
      BY <1>4, <1>6, <3>1
    <3>3. PICK n \in 1..Len(a) : a[n] = mem[k]
      BY <1>2, <3>2
    <3>4. n \in 1..Len(v) /\ v[n] = a[n]
      BY <1>5
    <3> QED
      BY <3>1, <3>3, <3>4
  <2> QED
    BY <2>1, <2>2
<1>7. \A n \in 1..Len(v) : \/ n \in 1..Len(a) /\ \E i \in I : v[n] = mem[i]
                           \/ n - Len(a) \in 1..Len(b) /\ \E i \in J : v[n] = web[i]
  <2> SUFFICES ASSUME NEW n \in 1..Len(v)
               PROVE  \/ n \in 1..Len(a) /\ \E i \in I : v[n] = mem[i]
                      \/ n - Len(a) \in 1..Len(b) /\ \E i \in J : v[n] = web[i]
    OBVIOUS
  <2>1. CASE n \in 1..Len(a)
    <3>1. v[n] = a[n]
      BY <1>5, <2>1
    <3> QED
      BY <1>2, <2>1, <3>1
  <2>2. CASE n - Len(a) \in 1..Len(b) /\ v[n] = b[n - Len(a)]
    BY <1>2, <2>2
  <2> QED
    BY <1>5, <2>1, <2>2
<1>8. \A n \in 1..Len(v) : /\ ~Own(v[n], t)
                           /\ \/ \E i \in 1..Len(mem) : v[n] = mem[i]
                              \/ \E i \in 1..Len(web) : v[n] = web[i]
  BY <1>1, <1>4, <1>7
<1>9. ASSUME Distinct(mem), Distinct(web) PROVE Distinct(v)
  <2>1. Distinct(a) /\ Distinct(b)
    BY <1>2, <1>9
  <2> SUFFICES ASSUME NEW m \in 1..Len(v), NEW n \in 1..Len(v), v[m] = v[n] PROVE m = n
    BY DEF Distinct
  <2>2. CASE m \in 1..Len(a) /\ n \in 1..Len(a)
    BY <1>5, <2>1, <2>2 DEF Distinct
  <2>3. CASE m \notin 1..Len(a) /\ n \notin 1..Len(a)
    <3>1. /\ m - Len(a) \in 1..Len(b) /\ n - Len(a) \in 1..Len(b)
          /\ b[m - Len(a)] = b[n - Len(a)]
      BY <1>5, <2>3
    <3>2. m - Len(a) = n - Len(a)
      BY <2>1, <3>1 DEF Distinct
    <3>3. \A k, x, y \in Int : x - k = y - k => x = y
      OBVIOUS
    <3>4. m \in Int /\ n \in Int /\ Len(a) \in Int
      BY <1>5
    <3> QED
      BY <3>2, <3>3, <3>4
  <2>4. ASSUME NEW x \in 1..Len(v), NEW y \in 1..Len(v), x \in 1..Len(a), y \notin 1..Len(a)
        PROVE  v[x] # v[y]
    <3>1. PICK i \in I : v[x] = mem[i]
      <4>1. v[x] = a[x]
        BY <1>5, <2>4
      <4> QED
        BY <1>2, <2>4, <4>1
    <3>2. PICK j \in J : v[y] = web[j]
      BY <1>7, <2>4
    <3> QED
      BY <1>1, <1>4, <3>1, <3>2
  <2> QED
    BY <2>2, <2>3, <2>4
<1> QED
  BY <1>5, <1>6, <1>8, <1>9 DEF v

-----------------------------------------------------------------------------
(* That the offer at i is backed by a hold stored with a reply of the bot. *)
BackedAt(messages, i) ==
    \E j \in 1..Len(messages) :
        /\ messages[j].by = "bot"
        /\ j = i \/ (messages[i].by = "host" /\ messages[j].body = messages[i].body)
        /\ "ok" \in replies[messages[j].of]

(* holdSucceeded looks for exactly that.                                   *)
LEMMA HoldSucceededMeans ==
    ASSUME NEW messages, NEW i \in 1..Len(messages), FromHost(messages[i])
    PROVE  holdSucceeded(messages, messages[i]) <=> BackedAt(messages, i)
<1>1. messages[i].by \in {"bot", "host"} /\ (messages[i].by # "bot" <=> messages[i].by = "host")
  BY DEF FromHost
<1>2. \A m : hasSuccessfulHold(m) <=> m.by = "bot" /\ "ok" \in replies[m.of]
  BY DEF hasSuccessfulHold, holdLookupIDs
<1>3. CASE messages[i].by = "bot"
  BY <1>1, <1>2, <1>3 DEF holdSucceeded, hasSuccessfulHoldByBodyAlias, BackedAt
<1>4. CASE messages[i].by = "host"
  BY <1>1, <1>2, <1>4 DEF holdSucceeded, hasSuccessfulHoldByBodyAlias, BackedAt
<1> QED
  BY <1>1, <1>3, <1>4

(* The guard lets a guest who accepts some offer pass: there is a hold,    *)
(* and the guest does not ask to finalize.                                 *)
LEMMA GuardPasses ==
    ASSUME NEW messages, Len(messages) \in Nat, NEW guest,
           ~latestCommitmentCandidate(messages, guest), Matches(messages, guest) # {}
    PROVE  /\ ~WantsFinalization(guest)
           /\ \E i \in 1..Len(messages) : BackedAt(messages, i)
<1> DEFINE decisive == {i \in Matches(messages, guest) :
                          messages[i].by = "bot" \/ holdSucceeded(messages, messages[i])}
<1>1. /\ decisive # {}
      /\ holdSucceeded(messages, messages[Max(decisive)])
      /\ ~WantsFinalization(guest)
  BY DEF latestCommitmentCandidate
<1>2. decisive \in SUBSET (1..Len(messages)) /\ \A i \in decisive : FromHost(messages[i])
  BY DEF Matches
<1> HIDE DEF decisive
<1>3. Max(decisive) \in decisive
  BY <1>1, <1>2, MaxIsOne
<1> QED
  BY <1>1, <1>2, <1>3, HoldSucceededMeans

(* The guard hands a guest off who does not ask to finalize: some offer    *)
(* the guest accepts is not backed.                                        *)
LEMMA GuardHands ==
    ASSUME NEW messages, Len(messages) \in Nat, NEW guest,
           latestCommitmentCandidate(messages, guest), ~WantsFinalization(guest)
    PROVE  \E i \in Matches(messages, guest) : ~BackedAt(messages, i)
<1> DEFINE decisive == {i \in Matches(messages, guest) :
                          messages[i].by = "bot" \/ holdSucceeded(messages, messages[i])}
<1>1. Matches(messages, guest) \in SUBSET (1..Len(messages))
      /\ \A i \in Matches(messages, guest) : FromHost(messages[i])
  BY DEF Matches
<1>2. CASE decisive = {}
  <2>1. PICK i \in Matches(messages, guest) : TRUE
    BY <1>2 DEF latestCommitmentCandidate
  <2>2. ~holdSucceeded(messages, messages[i])
    BY <1>2
  <2> QED
    BY <1>1, <2>1, <2>2, HoldSucceededMeans
<1>3. CASE decisive # {}
  <2>1. ~holdSucceeded(messages, messages[Max(decisive)])
    BY <1>3 DEF latestCommitmentCandidate
  <2>2. decisive \in SUBSET (1..Len(messages)) /\ decisive \in SUBSET Matches(messages, guest)
    BY <1>1
  <2> HIDE DEF decisive
  <2>3. Max(decisive) \in decisive
    BY <1>3, <2>2, MaxIsOne
  <2> QED
    BY <1>1, <2>1, <2>2, <2>3, HoldSucceededMeans
<1> QED
  BY <1>2, <1>3

-----------------------------------------------------------------------------
(* A turn whose conversation was fetched, and one whose view was built,    *)
(* other than the ones that ended with the conversation answered.          *)
Fetched(t) ==
    pc[t] \in {"context", "handoff", "answer", "send", "closeSent", "closeUnsent"} \/ draft[t] # ""
Viewed(t) ==
    \/ pc[t] \in {"handoff", "answer", "send", "closeSent", "closeUnsent"}
    \/ draft[t] # ""
    \/ view[t] # <<>>

(* Drafts come after the guard, and a turn that it handed off has none.    *)
StageInv ==
    \A t \in Turns :
        /\ draft[t] # "" => pc[t] \in {"send", "closeSent", "closeUnsent", "done"}
        /\ t \in handed => pc[t] \in {"closeUnsent", "done"} /\ draft[t] = ""
        /\ pc[t] \in {"unwritten", "flush", "context"} => view[t] = <<>>

(* Guesty's thread: posts the guest has written, notes only of turns that  *)
(* were sent, no entries of the memory, and nothing twice.                 *)
ThreadMeans ==
    /\ Distinct(thread)
    /\ \A i \in 1..Len(thread) :
          /\ thread[i].by # "bot"
          /\ thread[i].by = "guest" =>
                thread[i].of \in Turns /\ thread[i].n <= posts[thread[i].of]
          /\ thread[i].by = "note" =>
                thread[i].of \in Turns /\ pc[thread[i].of] \in {"closeSent", "done"}

(* The memory: posts and replies of turns that are over, none twice.       *)
MemoryMeans ==
    /\ Distinct(memory)
    /\ \A i \in 1..Len(memory) :
          /\ memory[i].by \in {"guest", "bot"}
          /\ memory[i].of \in Turns /\ pc[memory[i].of] = "done"

(* What a turn fetched is a part of the thread, and all of it up to the    *)
(* turn's last post where the conversation fits on a page.                 *)
PageOf(page, all) ==
    \E skip \in Nat : \A i \in 1..Len(page) : i + skip \in 1..Len(all) /\ page[i] = all[i + skip]
FetchedMeans ==
    \A t \in Turns :
        /\ PageOf(fetched[t], thread)
        /\ Fetched(t) /\ Len(thread) <= PageSize =>
              \A j \in 1..Len(thread) : thread[j] = LastPost(t) =>
                 \A i \in 1..j : Contains(fetched[t], thread[i])

(* The view: complete, without the turn's own posts and without            *)
(* repetition; the replies it holds are of turns that are over.            *)
Complete(t) ==
    /\ \A i \in 1..Len(fetched[t]) : ~Own(fetched[t][i], t) =>
          \E n \in 1..Len(view[t]) : view[t][n] = fetched[t][i]
    /\ \A n \in 1..Len(view[t]) : ~Own(view[t][n], t)
    /\ Distinct(view[t])
ViewMeans ==
    \A t \in Turns :
        /\ Viewed(t) => Complete(t)
        /\ \A n \in 1..Len(view[t]) : view[t][n].by = "bot" =>
              view[t][n].of \in Turns /\ pc[view[t][n].of] = "done"

(* A success that is stored with a reply is a hold at Guesty.              *)
HoldsMeans == \A t \in Turns : "ok" \in replies[t] => t \in held

IInv ==
    /\ TypeOK /\ StageInv /\ ThreadMeans /\ MemoryMeans /\ FetchedMeans /\ ViewMeans
    /\ HoldsMeans /\ PassedMeansHeld /\ BackedOfferFlows

-----------------------------------------------------------------------------
(* What no step takes back.                                                *)
Forward ==
    \A u \in Turns : /\ pc[u] = "done" => pc'[u] = "done"
                     /\ pc[u] \in {"closeSent", "done"} => pc'[u] \in {"closeSent", "done"}

(* A step of turn t to another place in its turn.                          *)
LEMMA PcMoves ==
    ASSUME TypeOK, NEW t \in Turns,
           NEW to \in {"unwritten", "flush", "context", "handoff", "answer", "send",
                       "closeSent", "closeUnsent", "done"},
           pc' = [pc EXCEPT ![t] = to]
    PROVE  /\ pc' \in [Turns -> {"unwritten", "flush", "context", "handoff", "answer", "send",
                                 "closeSent", "closeUnsent", "done"}]
           /\ pc'[t] = to
           /\ \A u \in Turns : u # t => pc'[u] = pc[u]
  BY DEF TypeOK

(* The sequences of messages.                                              *)
LEMMA Sequenced ==
    ASSUME TypeOK
    PROVE  /\ thread \in Seq(Message) /\ Len(thread) \in Nat
           /\ memory \in Seq(Message) /\ Len(memory) \in Nat
           /\ \A u \in Turns : /\ fetched[u] \in Seq(Message) /\ Len(fetched[u]) \in Nat
                               /\ view[u] \in Seq(Message) /\ Len(view[u]) \in Nat
<1>1. \A s \in Seq(Message) : Len(s) \in Nat
  OBVIOUS
<1>2. thread \in Seq(Message) /\ memory \in Seq(Message)
  BY DEF TypeOK
<1>3. \A u \in Turns : fetched[u] \in Seq(Message) /\ view[u] \in Seq(Message)
  BY DEF TypeOK
<1> QED
  BY <1>1, <1>2, <1>3

(* The thread and what is written stay.                                    *)
LEMMA ThreadKept ==
    ASSUME IInv, Forward, thread' = thread, posts' = posts
    PROVE  ThreadMeans'
  BY DEF IInv, Forward, ThreadMeans, Distinct

(* The memory stays.                                                       *)
LEMMA MemoryKept ==
    ASSUME IInv, Forward, memory' = memory
    PROVE  MemoryMeans'
  BY DEF IInv, Forward, MemoryMeans, Distinct

(* A page stays a part of a thread that only grows.                        *)
LEMMA PageKept ==
    ASSUME NEW page \in Seq(Message), NEW s \in Seq(Message), NEW m \in Message, PageOf(page, s)
    PROVE  PageOf(page, Append(s, m))
<1>1. PICK a : a = Append(s, m)
  OBVIOUS
<1>2. Len(s) \in Nat /\ Len(a) = Len(s) + 1 /\ \A i \in 1..Len(s) : a[i] = s[i]
  BY <1>1
<1>3. PICK skip \in Nat :
        \A i \in 1..Len(page) : i + skip \in 1..Len(s) /\ page[i] = s[i + skip]
  BY DEF PageOf
<1>4. \A i \in 1..Len(page) : i + skip \in 1..Len(a) /\ page[i] = a[i + skip]
  BY <1>2, <1>3
<1> QED
  BY <1>1, <1>4 DEF PageOf

(* What was fetched stays what it was of a thread that only grows, and not *)
(* by a post of a turn that has fetched.                                   *)
LEMMA FetchedKept ==
    ASSUME IInv, fetched' = fetched,
           \/ thread' = thread
           \/ \E m \in Message : /\ thread' = Append(thread, m)
                                 /\ \A u \in Turns : Fetched(u) => ~Own(m, u),
           \A u \in Turns : Fetched(u)' => Fetched(u) /\ posts'[u] = posts[u]
    PROVE  FetchedMeans'
<1>1. thread \in Seq(Message) /\ Len(thread) \in Nat
  BY Sequenced DEF IInv
<1> SUFFICES ASSUME NEW u \in Turns
             PROVE  /\ PageOf(fetched[u], thread')
                    /\ Fetched(u) /\ posts'[u] = posts[u] /\ Len(thread') <= PageSize =>
                          \A j \in 1..Len(thread') : thread'[j] = GuestPost(u, posts[u]) =>
                             \A i \in 1..j : Contains(fetched[u], thread'[i])
  BY DEF FetchedMeans, LastPost
<1>2. /\ PageOf(fetched[u], thread)
      /\ Fetched(u) /\ Len(thread) <= PageSize =>
            \A j \in 1..Len(thread) : thread[j] = GuestPost(u, posts[u]) =>
               \A i \in 1..j : Contains(fetched[u], thread[i])
  BY DEF IInv, FetchedMeans, LastPost
<1>3. CASE thread' = thread
  BY <1>2, <1>3
<1>4. ASSUME NEW m \in Message, thread' = Append(thread, m), Fetched(u) => ~Own(m, u)
      PROVE  /\ PageOf(fetched[u], thread')
             /\ Fetched(u) /\ posts'[u] = posts[u] /\ Len(thread') <= PageSize =>
                   \A j \in 1..Len(thread') : thread'[j] = GuestPost(u, posts[u]) =>
                      \A i \in 1..j : Contains(fetched[u], thread'[i])
  <2>1. PICK s, x, page : s = thread /\ x = thread' /\ page = fetched[u]
    OBVIOUS
  <2>2. s \in Seq(Message) /\ page \in Seq(Message) /\ x = Append(s, m)
    BY <1>4, <2>1, Sequenced DEF IInv
  <2>3. PageOf(page, x)
    BY <1>2, <2>1, <2>2, PageKept
  <2>4. ASSUME Fetched(u), Len(x) <= PageSize, NEW j \in 1..Len(x), x[j] = GuestPost(u, posts[u]),
               NEW i \in 1..j
        PROVE  Contains(page, x[i])
    <3>1. Len(s) \in Nat /\ Len(x) = Len(s) + 1 /\ x[Len(s) + 1] = m
          /\ \A k \in 1..Len(s) : x[k] = s[k]
      BY <2>2
    <3>2. ~Own(m, u) /\ Own(x[j], u)
      <4>1. \A k : GuestPost(u, k).by = "guest" /\ GuestPost(u, k).of = u
        BY DEF GuestPost
      <4> QED
        BY <1>4, <2>4, <4>1 DEF Own
    <3>3. j # Len(s) + 1
      BY <3>1, <3>2
    <3>4. j \in 1..Len(s) /\ i \in 1..Len(s)
      BY <3>1, <3>3
    <3>5. Len(s) <= PageSize
      BY <2>4, <3>1, CommitmentAssumption
    <3>6. Contains(page, s[i])
      BY <1>2, <2>1, <2>4, <3>1, <3>4, <3>5
    <3> QED
      BY <3>1, <3>4, <3>6
  <2> QED
    BY <2>1, <2>3, <2>4
<1> QED
  BY <1>3, <1>4

(* The views stay, and so does what their turns fetched.                   *)
LEMMA ViewKept ==
    ASSUME IInv, Forward, view' = view,
           \A u \in Turns : Viewed(u)' => Viewed(u) /\ fetched'[u] = fetched[u]
    PROVE  ViewMeans'
<1> SUFFICES ASSUME NEW u \in Turns
             PROVE  /\ Viewed(u)' => Complete(u)'
                    /\ \A n \in 1..Len(view[u]) : view[u][n].by = "bot" =>
                          view[u][n].of \in Turns /\ pc'[view[u][n].of] = "done"
  BY DEF ViewMeans
<1>1. \A n \in 1..Len(view[u]) : view[u][n].by = "bot" =>
          view[u][n].of \in Turns /\ pc'[view[u][n].of] = "done"
  BY DEF IInv, ViewMeans, Forward
<1>2. ASSUME Viewed(u)' PROVE Complete(u)'
  <2>1. Viewed(u) /\ fetched'[u] = fetched[u]
    BY <1>2
  <2>2. Complete(u)
    BY <2>1 DEF IInv, ViewMeans
  <2> QED
    BY <2>1, <2>2 DEF Complete, Own
<1> QED
  BY <1>1, <1>2

(* Nobody gets past the guard who was not, and no hold disappears.         *)
LEMMA PassedKept ==
    ASSUME IInv, held \subseteq held',
           \A u \in Turns : u \in Passed' =>
               u \in Passed /\ view'[u] = view[u] /\ said'[u] = said[u]
    PROVE  PassedMeansHeld'
<1>1. \A u \in Passed' : u \in Turns
  BY DEF Passed
<1> QED
  BY <1>1 DEF IInv, PassedMeansHeld, Matches, FromHost, Detect, WantsFinalization

(* Nobody is handed off who was not, and what is stored with a reply that  *)
(* the memory knows stays.                                                 *)
LEMMA FlowsKept ==
    ASSUME IInv, handed' = handed,
           \A u \in handed : view'[u] = view[u] /\ said'[u] = said[u],
           \A u \in Turns : pc[u] = "done" => replies'[u] = replies[u]
    PROVE  BackedOfferFlows'
<1> SUFFICES ASSUME NEW t \in handed, ~WantsFinalization(said[t])
             PROVE  \E i \in Matches(view[t], said[t]) :
                       ~ \E j \in 1..Len(view[t]) :
                          /\ view[t][j].by = "bot"
                          /\ j = i \/ (view[t][i].by = "host" /\ view[t][j].body = view[t][i].body)
                          /\ "ok" \in replies'[view[t][j].of]
  BY DEF BackedOfferFlows, WantsFinalization, Matches, FromHost, Detect
<1>1. t \in Turns
  BY DEF IInv, TypeOK
<1>2. PICK i \in Matches(view[t], said[t]) :
                       ~ \E j \in 1..Len(view[t]) :
                          /\ view[t][j].by = "bot"
                          /\ j = i \/ (view[t][i].by = "host" /\ view[t][j].body = view[t][i].body)
                          /\ "ok" \in replies[view[t][j].of]
  BY DEF IInv, BackedOfferFlows
<1>3. \A j \in 1..Len(view[t]) : view[t][j].by = "bot" =>
          replies'[view[t][j].of] = replies[view[t][j].of]
  BY <1>1 DEF IInv, ViewMeans
<1> QED
  BY <1>2, <1>3

(* The guard's verdicts exclude each other.                                *)
LEMMA Excluded == StageInv /\ handed \in SUBSET Turns => handed \cap Passed = {}
  BY DEF StageInv, Passed

(* The same in the next state.                                             *)
LEMMA ExcludedNext == StageInv' /\ (handed \in SUBSET Turns)' => (handed \cap Passed = {})'
  BY Excluded, PTL

(* A message comes to the thread: one that was not there, of a turn where  *)
(* it belongs.                                                             *)
LEMMA ThreadAppends ==
    ASSUME IInv, Forward, NEW m \in Message, thread' = Append(thread, m),
           m.by # "bot",
           m.by = "guest" => m.of \in Turns /\ m.n <= posts'[m.of],
           m.by = "note" => m.of \in Turns /\ pc'[m.of] \in {"closeSent", "done"},
           \A i \in 1..Len(thread) : thread[i] # m,
           \A u \in Turns : posts[u] \in Nat /\ posts'[u] \in Nat /\ posts[u] <= posts'[u]
    PROVE  ThreadMeans'
<1>1. thread \in Seq(Message) /\ Len(thread) \in Nat
  BY Sequenced DEF IInv
<1>2. /\ Len(thread') = Len(thread) + 1
      /\ \A i \in 1..Len(thread) : thread'[i] = thread[i]
      /\ thread'[Len(thread) + 1] = m
  BY <1>1
<1>3. \A k \in Nat : \A i \in 1..k + 1 : i \in 1..k \/ i = k + 1
  OBVIOUS
<1>4. \A i \in 1..Len(thread) : thread[i].n \in Nat
  <2>1. \A x \in Message : x.n \in Nat
    BY DEF Message
  <2> QED
    BY <1>1, <2>1
<1>5. \A i \in 1..Len(thread') : i \in 1..Len(thread) \/ i = Len(thread) + 1
  BY <1>1, <1>2, <1>3
<1>6. Distinct(thread')
  <2> SUFFICES ASSUME NEW i \in 1..Len(thread'), NEW j \in 1..Len(thread'),
                      thread'[i] = thread'[j]
               PROVE  i = j
    BY DEF Distinct
  <2>1. Distinct(thread)
    BY DEF IInv, ThreadMeans
  <2>2. CASE i \in 1..Len(thread) /\ j \in 1..Len(thread)
    BY <1>2, <2>1, <2>2 DEF Distinct
  <2>3. CASE i = Len(thread) + 1 /\ j = Len(thread) + 1
    BY <2>3
  <2> QED
    BY <1>2, <1>5, <2>2, <2>3
<1>7. ASSUME NEW i \in 1..Len(thread')
      PROVE  /\ thread'[i].by # "bot"
             /\ thread'[i].by = "guest" =>
                   thread'[i].of \in Turns /\ thread'[i].n <= posts'[thread'[i].of]
             /\ thread'[i].by = "note" =>
                   thread'[i].of \in Turns /\ pc'[thread'[i].of] \in {"closeSent", "done"}
  <2>1. CASE i \in 1..Len(thread)
    <3>1. \A x, y, z \in Nat : x <= y /\ y <= z => x <= z
      OBVIOUS
    <3>2. thread'[i] = thread[i]
      BY <1>2, <2>1
    <3> QED
      BY <1>4, <2>1, <3>1, <3>2 DEF IInv, ThreadMeans, Forward
  <2>2. CASE i = Len(thread) + 1
    BY <1>2, <2>2
  <2> QED
    BY <1>5, <2>1, <2>2
<1> QED
  BY <1>6, <1>7 DEF ThreadMeans, Distinct

(* Nothing is written yet.                                                 *)
LEMMA InitEstablishes == Init => IInv
<1> SUFFICES ASSUME Init PROVE IInv
  OBVIOUS
<1>1. /\ <<>> \in Seq(Message) /\ Len(<<>>) = 0 /\ 1..0 = {}
      /\ \A t \in Turns : /\ pc[t] = "unwritten" /\ replies[t] = {} /\ draft[t] = ""
                          /\ fetched[t] = <<>> /\ view[t] = <<>>
      /\ thread = <<>> /\ memory = <<>> /\ handed = {}
  <2>1. <<>> \in Seq(Message) /\ Len(<<>>) = 0
    OBVIOUS
  <2>2. 1..0 = {}
    OBVIOUS
  <2> QED
    BY <2>1, <2>2 DEF Init
<1>2. Quiet \in GuestBody
  BY DEF Quiet, GuestBody
<1>3. Passed = {}
  BY <1>1 DEF Passed
<1>4. TypeOK
  BY <1>1, <1>2, <1>3 DEF Init, TypeOK
<1>5. StageInv
  BY <1>1 DEF StageInv
<1>6. ThreadMeans /\ MemoryMeans
  BY <1>1 DEF ThreadMeans, MemoryMeans, Distinct
<1>7. FetchedMeans
  <2>1. \A t \in Turns : ~Fetched(t) /\ Len(fetched[t]) = 0
    BY <1>1 DEF Fetched
  <2>2. 0 \in Nat
    OBVIOUS
  <2> QED
    BY <1>1, <2>1, <2>2 DEF FetchedMeans, PageOf
<1>8. ViewMeans
  BY <1>1 DEF ViewMeans, Viewed
<1>9. HoldsMeans /\ PassedMeansHeld /\ BackedOfferFlows
  BY <1>1, <1>3 DEF HoldsMeans, PassedMeansHeld, BackedOfferFlows
<1> QED
  BY <1>4, <1>5, <1>6, <1>7, <1>8, <1>9 DEF IInv

(* The guest's message.                                                    *)
LEMMA GuestWritesStep ==
    ASSUME IInv, NEW t \in Turns, NEW body \in GuestBodies, GuestWrites(t, body)
    PROVE  IInv'
<1> DEFINE k == posts[t] + 1
<1>1. /\ pc[t] \in {"unwritten", "flush"} /\ said' = [said EXCEPT ![t] = body]
      /\ posts' = [posts EXCEPT ![t] = k]
      /\ thread' = Append(thread, GuestPost(t, k)) /\ pc' = [pc EXCEPT ![t] = "flush"]
      /\ UNCHANGED <<memory, replies, held, fetched, view, draft, handed>>
  BY DEF GuestWrites
<1>2. TypeOK
  BY DEF IInv
<1>3. /\ pc'[t] = "flush" /\ \A u \in Turns : u # t => pc'[u] = pc[u]
      /\ pc' \in [Turns -> {"unwritten", "flush", "context", "handoff", "answer", "send",
                            "closeSent", "closeUnsent", "done"}]
  BY <1>1, <1>2, PcMoves
<1>4. Forward
  BY <1>1, <1>3 DEF Forward
<1>5. draft[t] = "" /\ t \notin handed /\ view[t] = <<>>
  BY <1>1 DEF IInv, StageInv
<1>6. said' \in [Turns -> GuestBody] /\ \A u \in Turns : u # t => said'[u] = said[u]
  BY <1>1, <1>2, CommitmentAssumption DEF TypeOK
<1>7. PICK m : m = GuestPost(t, k)
  OBVIOUS
<1>70. posts[t] \in Nat /\ k \in Nat /\ k > posts[t]
  <2>1. posts[t] \in Nat
    BY <1>2 DEF TypeOK
  <2> QED
    BY <2>1
<1> HIDE DEF k
<1>71. m \in Message /\ m.by = "guest" /\ m.of = t /\ m.n = k
  BY <1>7, <1>70 DEF GuestPost, Message
<1>72. /\ posts' \in [Turns -> Nat] /\ posts'[t] = k
       /\ \A u \in Turns : u # t => posts'[u] = posts[u]
  BY <1>1, <1>2, <1>70 DEF TypeOK
<1>8. StageInv'
  BY <1>1, <1>3, <1>5 DEF IInv, StageInv
<1>9. thread' \in Seq(Message)
  <2>1. thread \in Seq(Message)
    BY <1>2, Sequenced
  <2> QED
    BY <1>1, <1>7, <1>71, <2>1
<1>10. TypeOK'
  <2>1. (handed \cap Passed = {})'
    BY <1>1, <1>2, <1>8, ExcludedNext DEF TypeOK
  <2> QED
    BY <1>1, <1>2, <1>3, <1>6, <1>72, <1>9, <2>1 DEF TypeOK
<1>11. ThreadMeans'
  <2>1. \A i \in 1..Len(thread) : thread[i] # m
    <3>1. ~(k <= posts[t])
      BY <1>70
    <3> QED
      BY <1>71, <3>1 DEF IInv, ThreadMeans
  <2>2. \A u \in Turns : posts[u] \in Nat /\ posts'[u] \in Nat /\ posts[u] <= posts'[u]
    <3>1. \A u \in Turns : posts[u] \in Nat
      BY <1>2 DEF TypeOK
    <3>2. posts[t] <= k /\ \A u \in Turns : posts[u] <= posts[u]
      BY <1>70, <3>1
    <3> QED
      BY <1>70, <1>72, <3>1, <3>2
  <2>3. k <= k
    BY <1>70
  <2>4. thread' = Append(thread, m)
    BY <1>1, <1>7
  <2> QED
    BY <1>4, <1>71, <1>72, <2>1, <2>2, <2>3, <2>4, ThreadAppends
<1>12. MemoryMeans'
  BY <1>1, <1>4, MemoryKept
<1>13. FetchedMeans'
  <2>1. \A u \in Turns : Fetched(u)' => Fetched(u) /\ u # t
    BY <1>1, <1>3, <1>5 DEF Fetched
  <2>2. ~Fetched(t)
    BY <1>1, <1>5 DEF Fetched
  <2>3. \A u \in Turns : Fetched(u) => ~Own(m, u)
    BY <1>71, <2>2 DEF Own
  <2>4. thread' = Append(thread, m) /\ fetched' = fetched
    BY <1>1, <1>7
  <2> QED
    BY <1>71, <1>72, <2>1, <2>3, <2>4, FetchedKept
<1>14. ViewMeans'
  <2>1. \A u \in Turns : Viewed(u)' => Viewed(u)
    BY <1>1, <1>3 DEF Viewed
  <2> QED
    BY <1>1, <1>4, <2>1, ViewKept
<1>15. PassedMeansHeld'
  <2>1. \A u \in Turns : u \in Passed' => u \in Passed /\ u # t
    BY <1>1, <1>3, <1>5 DEF Passed
  <2> QED
    BY <1>1, <1>6, <2>1, PassedKept
<1>16. BackedOfferFlows'
  <2>1. \A u \in handed : view'[u] = view[u] /\ said'[u] = said[u]
    BY <1>1, <1>2, <1>5, <1>6 DEF TypeOK
  <2> QED
    BY <1>1, <2>1, FlowsKept
<1> QED
  BY <1>1, <1>8, <1>10, <1>11, <1>12, <1>13, <1>14, <1>15, <1>16 DEF IInv, HoldsMeans

(* The host's message.                                                     *)
LEMMA HostWritesStep ==
    ASSUME IInv, NEW h \in HostPosts, NEW body \in Bodies, HostWrites(h, body)
    PROVE  IInv'
<1> DEFINE m == [by |-> "host", of |-> h, n |-> 0, body |-> body]
<1>1. /\ \A i \in 1..Len(thread) : thread[i].of # h
      /\ thread' = Append(thread, m)
      /\ UNCHANGED <<pc, posts, said, memory, replies, held, fetched, view, draft, handed>>
  BY DEF HostWrites
<1>2. m \in Message /\ m.by = "host" /\ m.of = h
  BY DEF Message
<1> HIDE DEF m
<1>3. Forward
  BY <1>1 DEF Forward
<1>4. TypeOK'
  <2>1. thread \in Seq(Message)
    BY Sequenced DEF IInv
  <2>2. thread' \in Seq(Message)
    BY <1>1, <1>2, <2>1
  <2> QED
    BY <1>1, <2>2 DEF IInv, TypeOK, Passed
<1>5. ThreadMeans'
  <2>0. posts \in [Turns -> Nat]
    BY DEF IInv, TypeOK
  <2>1. \A u \in Turns : posts[u] \in Nat /\ posts'[u] \in Nat /\ posts[u] <= posts'[u]
    BY <1>1, <2>0
  <2> QED
    BY <1>1, <1>2, <1>3, <2>1, ThreadAppends
<1>6. MemoryMeans'
  BY <1>1, <1>3, MemoryKept
<1>7. FetchedMeans'
  <2>1. \A u \in Turns : Fetched(u)' => Fetched(u)
    BY <1>1 DEF Fetched
  <2>2. \A u \in Turns : ~Own(m, u)
    BY <1>2 DEF Own
  <2> QED
    BY <1>1, <1>2, <2>1, <2>2, FetchedKept
<1>8. ViewMeans'
  <2>1. \A u \in Turns : Viewed(u)' => Viewed(u)
    BY <1>1 DEF Viewed
  <2> QED
    BY <1>1, <1>3, <2>1, ViewKept
<1>9. PassedMeansHeld'
  <2>1. \A u \in Turns : u \in Passed' => u \in Passed
    BY <1>1 DEF Passed
  <2> QED
    BY <1>1, <2>1, PassedKept
<1>10. BackedOfferFlows'
  BY <1>1, FlowsKept
<1> QED
  BY <1>1, <1>4, <1>5, <1>6, <1>7, <1>8, <1>9, <1>10 DEF IInv, StageInv, HoldsMeans

(* A turn moves on and no other variable changes: it ends before the guard *)
(* or after it.                                                            *)
LEMMA QuietMove ==
    ASSUME IInv, NEW t \in Turns, NEW to \in {"closeUnsent", "done"},
           \/ pc[t] = "flush" /\ to = "done"
           \/ pc[t] \in {"answer", "send"} /\ to = "closeUnsent",
           pc' = [pc EXCEPT ![t] = to],
           UNCHANGED <<posts, said, thread, memory, replies, held, fetched, view, draft, handed>>
    PROVE  IInv'
<1>1. TypeOK
  BY DEF IInv
<1>2. /\ pc'[t] = to /\ \A u \in Turns : u # t => pc'[u] = pc[u]
      /\ pc' \in [Turns -> {"unwritten", "flush", "context", "handoff", "answer", "send",
                            "closeSent", "closeUnsent", "done"}]
  BY <1>1, PcMoves
<1>3. Forward
  BY <1>2 DEF Forward
<1>4. StageInv'
  BY <1>2 DEF IInv, StageInv
<1>5. TypeOK'
  <2>1. (handed \cap Passed = {})'
    BY <1>1, <1>4, ExcludedNext DEF TypeOK
  <2> QED
    BY <1>1, <1>2, <2>1 DEF TypeOK
<1>6. ThreadMeans'
  BY <1>2, <1>3, ThreadKept
<1>7. MemoryMeans'
  BY <1>3, MemoryKept
<1>8. FetchedMeans'
  <2>1. \A u \in Turns : Fetched(u)' => Fetched(u)
    BY <1>2 DEF Fetched
  <2> QED
    BY <2>1, FetchedKept
<1>9. ViewMeans'
  <2>1. \A u \in Turns : Viewed(u)' => Viewed(u)
    BY <1>2 DEF Viewed
  <2> QED
    BY <1>3, <2>1, ViewKept
<1>10. PassedMeansHeld'
  <2>1. \A u \in Turns : u \in Passed' => u \in Passed
    BY <1>2 DEF Passed
  <2> QED
    BY <2>1, PassedKept
<1>11. BackedOfferFlows'
  BY FlowsKept
<1> QED
  BY <1>4, <1>5, <1>6, <1>7, <1>8, <1>9, <1>10, <1>11 DEF IInv, HoldsMeans

(* A page: a part of the thread, and all of it when it fits.               *)
LEMMA PagesMeans ==
    ASSUME TypeOK, NEW page \in Pages
    PROVE  /\ page \in Seq(Message) /\ PageOf(page, thread)
           /\ Len(thread) <= PageSize => page = thread
<1>1. PICK s : s = thread
  OBVIOUS
<1>2. s \in Seq(Message) /\ Len(s) \in Nat /\ PageSize \in Nat
  BY <1>1, Sequenced, CommitmentAssumption
<1>3. PICK size : size = IF Len(s) < PageSize THEN Len(s) ELSE PageSize
  OBVIOUS
<1>4. PICK skip \in {0, Len(s) - size} : page = SubSeq(s, skip + 1, skip + size)
  BY <1>1, <1>3 DEF Pages
<1>5. /\ size \in Nat /\ skip \in Nat /\ skip + size <= Len(s)
      /\ Len(s) <= PageSize => size = Len(s) /\ skip = 0
  BY <1>2, <1>3, <1>4
<1>6. /\ page \in Seq(Message) /\ Len(page) = size
      /\ \A i \in 1..size : page[i] = s[i + skip]
  <2>1. CASE size = 0
    <3>1. skip + 1 \in Int /\ skip + size \in Int /\ skip + 1 > skip + size
      BY <1>5, <2>1
    <3>2. page = <<>>
      BY <1>2, <1>4, <3>1
    <3> QED
      BY <2>1, <3>2
  <2>2. CASE size # 0
    <3>1. /\ skip + 1 \in Int /\ skip + size \in Int /\ skip + 1 <= skip + size
          /\ (skip + size) - (skip + 1) + 1 = size
      BY <1>5, <2>2
    <3>2. \A i \in (skip + 1)..(skip + size) : s[i] \in Message
      BY <1>2, <1>5
    <3>3. /\ page \in Seq(Message) /\ Len(page) = size
          /\ \A i \in 1..size : page[i] = s[(skip + 1) + i - 1]
      BY <1>4, <3>1, <3>2, SubSeqProperties
    <3>4. \A i \in 1..size : (skip + 1) + i - 1 = i + skip
      BY <1>5
    <3> QED
      BY <3>3, <3>4
  <2> QED
    BY <2>1, <2>2
<1>7. PageOf(page, s)
  <2>1. \A i \in 1..size : i + skip \in 1..Len(s)
    BY <1>2, <1>5
  <2> QED
    BY <1>5, <1>6, <2>1 DEF PageOf
<1>8. ASSUME Len(s) <= PageSize PROVE page = s
  <2>1. Len(page) = Len(s) /\ \A i \in 1..Len(s) : page[i] = s[i + 0] /\ i + 0 = i
    BY <1>2, <1>5, <1>6, <1>8
  <2>2. \A i \in 1..Len(s) : page[i] = s[i]
    BY <2>1
  <2> QED
    BY <1>2, <1>6, <2>1, <2>2, SeqEqual
<1> QED
  BY <1>1, <1>6, <1>7, <1>8

(* The conversation is fetched, or was answered already.                   *)
LEMMA FetchStep ==
    ASSUME IInv, NEW t \in Turns, NEW page \in Pages, Fetch(t, page)
    PROVE  IInv'
<1>0. /\ page \in Seq(Message) /\ PageOf(page, thread)
      /\ Len(thread) <= PageSize => page = thread
  BY PagesMeans DEF IInv
<1>1. CASE hostAlreadyReplied(page, t)
  <2>1. /\ pc[t] = "flush" /\ pc' = [pc EXCEPT ![t] = "done"]
        /\ UNCHANGED <<posts, said, thread, memory, replies, held, fetched, view, draft, handed>>
    BY <1>1 DEF Fetch
  <2> QED
    BY <2>1, QuietMove
<1>2. CASE ~hostAlreadyReplied(page, t)
  <2>1. /\ pc[t] = "flush" /\ pc' = [pc EXCEPT ![t] = "context"]
        /\ fetched' = [fetched EXCEPT ![t] = page]
        /\ UNCHANGED <<posts, said, thread, memory, replies, held, view, draft, handed>>
    BY <1>2 DEF Fetch
  <2>2. TypeOK
    BY DEF IInv
  <2>3. /\ pc'[t] = "context" /\ \A u \in Turns : u # t => pc'[u] = pc[u]
        /\ pc' \in [Turns -> {"unwritten", "flush", "context", "handoff", "answer", "send",
                              "closeSent", "closeUnsent", "done"}]
    BY <2>1, <2>2, PcMoves
  <2>4. Forward
    BY <2>1, <2>3 DEF Forward
  <2>5. draft[t] = "" /\ view[t] = <<>>
    BY <2>1 DEF IInv, StageInv
  <2>6. /\ fetched'[t] = page /\ \A u \in Turns : u # t => fetched'[u] = fetched[u]
        /\ fetched' \in [Turns -> Seq(Message)]
    BY <1>0, <2>1, <2>2 DEF TypeOK
  <2>7. StageInv'
    BY <2>1, <2>3, <2>5 DEF IInv, StageInv
  <2>8. TypeOK'
    <3>1. (handed \cap Passed = {})'
      BY <2>1, <2>2, <2>7, ExcludedNext DEF TypeOK
    <3> QED
      BY <2>1, <2>2, <2>3, <2>6, <3>1 DEF TypeOK
  <2>9. ThreadMeans'
    BY <2>1, <2>3, <2>4, ThreadKept
  <2>10. MemoryMeans'
    BY <2>1, <2>4, MemoryKept
  <2>11. FetchedMeans'
    <3>1. \A u \in Turns : u # t => (Fetched(u)' <=> Fetched(u))
      BY <2>1, <2>3 DEF Fetched
    <3>2. thread' = thread /\ posts' = posts
      BY <2>1
    <3> SUFFICES ASSUME NEW u \in Turns
                 PROVE  /\ PageOf(fetched'[u], thread)
                        /\ Fetched(u)' /\ Len(thread) <= PageSize =>
                              \A j \in 1..Len(thread) : thread[j] = LastPost(u) =>
                                 \A i \in 1..j : Contains(fetched'[u], thread[i])
      BY <3>2 DEF FetchedMeans, LastPost, GuestPost, Contains, PageOf
    <3>3. CASE u = t
      <4>1. Len(thread) \in Nat
        BY <2>2, Sequenced
      <4>2. \A j \in 1..Len(thread) : \A i \in 1..j : i \in 1..Len(thread)
        BY <4>1
      <4>3. \A i \in 1..Len(thread) : Contains(thread, thread[i])
        BY DEF Contains
      <4> QED
        BY <1>0, <2>6, <3>3, <4>2, <4>3
    <3>4. CASE u # t
      <4>1. fetched'[u] = fetched[u] /\ (Fetched(u)' => Fetched(u))
        BY <2>6, <3>1, <3>4
      <4> QED
        BY <4>1 DEF IInv, FetchedMeans
    <3> QED
      BY <3>3, <3>4
  <2>12. ViewMeans'
    <3>1. \A u \in Turns : Viewed(u)' => Viewed(u) /\ u # t
      BY <2>1, <2>3, <2>5 DEF Viewed
    <3> QED
      BY <2>1, <2>4, <2>6, <3>1, ViewKept
  <2>13. PassedMeansHeld'
    <3>1. \A u \in Turns : u \in Passed' => u \in Passed
      BY <2>1, <2>3, <2>5 DEF Passed
    <3> QED
      BY <2>1, <3>1, PassedKept
  <2>14. BackedOfferFlows'
    BY <2>1, FlowsKept
  <2> QED
    BY <2>1, <2>7, <2>8, <2>9, <2>10, <2>11, <2>12, <2>13, <2>14 DEF IInv, HoldsMeans
<1> QED
  BY <1>1, <1>2

(* The view is built from the memory of now and the conversation fetched   *)
(* before.                                                                 *)
LEMMA PriorContextStep ==
    ASSUME IInv, NEW t \in Turns, PriorContext(t)
    PROVE  IInv'
<1> DEFINE v == mergeThread(memory, fetched[t], t)
<1>1. /\ pc[t] = "context" /\ pc' = [pc EXCEPT ![t] = "handoff"]
      /\ view' = [view EXCEPT ![t] = v]
      /\ UNCHANGED <<posts, said, thread, memory, replies, held, fetched, draft, handed>>
  BY DEF PriorContext
<1>2. TypeOK
  BY DEF IInv
<1>3. /\ memory \in Seq(Message) /\ fetched[t] \in Seq(Message)
      /\ Len(fetched[t]) \in Nat /\ Len(thread) \in Nat
  BY <1>2, Sequenced
<1>4. PICK skip \in Nat : \A i \in 1..Len(fetched[t]) :
          i + skip \in 1..Len(thread) /\ fetched[t][i] = thread[i + skip]
  BY DEF IInv, FetchedMeans, PageOf
<1>6. Distinct(memory) /\ Distinct(fetched[t])
  <2>1. Distinct(memory) /\ Distinct(thread)
    BY DEF IInv, MemoryMeans, ThreadMeans
  <2>2. \A i, j \in 1..Len(fetched[t]) : fetched[t][i] = fetched[t][j] => i + skip = j + skip
    BY <1>4, <2>1 DEF Distinct
  <2>3. \A i, j \in 1..Len(fetched[t]) : i + skip = j + skip => i = j
    BY <1>3
  <2> QED
    BY <2>1, <2>2, <2>3 DEF Distinct
<1>7. /\ v \in Seq(Message)
      /\ \A i \in 1..Len(fetched[t]) : ~Own(fetched[t][i], t) =>
             \E n \in 1..Len(v) : v[n] = fetched[t][i]
      /\ \A n \in 1..Len(v) : /\ ~Own(v[n], t)
                              /\ \/ \E i \in 1..Len(memory) : v[n] = memory[i]
                                 \/ \E i \in 1..Len(fetched[t]) : v[n] = fetched[t][i]
      /\ Distinct(v)
  <2>1. PICK mem, web : mem = memory /\ web = fetched[t]
    OBVIOUS
  <2>2. mem \in Seq(Message) /\ web \in Seq(Message) /\ Distinct(mem) /\ Distinct(web)
    BY <1>3, <1>6, <2>1
  <2> DEFINE w == mergeThread(mem, web, t)
  <2>3. /\ w \in Seq(Message)
        /\ \A i \in 1..Len(web) : ~Own(web[i], t) => \E n \in 1..Len(w) : w[n] = web[i]
        /\ \A n \in 1..Len(w) : /\ ~Own(w[n], t)
                                /\ \/ \E i \in 1..Len(mem) : w[n] = mem[i]
                                   \/ \E i \in 1..Len(web) : w[n] = web[i]
        /\ Distinct(mem) /\ Distinct(web) => Distinct(w)
    BY <2>2, MergeMeans
  <2>4. v = w
    BY <2>1
  <2> HIDE DEF w, v
  <2> QED
    BY <2>1, <2>2, <2>3, <2>4
<1> HIDE DEF v
<1>8. /\ pc'[t] = "handoff" /\ \A u \in Turns : u # t => pc'[u] = pc[u]
      /\ pc' \in [Turns -> {"unwritten", "flush", "context", "handoff", "answer", "send",
                            "closeSent", "closeUnsent", "done"}]
  BY <1>1, <1>2, PcMoves
<1>9. Forward
  BY <1>1, <1>8 DEF Forward
<1>10. draft[t] = "" /\ t \notin handed
  BY <1>1 DEF IInv, StageInv
<1>11. /\ view'[t] = v /\ \A u \in Turns : u # t => view'[u] = view[u]
       /\ view' \in [Turns -> Seq(Message)]
  BY <1>1, <1>2, <1>7 DEF TypeOK
<1>12. StageInv'
  BY <1>1, <1>8, <1>10, <1>11 DEF IInv, StageInv
<1>13. TypeOK'
  <2>1. (handed \cap Passed = {})'
    BY <1>1, <1>2, <1>12, ExcludedNext DEF TypeOK
  <2> QED
    BY <1>1, <1>2, <1>8, <1>11, <2>1 DEF TypeOK
<1>14. ThreadMeans'
  BY <1>1, <1>8, <1>9, ThreadKept
<1>15. MemoryMeans'
  BY <1>1, <1>9, MemoryKept
<1>16. FetchedMeans'
  <2>1. \A u \in Turns : Fetched(u)' => Fetched(u)
    BY <1>1, <1>8 DEF Fetched
  <2> QED
    BY <1>1, <2>1, FetchedKept
<1>17. ViewMeans'
  <2>1. ASSUME NEW u \in Turns
        PROVE  /\ Viewed(u)' => Complete(u)'
               /\ \A n \in 1..Len(view'[u]) : view'[u][n].by = "bot" =>
                     view'[u][n].of \in Turns /\ pc'[view'[u][n].of] = "done"
    <3>1. CASE u = t
      <4>1. Complete(t)'
        <5>1. fetched'[t] = fetched[t] /\ view'[t] = v
          BY <1>1, <1>11
        <5>2. /\ \A i \in 1..Len(fetched[t]) : ~Own(fetched[t][i], t) =>
                    \E n \in 1..Len(v) : v[n] = fetched[t][i]
              /\ \A n \in 1..Len(v) : ~Own(v[n], t)
              /\ Distinct(v)
          BY <1>7
        <5> QED
          BY <5>1, <5>2 DEF Complete, Own
      <4>2. ASSUME NEW n \in 1..Len(v), v[n].by = "bot"
            PROVE  v[n].of \in Turns /\ pc'[v[n].of] = "done"
        <5>1. PICK i \in 1..Len(memory) : v[n] = memory[i]
          <6>1. \A i \in 1..Len(thread) : thread[i].by # "bot"
            BY DEF IInv, ThreadMeans
          <6>2. \A i \in 1..Len(fetched[t]) : fetched[t][i].by # "bot"
            BY <1>4, <6>1
          <6>3. \/ \E i \in 1..Len(memory) : v[n] = memory[i]
                \/ \E i \in 1..Len(fetched[t]) : v[n] = fetched[t][i]
            BY <1>7
          <6> QED
            BY <4>2, <6>2, <6>3
        <5> QED
          BY <1>9, <5>1 DEF IInv, MemoryMeans, Forward
      <4> QED
        BY <1>11, <3>1, <4>1, <4>2
    <3>2. CASE u # t
      <4>1. view'[u] = view[u] /\ fetched'[u] = fetched[u]
        BY <1>1, <1>11, <3>2
      <4>2. Viewed(u)' => Viewed(u)
        BY <1>1, <1>8, <3>2, <4>1 DEF Viewed
      <4>3. Viewed(u)' => Complete(u)'
        <5>1. Viewed(u) => Complete(u)
          BY DEF IInv, ViewMeans
        <5>2. Complete(u) => Complete(u)'
          BY <4>1 DEF Complete, Own
        <5> QED
          BY <4>2, <5>1, <5>2
      <4>4. \A n \in 1..Len(view[u]) : view[u][n].by = "bot" =>
                view[u][n].of \in Turns /\ pc'[view[u][n].of] = "done"
        BY <1>9 DEF IInv, ViewMeans, Forward
      <4> QED
        BY <4>1, <4>3, <4>4
    <3> QED
      BY <3>1, <3>2
  <2> QED
    BY <2>1 DEF ViewMeans
<1>18. PassedMeansHeld'
  <2>1. \A u \in Turns : u \in Passed' => u \in Passed /\ u # t
    BY <1>1, <1>8, <1>10 DEF Passed
  <2> QED
    BY <1>1, <1>11, <2>1, PassedKept
<1>19. BackedOfferFlows'
  <2>1. \A u \in handed : view'[u] = view[u] /\ said'[u] = said[u]
    BY <1>1, <1>2, <1>10, <1>11 DEF TypeOK
  <2> QED
    BY <1>1, <2>1, FlowsKept
<1> QED
  BY <1>1, <1>12, <1>13, <1>14, <1>15, <1>16, <1>17, <1>18, <1>19 DEF IInv, HoldsMeans

(* The guard.                                                              *)
LEMMA CommitmentHandoffStep ==
    ASSUME IInv, NEW t \in Turns, CommitmentHandoff(t)
    PROVE  IInv'
<1> DEFINE hands == latestCommitmentCandidate(view[t], said[t])
           to == IF hands THEN "closeUnsent" ELSE "answer"
<1>1. /\ pc[t] = "handoff" /\ pc' = [pc EXCEPT ![t] = to]
      /\ handed' = IF hands THEN handed \cup {t} ELSE handed
      /\ UNCHANGED <<posts, said, thread, memory, replies, held, fetched, view, draft>>
  BY DEF CommitmentHandoff
<1>2. /\ hands => to = "closeUnsent"
      /\ ~hands => to = "answer"
      /\ to \in {"closeUnsent", "answer"}
  OBVIOUS
<1>3. hands => \/ WantsFinalization(said[t])
               \/ \E i \in Matches(view[t], said[t]) : ~BackedAt(view[t], i)
  <2>1. Len(view[t]) \in Nat
    BY Sequenced DEF IInv
  <2> QED
    BY <2>1, GuardHands
<1>4. ~hands /\ Matches(view[t], said[t]) # {} => held # {} /\ ~WantsFinalization(said[t])
  <2> SUFFICES ASSUME ~hands, Matches(view[t], said[t]) # {}
               PROVE  held # {} /\ ~WantsFinalization(said[t])
    OBVIOUS
  <2>1. Len(view[t]) \in Nat
    BY Sequenced DEF IInv
  <2>2. ~WantsFinalization(said[t]) /\ \E i \in 1..Len(view[t]) : BackedAt(view[t], i)
    BY <2>1, GuardPasses
  <2>3. PICK j \in 1..Len(view[t]) : view[t][j].by = "bot" /\ "ok" \in replies[view[t][j].of]
    BY <2>2 DEF BackedAt
  <2> QED
    BY <2>2, <2>3 DEF IInv, ViewMeans, HoldsMeans
<1> HIDE DEF hands, to
<1>5. TypeOK
  BY DEF IInv
<1>6. /\ pc'[t] = to /\ \A u \in Turns : u # t => pc'[u] = pc[u]
      /\ pc' \in [Turns -> {"unwritten", "flush", "context", "handoff", "answer", "send",
                            "closeSent", "closeUnsent", "done"}]
  <2>1. to \in {"unwritten", "flush", "context", "handoff", "answer", "send",
                "closeSent", "closeUnsent", "done"}
    BY <1>2
  <2> QED
    BY <1>1, <1>5, <2>1, PcMoves
<1>7. Forward
  BY <1>1, <1>2, <1>6 DEF Forward
<1>8. draft[t] = "" /\ t \notin handed
  BY <1>1 DEF IInv, StageInv
<1>9. StageInv'
  BY <1>1, <1>2, <1>6, <1>8 DEF IInv, StageInv
<1>10. TypeOK'
  <2>1. handed' \in SUBSET Turns
    BY <1>1, <1>5 DEF TypeOK
  <2>2. (handed \cap Passed = {})'
    BY <1>9, <2>1, ExcludedNext
  <2> QED
    BY <1>1, <1>5, <1>6, <2>1, <2>2 DEF TypeOK
<1>11. ThreadMeans'
  BY <1>1, <1>2, <1>6, <1>7, ThreadKept
<1>12. MemoryMeans'
  BY <1>1, <1>7, MemoryKept
<1>13. FetchedMeans'
  <2>1. \A u \in Turns : Fetched(u)' => Fetched(u)
    BY <1>1, <1>6 DEF Fetched
  <2> QED
    BY <1>1, <2>1, FetchedKept
<1>14. ViewMeans'
  <2>1. \A u \in Turns : Viewed(u)' => Viewed(u)
    BY <1>1, <1>6 DEF Viewed
  <2> QED
    BY <1>1, <1>7, <2>1, ViewKept
<1>15. PassedMeansHeld'
  <2>1. \A u \in Passed' : u \in Turns /\ (u = t => ~hands) /\ (u # t => u \in Passed)
    BY <1>1, <1>2, <1>6, <1>8 DEF Passed
  <2> QED
    BY <1>1, <1>4, <2>1
     DEF IInv, PassedMeansHeld, Matches, FromHost, Detect, WantsFinalization
<1>16. BackedOfferFlows'
  <2>1. \A u \in handed' : u \in handed \/ (u = t /\ hands)
    BY <1>1
  <2>2. UNCHANGED <<view, said, replies>>
    BY <1>1
  <2>3. \A u \in handed' : \/ WantsFinalization(said[u])
                           \/ \E i \in Matches(view[u], said[u]) : ~BackedAt(view[u], i)
    BY <1>3, <2>1 DEF IInv, BackedOfferFlows, BackedAt
  <2> QED
    BY <2>2, <2>3
     DEF BackedOfferFlows, BackedAt, Matches, FromHost, Detect, WantsFinalization
<1> QED
  BY <1>1, <1>9, <1>10, <1>11, <1>12, <1>13, <1>14, <1>15, <1>16 DEF IInv, HoldsMeans

(* A draft with some outcomes of hold_reservation.                         *)
LEMMA DraftStep ==
    ASSUME IInv, NEW t \in Turns, NEW body \in Bodies, NEW outcomes \in HoldOutcomes,
           Draft(t, body, outcomes)
    PROVE  IInv'
<1>1. /\ pc[t] = "answer" /\ pc' = [pc EXCEPT ![t] = "send"]
      /\ draft' = [draft EXCEPT ![t] = body]
      /\ replies' = replies \/ replies' = [replies EXCEPT ![t] = outcomes]
      /\ held' = held \/ held' = held \cup {t}
      /\ "ok" \in outcomes => held' = held \cup {t}
      /\ UNCHANGED <<posts, said, thread, memory, fetched, view, handed>>
  BY DEF Draft
<1>2. TypeOK
  BY DEF IInv
<1>3. /\ pc'[t] = "send" /\ \A u \in Turns : u # t => pc'[u] = pc[u]
      /\ pc' \in [Turns -> {"unwritten", "flush", "context", "handoff", "answer", "send",
                            "closeSent", "closeUnsent", "done"}]
  BY <1>1, <1>2, PcMoves
<1>4. Forward
  BY <1>1, <1>3 DEF Forward
<1>5. t \notin handed
  BY <1>1 DEF IInv, StageInv
<1>6. draft' \in [Turns -> Bodies \cup {""}] /\ \A u \in Turns : u # t => draft'[u] = draft[u]
  BY <1>1, <1>2 DEF TypeOK
<1>7. /\ replies' \in [Turns -> SUBSET Outcomes]
      /\ \A u \in Turns : u # t => replies'[u] = replies[u]
      /\ replies'[t] = replies[t] \/ replies'[t] = outcomes
  <2>1. outcomes \in SUBSET Outcomes
    BY DEF HoldOutcomes, Outcomes
  <2> QED
    BY <1>1, <1>2, <2>1 DEF TypeOK
<1>8. held \subseteq held' /\ held' \in SUBSET Turns
  BY <1>1, <1>2 DEF TypeOK
<1>9. StageInv'
  BY <1>1, <1>3, <1>5, <1>6 DEF IInv, StageInv
<1>10. TypeOK'
  <2>1. (handed \cap Passed = {})'
    BY <1>1, <1>2, <1>9, ExcludedNext DEF TypeOK
  <2> QED
    BY <1>1, <1>2, <1>3, <1>6, <1>7, <1>8, <2>1 DEF TypeOK
<1>11. ThreadMeans'
  BY <1>1, <1>3, <1>4, ThreadKept
<1>12. MemoryMeans'
  BY <1>1, <1>4, MemoryKept
<1>13. FetchedMeans'
  <2>1. \A u \in Turns : Fetched(u)' => Fetched(u)
    BY <1>1, <1>3, <1>6 DEF Fetched
  <2> QED
    BY <1>1, <2>1, FetchedKept
<1>14. ViewMeans'
  <2>1. \A u \in Turns : Viewed(u)' => Viewed(u)
    BY <1>1, <1>3, <1>6 DEF Viewed
  <2> QED
    BY <1>1, <1>4, <2>1, ViewKept
<1>15. HoldsMeans'
  BY <1>1, <1>7, <1>8 DEF IInv, HoldsMeans
<1>16. PassedMeansHeld'
  <2>1. \A u \in Turns : u \in Passed' => u \in Passed
    BY <1>1, <1>3, <1>6 DEF Passed
  <2> QED
    BY <1>1, <1>8, <2>1, PassedKept
<1>17. BackedOfferFlows'
  <2>1. \A u \in Turns : pc[u] = "done" => replies'[u] = replies[u]
    BY <1>1, <1>7
  <2> QED
    BY <1>1, <2>1, FlowsKept
<1> QED
  BY <1>9, <1>10, <1>11, <1>12, <1>13, <1>14, <1>15, <1>16, <1>17 DEF IInv

(* The note in Guesty.                                                     *)
LEMMA PostNoteStep ==
    ASSUME IInv, NEW t \in Turns, PostNote(t)
    PROVE  IInv'
<1>1. /\ pc[t] = "send" /\ pc' = [pc EXCEPT ![t] = "closeSent"]
      /\ thread' = Append(thread, Note(t))
      /\ UNCHANGED <<posts, said, memory, replies, held, fetched, view, draft, handed>>
  BY DEF PostNote
<1>2. TypeOK
  BY DEF IInv
<1>3. /\ pc'[t] = "closeSent" /\ \A u \in Turns : u # t => pc'[u] = pc[u]
      /\ pc' \in [Turns -> {"unwritten", "flush", "context", "handoff", "answer", "send",
                            "closeSent", "closeUnsent", "done"}]
  BY <1>1, <1>2, PcMoves
<1>4. Forward
  BY <1>1, <1>3 DEF Forward
<1>5. PICK m : m = Note(t)
  OBVIOUS
<1>6. m \in Message /\ m.by = "note" /\ m.of = t
  <2>1. draft[t] \in Bodies \cup {""}
    BY <1>2 DEF TypeOK
  <2> QED
    BY <1>5, <2>1 DEF Note, Message
<1>7. thread' = Append(thread, m)
  BY <1>1, <1>5
<1>8. StageInv'
  BY <1>1, <1>3 DEF IInv, StageInv
<1>9. TypeOK'
  <2>1. (handed \cap Passed = {})'
    BY <1>1, <1>2, <1>8, ExcludedNext DEF TypeOK
  <2>2. thread \in Seq(Message)
    BY <1>2, Sequenced
  <2>3. thread' \in Seq(Message)
    BY <1>6, <1>7, <2>2
  <2> QED
    BY <1>1, <1>2, <1>3, <2>1, <2>3 DEF TypeOK
<1>10. ThreadMeans'
  <2>1. \A i \in 1..Len(thread) : thread[i] # m
    BY <1>1, <1>6 DEF IInv, ThreadMeans
  <2>0. posts \in [Turns -> Nat]
    BY <1>2 DEF TypeOK
  <2>2. \A u \in Turns : posts[u] \in Nat /\ posts'[u] \in Nat /\ posts[u] <= posts'[u]
    BY <1>1, <2>0
  <2> QED
    BY <1>3, <1>4, <1>6, <1>7, <2>1, <2>2, ThreadAppends
<1>11. MemoryMeans'
  BY <1>1, <1>4, MemoryKept
<1>12. FetchedMeans'
  <2>1. \A u \in Turns : Fetched(u)' => Fetched(u)
    BY <1>1, <1>3 DEF Fetched
  <2>2. \A u \in Turns : ~Own(m, u)
    BY <1>6 DEF Own
  <2> QED
    BY <1>1, <1>6, <1>7, <2>1, <2>2, FetchedKept
<1>13. ViewMeans'
  <2>1. \A u \in Turns : Viewed(u)' => Viewed(u)
    BY <1>1, <1>3 DEF Viewed
  <2> QED
    BY <1>1, <1>4, <2>1, ViewKept
<1>14. PassedMeansHeld'
  <2>1. \A u \in Turns : u \in Passed' => u \in Passed
    BY <1>1, <1>3 DEF Passed
  <2> QED
    BY <1>1, <2>1, PassedKept
<1>15. BackedOfferFlows'
  BY <1>1, FlowsKept
<1> QED
  BY <1>1, <1>8, <1>9, <1>10, <1>11, <1>12, <1>13, <1>14, <1>15 DEF IInv, HoldsMeans

(* Entries of the memory that are of one turn, and entries that are of     *)
(* turns in a set.                                                         *)
EntriesOf(s, t) == \A n \in 1..Len(s) : s[n].by \in {"guest", "bot"} /\ s[n].of = t
EntriesIn(s, T) == \A n \in 1..Len(s) : s[n].by \in {"guest", "bot"} /\ s[n].of \in T
DoneTurns == {t \in Turns : pc[t] = "done"}

(* The memory gets the messages of a turn that it does not know and that   *)
(* is over with this.                                                      *)
LEMMA MemoryAppends ==
    ASSUME IInv, Forward, NEW t \in Turns, pc[t] # "done", pc'[t] = "done",
           NEW s \in Seq(Message), NEW x, x = memory \o s, Distinct(s), EntriesOf(s, t)
    PROVE  x \in Seq(Message) /\ Distinct(x) /\ EntriesIn(x, DoneTurns')
<1> USE DEF EntriesOf
<1>1. memory \in Seq(Message) /\ Len(memory) \in Nat /\ Len(s) \in Nat
  BY Sequenced DEF IInv
<1>2. /\ x \in Seq(Message)
      /\ Len(x) = Len(memory) + Len(s)
      /\ \A n \in 1..Len(memory) + Len(s) :
            x[n] = IF n <= Len(memory) THEN memory[n] ELSE s[n - Len(memory)]
  BY <1>1
<1>3. \A k, l \in Nat : \A n \in 1..k + l :
          (n \in 1..k /\ n <= k) \/ (n - k \in 1..l /\ ~(n <= k))
  OBVIOUS
<1>4. \A n \in 1..Len(x) :
          \/ n \in 1..Len(memory) /\ x[n] = memory[n]
          \/ n - Len(memory) \in 1..Len(s) /\ x[n] = s[n - Len(memory)]
  BY <1>1, <1>2, <1>3
<1>5. /\ Distinct(memory)
      /\ \A i \in 1..Len(memory) :
            /\ memory[i].by \in {"guest", "bot"}
            /\ memory[i].of \in Turns /\ pc[memory[i].of] = "done"
  BY DEF IInv, MemoryMeans
<1>6. \A n \in 1..Len(x) :
          /\ x[n].by \in {"guest", "bot"}
          /\ x[n].of \in Turns /\ pc'[x[n].of] = "done"
          /\ n \in 1..Len(memory) => x[n] = memory[n] /\ x[n].of # t
          /\ n \notin 1..Len(memory) => /\ x[n].of = t
                                        /\ n - Len(memory) \in 1..Len(s)
                                        /\ x[n] = s[n - Len(memory)]
  <2> SUFFICES ASSUME NEW n \in 1..Len(x)
               PROVE  /\ x[n].by \in {"guest", "bot"}
                      /\ x[n].of \in Turns /\ pc'[x[n].of] = "done"
                      /\ n \in 1..Len(memory) => x[n] = memory[n] /\ x[n].of # t
                      /\ n \notin 1..Len(memory) => /\ x[n].of = t
                                                    /\ n - Len(memory) \in 1..Len(s)
                                                    /\ x[n] = s[n - Len(memory)]
    OBVIOUS
  <2>1. CASE n \in 1..Len(memory)
    <3>1. x[n] = memory[n]
      <4>1. n <= Len(memory) /\ n \in 1..Len(memory) + Len(s)
        BY <1>1, <1>2, <2>1
      <4> QED
        BY <1>2, <4>1
    <3> QED
      BY <1>5, <2>1, <3>1 DEF Forward
  <2>2. CASE n \notin 1..Len(memory)
    <3>1. n - Len(memory) \in 1..Len(s) /\ x[n] = s[n - Len(memory)]
      BY <1>4, <2>2
    <3> QED
      BY <2>2, <3>1
  <2> QED
    BY <2>1, <2>2
<1>7. Distinct(x)
  <2> SUFFICES ASSUME NEW i \in 1..Len(x), NEW j \in 1..Len(x),
                      x[i] = x[j]
               PROVE  i = j
    BY DEF Distinct
  <2>1. CASE i \in 1..Len(memory)
    <3>1. j \in 1..Len(memory)
      <4>1. x[i].of # t
        BY <1>6, <2>1
      <4>2. j \notin 1..Len(memory) => x[j].of = t
        BY <1>6
      <4> QED
        BY <4>1, <4>2
    <3> QED
      BY <1>5, <1>6, <2>1, <3>1 DEF Distinct
  <2>2. CASE i \notin 1..Len(memory)
    <3>1. j \notin 1..Len(memory)
      <4>1. x[i].of = t
        BY <1>6, <2>2
      <4>2. j \in 1..Len(memory) => x[j].of # t
        BY <1>6
      <4> QED
        BY <4>1, <4>2
    <3>2. /\ i - Len(memory) \in 1..Len(s) /\ j - Len(memory) \in 1..Len(s)
          /\ s[i - Len(memory)] = s[j - Len(memory)]
      BY <1>6, <2>2, <3>1
    <3>3. i - Len(memory) = j - Len(memory)
      BY <3>2 DEF Distinct
    <3>4. \A k, y, z \in Int : y - k = z - k => y = z
      OBVIOUS
    <3>5. i \in Int /\ j \in Int /\ Len(memory) \in Int
      BY <1>1, <1>2
    <3> QED
      BY <3>3, <3>4, <3>5
  <2> QED
    BY <2>1, <2>2
<1> QED
  BY <1>2, <1>6, <1>7 DEF EntriesIn, DoneTurns

(* foldOverflow leaves some of the entries, in their order.                *)
LEMMA FoldMeans ==
    ASSUME NEW x \in Seq(Message)
    PROVE  /\ foldOverflow(x) \in Seq(Message)
           /\ \A n \in 1..Len(foldOverflow(x)) : \E i \in 1..Len(x) : foldOverflow(x)[n] = x[i]
           /\ Distinct(x) => Distinct(foldOverflow(x))
<1>1. PICK c : c = foldOverflow(x)
  OBVIOUS
<1>2. CASE c = x
  BY <1>1, <1>2
<1>3. CASE c # x
  <2>1. Len(x) \in Nat /\ Keep \in Nat /\ Keep > 0 /\ Len(x) > Keep
        /\ c = SubSeq(x, Len(x) - Keep + 1, Len(x))
    <3>1. Keep \in Nat
      BY CommitmentAssumption
    <3>2. Len(x) \in Nat
      OBVIOUS
    <3> QED
      BY <1>1, <1>3, <3>1, <3>2 DEF foldOverflow
  <2>2. PICK d : d = Len(x) - Keep
    OBVIOUS
  <2>3. /\ d \in Nat /\ d + 1 \in Int /\ Len(x) \in Int /\ d + 1 <= Len(x)
        /\ Len(x) - (d + 1) + 1 = Keep
    BY <2>1, <2>2
  <2>4. \A i \in (d + 1)..Len(x) : x[i] \in Message
    BY <2>1, <2>3
  <2>5. /\ c \in Seq(Message) /\ Len(c) = Keep
        /\ \A i \in 1..Keep : c[i] = x[(d + 1) + i - 1]
    BY <2>1, <2>2, <2>3, <2>4, SubSeqProperties
  <2>6. \A i \in 1..Keep : i + d \in 1..Len(x) /\ (d + 1) + i - 1 = i + d
    BY <2>1, <2>2, <2>3
  <2>7. \A i \in 1..Keep : i + d \in 1..Len(x) /\ c[i] = x[i + d]
    BY <2>5, <2>6
  <2>8. \A i, j \in 1..Keep : i + d = j + d => i = j
    BY <2>1, <2>3
  <2>9. \A n \in 1..Len(c) : \E i \in 1..Len(x) : c[n] = x[i]
    BY <2>5, <2>7
  <2>10. ASSUME Distinct(x) PROVE Distinct(c)
    <3> SUFFICES ASSUME NEW i \in 1..Keep, NEW j \in 1..Keep, c[i] = c[j]
                 PROVE  i = j
      BY <2>5 DEF Distinct
    <3>1. i + d \in 1..Len(x) /\ j + d \in 1..Len(x) /\ x[i + d] = x[j + d]
      BY <2>7
    <3>2. i + d = j + d
      BY <2>10, <3>1 DEF Distinct
    <3> QED
      BY <2>8, <3>2
  <2> QED
    BY <1>1, <2>5, <2>9, <2>10
<1> QED
  BY <1>2, <1>3

(* What a turn adds: its posts and its reply, once each.                   *)
LEMMA TurnEntriesMeans ==
    ASSUME TypeOK, NEW t \in Turns
    PROVE  LET s == TurnEntries(t)
           IN  s \in Seq(Message) /\ Distinct(s) /\ EntriesOf(s, t)
<1> USE DEF EntriesOf
<1>1. PICK k, b, g : /\ k = posts[t] /\ b = BotEntry(t)
                     /\ g = [n \in 1..k |-> GuestPost(t, n)]
  OBVIOUS
<1>2. k \in Nat
  BY <1>1 DEF TypeOK
<1>3. b \in Message /\ b.by = "bot" /\ b.of = t
  <2>1. draft[t] \in Bodies \cup {""}
    BY DEF TypeOK
  <2> QED
    BY <1>1, <2>1 DEF BotEntry, Message
<1>4. \A n \in 1..k : /\ GuestPost(t, n) \in Message /\ GuestPost(t, n).by = "guest"
                       /\ GuestPost(t, n).of = t /\ GuestPost(t, n).n = n
  BY <1>2 DEF GuestPost, Message
<1>5. /\ g \in Seq(Message) /\ Len(g) = k
      /\ \A n \in 1..k : g[n].by = "guest" /\ g[n].of = t /\ g[n].n = n
  <2>1. g \in [1..k -> Message]
    BY <1>1, <1>4
  <2>2. \A n \in 1..k : g[n] = GuestPost(t, n)
    BY <1>1
  <2> QED
    BY <1>2, <1>4, <2>1, <2>2
<1>6. Distinct(g)
  BY <1>5 DEF Distinct
<1>7. CASE pc[t] = "closeSent"
  <2>1. PICK s : s = g \o <<b>>
    OBVIOUS
  <2>2. s = TurnEntries(t)
    BY <1>1, <1>7, <2>1 DEF TurnEntries
  <2>3. /\ s \in Seq(Message) /\ Len(s) = k + 1 /\ s[k + 1] = b
        /\ \A n \in 1..k : s[n] = g[n]
    BY <1>2, <1>3, <1>5, <2>1
  <2>4. \A n \in 1..k + 1 : n \in 1..k \/ n = k + 1
    BY <1>2
  <2>5. Distinct(s)
    <3> SUFFICES ASSUME NEW i \in 1..k + 1, NEW j \in 1..k + 1, s[i] = s[j] PROVE i = j
      BY <2>3 DEF Distinct
    <3>1. \A n \in 1..k : s[n].by = "guest" /\ s[n] # b
      BY <1>3, <1>5, <2>3
    <3>2. CASE i \in 1..k /\ j \in 1..k
      BY <1>5, <1>6, <2>3, <3>2 DEF Distinct
    <3> QED
      BY <2>3, <2>4, <3>1, <3>2
  <2> QED
    BY <1>3, <1>5, <2>2, <2>3, <2>4, <2>5
<1>8. CASE pc[t] # "closeSent"
  <2>1. g \o <<>> = g
    BY <1>5
  <2>2. TurnEntries(t) = g
    BY <1>1, <1>8, <2>1 DEF TurnEntries
  <2> QED
    BY <1>5, <1>6, <2>2
<1> QED
  BY <1>7, <1>8

(* closeTurn.                                                              *)
LEMMA CloseTurnStep ==
    ASSUME IInv, NEW t \in Turns, CloseTurn(t)
    PROVE  IInv'
<1>1. /\ pc[t] \in {"closeSent", "closeUnsent"} /\ pc' = [pc EXCEPT ![t] = "done"]
      /\ memory' = memory \/ memory' = foldOverflow(memory \o TurnEntries(t))
      /\ UNCHANGED <<posts, said, thread, replies, held, fetched, view, draft, handed>>
  BY DEF CloseTurn
<1>2. TypeOK
  BY DEF IInv
<1>3. /\ pc'[t] = "done" /\ \A u \in Turns : u # t => pc'[u] = pc[u]
      /\ pc' \in [Turns -> {"unwritten", "flush", "context", "handoff", "answer", "send",
                            "closeSent", "closeUnsent", "done"}]
  BY <1>1, <1>2, PcMoves
<1>4. Forward
  BY <1>1, <1>3 DEF Forward
<1>5. MemoryMeans' /\ memory' \in Seq(Message)
  <2>1. memory \in Seq(Message)
    BY <1>2, Sequenced
  <2>2. CASE memory' = memory
    BY <1>4, <2>1, <2>2, MemoryKept
  <2>3. CASE memory' = foldOverflow(memory \o TurnEntries(t))
    <3>1. PICK s, x, c : s = TurnEntries(t) /\ x = memory \o s /\ c = foldOverflow(x)
      OBVIOUS
    <3>2. s \in Seq(Message) /\ Distinct(s) /\ EntriesOf(s, t)
      BY <1>2, <3>1, TurnEntriesMeans
    <3>3. x \in Seq(Message) /\ Distinct(x) /\ EntriesIn(x, DoneTurns')
      <4>1. pc[t] # "done" /\ pc'[t] = "done"
        BY <1>1, <1>3
      <4> QED
        BY <1>4, <3>1, <3>2, <4>1, MemoryAppends
    <3>4. /\ c \in Seq(Message) /\ Distinct(c)
          /\ \A n \in 1..Len(c) : \E i \in 1..Len(x) : c[n] = x[i]
      BY <3>1, <3>3, FoldMeans, ZenonT(30)
    <3>5. memory' = c
      BY <2>3, <3>1
    <3>6. EntriesIn(c, DoneTurns')
      BY <3>3, <3>4 DEF EntriesIn
    <3> QED
      BY <3>4, <3>5, <3>6 DEF MemoryMeans, Distinct, EntriesIn, DoneTurns
  <2> QED
    BY <1>1, <2>2, <2>3
<1>6. StageInv'
  BY <1>1, <1>3 DEF IInv, StageInv
<1>7. TypeOK'
  <2>1. (handed \cap Passed = {})'
    BY <1>1, <1>2, <1>6, ExcludedNext DEF TypeOK
  <2> QED
    BY <1>1, <1>2, <1>3, <1>5, <2>1 DEF TypeOK
<1>8. ThreadMeans'
  BY <1>1, <1>3, <1>4, ThreadKept
<1>9. FetchedMeans'
  <2>1. \A u \in Turns : Fetched(u)' => Fetched(u)
    BY <1>1, <1>3 DEF Fetched
  <2> QED
    BY <1>1, <2>1, FetchedKept
<1>10. ViewMeans'
  <2>1. \A u \in Turns : Viewed(u)' => Viewed(u)
    BY <1>1, <1>3 DEF Viewed
  <2> QED
    BY <1>1, <1>4, <2>1, ViewKept
<1>11. PassedMeansHeld'
  <2>1. \A u \in Turns : u \in Passed' => u \in Passed
    BY <1>1, <1>3 DEF Passed
  <2> QED
    BY <1>1, <2>1, PassedKept
<1>12. BackedOfferFlows'
  BY <1>1, FlowsKept
<1> QED
  BY <1>1, <1>5, <1>6, <1>7, <1>8, <1>9, <1>10, <1>11, <1>12 DEF IInv, HoldsMeans

-----------------------------------------------------------------------------
(* The inductive invariant of the guard.                                   *)
THEOREM Invariance == Spec => []IInv
<1>1. IInv /\ [Next]_vars => IInv'
  <2> SUFFICES ASSUME IInv, [Next]_vars PROVE IInv'
    OBVIOUS
  <2>1. ASSUME NEW t \in Turns, NEW body \in GuestBodies, GuestWrites(t, body) PROVE IInv'
    BY <2>1, GuestWritesStep
  <2>2. ASSUME NEW h \in HostPosts, NEW body \in Bodies, HostWrites(h, body) PROVE IInv'
    BY <2>2, HostWritesStep
  <2>3. ASSUME NEW t \in Turns, NEW body \in Bodies, NEW outcomes \in HoldOutcomes,
               Draft(t, body, outcomes)
        PROVE  IInv'
    BY <2>3, DraftStep
  <2>4. ASSUME NEW t \in Turns, NEW page \in Pages, Fetch(t, page) PROVE IInv'
    BY <2>4, FetchStep
  <2>5. ASSUME NEW t \in Turns, PriorContext(t) PROVE IInv'
    BY <2>5, PriorContextStep
  <2>6. ASSUME NEW t \in Turns, CommitmentHandoff(t) PROVE IInv'
    BY <2>6, CommitmentHandoffStep
  <2>7. ASSUME NEW t \in Turns, Escalate(t) PROVE IInv'
    BY <2>7, QuietMove DEF Escalate
  <2>8. ASSUME NEW t \in Turns, PostNote(t) PROVE IInv'
    BY <2>8, PostNoteStep
  <2>9. ASSUME NEW t \in Turns, CloseTurn(t) PROVE IInv'
    BY <2>9, CloseTurnStep
  <2>10. CASE UNCHANGED vars
    <3>1. UNCHANGED <<pc, posts, said, thread, memory, replies, held, fetched, view, draft, handed>>
      BY <2>10 DEF vars
    <3>2. Forward
      BY <3>1 DEF Forward
    <3>3. TypeOK' /\ StageInv' /\ HoldsMeans'
      BY <3>1 DEF IInv, TypeOK, Passed, StageInv, HoldsMeans
    <3>4. ThreadMeans' /\ MemoryMeans'
      BY <3>1, <3>2, ThreadKept, MemoryKept
    <3>5. \A u \in Turns : /\ Fetched(u)' => Fetched(u)
                           /\ Viewed(u)' => Viewed(u)
                           /\ u \in Passed' => u \in Passed
      BY <3>1 DEF Fetched, Viewed, Passed
    <3>6. FetchedMeans' /\ ViewMeans'
      BY <3>1, <3>2, <3>5, FetchedKept, ViewKept
    <3>7. PassedMeansHeld' /\ BackedOfferFlows'
      BY <3>1, <3>5, PassedKept, FlowsKept
    <3> QED
      BY <3>3, <3>4, <3>6, <3>7 DEF IInv
  <2> QED
    BY <2>1, <2>2, <2>3, <2>4, <2>5, <2>6, <2>7, <2>8, <2>9, <2>10 DEF Next
<1> QED
  BY <1>1, InitEstablishes, PTL DEF Spec

(* What commitmentHandoff looks at (mergeThread): all of the page that was *)
(* fetched, each message once, nothing of the turn itself; and a turn that *)
(* was handed off goes no further.                                         *)
THEOREM ViewsAreComplete == Spec => []ViewInv
<1>1. IInv => ViewInv
  <2> SUFFICES ASSUME IInv, NEW t \in Turns, pc[t] \notin {"unwritten", "flush", "context", "done"}
               PROVE  /\ \A m \in ToSet(fetched[t]) : Own(m, t) \/ m \in ToSet(view[t])
                      /\ \A m \in ToSet(view[t]) : ~Own(m, t)
                      /\ \A i, j \in 1..Len(view[t]) : view[t][i] = view[t][j] => i = j
    BY DEF IInv, ViewInv, ViewComplete
  <2>1. Complete(t)
    BY DEF IInv, TypeOK, ViewMeans, Viewed
  <2>2. DOMAIN fetched[t] = 1..Len(fetched[t]) /\ DOMAIN view[t] = 1..Len(view[t])
    BY Sequenced DEF IInv
  <2> QED
    BY <2>1, <2>2 DEF Complete, Distinct, ToSet
<1> QED
  BY <1>1, Invariance, PTL

(* Whoever accepts an offer and gets past the guard does so on a hold that *)
(* was placed at Guesty, and never when the guest asks to finalize         *)
(* (latestCommitmentCandidate).                                            *)
THEOREM NobodyPassesUnheld == Spec => []PassedMeansHeld
<1>1. IInv => PassedMeansHeld
  BY DEF IInv
<1> QED
  BY <1>1, Invariance, PTL

(* Whoever accepts offers that are all backed by the bot's own holds, or   *)
(* by the host in the words of one (hasSuccessfulHoldByBodyAlias), is not  *)
(* handed off.                                                             *)
THEOREM BackedOffersFlow == Spec => []BackedOfferFlows
<1>1. IInv => BackedOfferFlows
  BY DEF IInv
<1> QED
  BY <1>1, Invariance, PTL

(* An offer of the host that came before the turn's last post and is on    *)
(* the page the turn fetched, as every one is in a conversation that fits  *)
(* on a page, is seen by that turn's guard, however the turns interleave   *)
(* and whatever the memory folded.                                         *)
THEOREM HostOffersAreSeen == Spec => []HostOfferSeen
<1>1. IInv => HostOfferSeen
  <2> SUFFICES ASSUME IInv, held = {}, NEW t \in Passed,
                      NEW i \in 1..Len(thread), NEW j \in 1..Len(thread), i < j,
                      thread[i].by = "host", thread[j] = LastPost(t),
                      Len(thread) <= PageSize \/ Contains(fetched[t], thread[i]),
                      Detect(thread[i].body, said[t])
               PROVE  FALSE
    BY DEF HostOfferSeen
  <2>1. t \in Turns /\ Fetched(t) /\ Viewed(t)
    BY DEF Passed, Fetched, Viewed
  <2>2. i \in 1..j
    BY Sequenced DEF IInv
  <2>3. Contains(fetched[t], thread[i])
    BY <2>1, <2>2 DEF IInv, FetchedMeans
  <2>4. PICK k \in 1..Len(fetched[t]) : fetched[t][k] = thread[i]
    BY <2>3 DEF Contains
  <2>5. ~Own(fetched[t][k], t)
    BY <2>4 DEF Own
  <2>6. PICK n \in 1..Len(view[t]) : view[t][n] = thread[i]
    BY <2>1, <2>4, <2>5 DEF IInv, ViewMeans, Complete
  <2>7. n \in Matches(view[t], said[t])
    BY <2>6 DEF Matches, FromHost
  <2> QED
    BY <2>7 DEF IInv, PassedMeansHeld
<1> QED
  BY <1>1, Invariance, PTL

-----------------------------------------------------------------------------
(***************************************************************************)
(* The reply generator, for any listings, rounds and tool calls: the holds *)
(* it places are on the listing of its turn and on its log, and a valid    *)
(* draft promises what the log shows to have succeeded.                    *)
(*                                                                         *)
(* LoopInv bounds the rounds, LogInv ties the log of the tools to their    *)
(* effects at Guesty, and DraftInv ties the draft to the log.              *)
(***************************************************************************)

(* Every round before the last has had one chat; a message with tools has  *)
(* at least one to run; and nothing is returned before the end.            *)
LoopInv ==
    /\ phase = "chat" => turn < MaxTurns /\ chats = turn
    /\ phase = "tools" => turn < MaxTurns /\ chats = turn + 1 /\ asked # <<>>
    /\ phase = "reflect" => turn = MaxTurns /\ chats = MaxTurns
    /\ phase # "done" => returned = Nothing

(* A success on the log of the tools has its effect at Guesty, on the      *)
(* listing of this turn if that is known.                                  *)
LogInv ==
    /\ [name |-> "hold_reservation", ok |-> TRUE] \in toolLog => Backed(holds)
    /\ [name |-> "check_availability", ok |-> TRUE] \in toolLog => Backed(checked)

(* A draft carries the log of the tools, and is an abort after the last    *)
(* round.                                                                  *)
DraftInv ==
    Replied => /\ returned \in Reply
               /\ returned.tools = usedSuccessfully
               /\ turn = MaxTurns => returned.abort

GeneratorIInv ==
    GeneratorTypeOK /\ LoopInv /\ HoldsOnThisListing /\ HoldsLogged /\ LogInv /\ DraftInv

-----------------------------------------------------------------------------
(* A listing that rejectIfWrongListing let through is the turn's, or the   *)
(* turn's is not known.                                                    *)
LEMMA AddedIsBacked ==
    ASSUME NEW S, NEW l, ~rejectIfWrongListing(l)
    PROVE  Backed(S \cup {l})
  BY DEF rejectIfWrongListing, Backed

(* What was backed stays so.                                               *)
LEMMA BackedGrows ==
    ASSUME NEW S, NEW T, S \subseteq T, Backed(S)
    PROVE  Backed(T)
  BY DEF Backed

(* A draft without issues promises what its tools did.                     *)
LEMMA ValidReplyMeans ==
    ASSUME NEW r \in Reply, ValidateReply(r) = {}
    PROVE  /\ r.promisesHold => "hold_reservation" \in r.tools
           /\ r.sells => "check_availability" \in r.tools
<1>1. ~r.abort
  BY DEF ValidateReply
<1> QED
  BY <1>1 DEF ValidateReply

-----------------------------------------------------------------------------
(* Before the first chat.                                                  *)
LEMMA GeneratorInitEstablishes == GeneratorInit => GeneratorIInv
<1> SUFFICES ASSUME GeneratorInit PROVE GeneratorIInv
  OBVIOUS
<1>1. MaxTurns \in Nat \ {0} /\ 0 \in 0..MaxTurns /\ 0 \in 0..(MaxTurns + 1) /\ 0 < MaxTurns
  BY GeneratorAssumption
<1>2. ~Replied
  BY DEF GeneratorInit, Replied
<1>3. GeneratorTypeOK
  BY <1>1, <1>2 DEF GeneratorInit, GeneratorTypeOK
<1>4. LoopInv
  BY <1>1 DEF GeneratorInit, LoopInv
<1>5. HoldsOnThisListing /\ HoldsLogged /\ LogInv
  BY DEF GeneratorInit, HoldsOnThisListing, HoldsLogged, LogInv
<1> QED
  BY <1>2, <1>3, <1>4, <1>5 DEF GeneratorIInv, DraftInv

(* Generate returns from a chat or from the reflection: the tools and      *)
(* their effects stay, and the draft has to be shown correct.              *)
LEMMA ReturnStep ==
    ASSUME GeneratorIInv, phase \in {"chat", "reflect"}, chats' = chats + 1, NEW r, Returns(r),
           UNCHANGED <<expected, turn, asked, toolLog, holds, checked>>,
           \/ r = Failed
           \/ r \in Reply /\ r.tools = usedSuccessfully /\ (turn = MaxTurns => r.abort)
    PROVE  GeneratorIInv'
<1>1. phase' = "done" /\ returned' = r /\ usedSuccessfully' = usedSuccessfully
  BY DEF Returns, usedSuccessfully
<1>2. DraftInv'
  BY <1>1 DEF DraftInv, Replied
<1>3. chats' \in 0..(MaxTurns + 1)
  <2>1. MaxTurns \in Nat /\ chats \in 0..(MaxTurns + 1) /\ chats <= MaxTurns
    BY GeneratorAssumption DEF GeneratorIInv, GeneratorTypeOK, LoopInv
  <2> QED
    BY <2>1
<1>4. GeneratorTypeOK'
  BY <1>1, <1>2, <1>3 DEF GeneratorIInv, GeneratorTypeOK, DraftInv, Replied
<1>5. LoopInv'
  BY <1>1 DEF LoopInv
<1>6. HoldsOnThisListing' /\ HoldsLogged' /\ LogInv'
  BY DEF GeneratorIInv, HoldsOnThisListing, HoldsLogged, LogInv, Backed
<1> QED
  BY <1>2, <1>4, <1>5, <1>6 DEF GeneratorIInv

(* The model's message has tool calls.                                     *)
LEMMA ChatAsksStep ==
    ASSUME GeneratorIInv, ChatAsks
    PROVE  GeneratorIInv'
<1>1. PICK n \in 1..MaxParallel : asked' \in [1..n -> Requests]
  BY DEF ChatAsks
<1>2. asked' \in Seq(Requests) /\ asked' # <<>>
  <2>1. n \in Nat /\ n >= 1
    BY GeneratorAssumption
  <2>2. Len(asked') = n /\ asked' \in Seq(Requests)
    BY <1>1, <2>1
  <2> QED
    BY <2>1, <2>2
<1>3. /\ phase = "chat" /\ phase' = "tools" /\ chats' = chats + 1
      /\ UNCHANGED <<expected, turn, toolLog, holds, checked, returned>>
  BY DEF ChatAsks
<1>4. /\ MaxTurns \in Nat /\ turn \in 0..MaxTurns /\ turn < MaxTurns /\ chats = turn
      /\ returned = Nothing
  BY <1>3, GeneratorAssumption DEF GeneratorIInv, GeneratorTypeOK, LoopInv
<1>5. chats' \in 0..(MaxTurns + 1)
  BY <1>3, <1>4
<1>6. ~Replied'
  BY <1>3, <1>4 DEF Replied
<1>7. GeneratorTypeOK'
  BY <1>2, <1>3, <1>5, <1>6 DEF GeneratorIInv, GeneratorTypeOK
<1>8. LoopInv'
  BY <1>2, <1>3, <1>4 DEF LoopInv
<1>9. HoldsOnThisListing' /\ HoldsLogged' /\ LogInv'
  BY <1>3 DEF GeneratorIInv, HoldsOnThisListing, HoldsLogged, LogInv, Backed
<1> QED
  BY <1>6, <1>7, <1>8, <1>9 DEF GeneratorIInv, DraftInv

(* After a tool, whatever became of it: the loop is consistent if the log  *)
(* and the effects are.                                                    *)
LEMMA ToolStep ==
    ASSUME GeneratorIInv, phase = "tools", NextTool, UNCHANGED <<expected, chats, returned>>,
           toolLog' \in SUBSET [name : ToolNames, ok : BOOLEAN],
           holds' \in SUBSET Listings, checked' \in SUBSET Listings,
           HoldsOnThisListing', HoldsLogged', LogInv'
    PROVE  GeneratorIInv'
<1>1. /\ MaxTurns \in Nat /\ turn \in 0..MaxTurns /\ turn < MaxTurns /\ chats = turn + 1
      /\ returned = Nothing /\ asked \in Seq(Requests) /\ asked # <<>>
  BY GeneratorAssumption DEF GeneratorIInv, GeneratorTypeOK, LoopInv
<1>2. asked' = Tail(asked) /\ asked' \in Seq(Requests) /\ Len(asked) \in Nat
      /\ Len(asked') = Len(asked) - 1
  BY <1>1 DEF NextTool
<1>3. ~Replied'
  BY <1>1 DEF Replied
<1>4. CASE Len(asked) > 1
  <2>1. UNCHANGED <<phase, turn>>
    BY <1>4 DEF NextTool
  <2>2. asked' # <<>>
    <3>1. Len(asked') > 0
      BY <1>2, <1>4
    <3> QED
      BY <3>1
  <2>3. GeneratorTypeOK'
    BY <1>2, <1>3, <2>1 DEF GeneratorIInv, GeneratorTypeOK
  <2>4. LoopInv'
    BY <1>1, <2>1, <2>2 DEF LoopInv
  <2> QED
    BY <1>3, <2>3, <2>4 DEF GeneratorIInv, DraftInv
<1>5. CASE ~(Len(asked) > 1)
  <2>1. turn' = turn + 1 /\ phase' = IF turn + 1 < MaxTurns THEN "chat" ELSE "reflect"
    BY <1>5 DEF NextTool
  <2>2. /\ turn' \in 0..MaxTurns /\ chats' = turn'
        /\ (phase' = "chat" /\ turn' < MaxTurns) \/ (phase' = "reflect" /\ turn' = MaxTurns)
    BY <1>1, <2>1
  <2>3. GeneratorTypeOK'
    BY <1>2, <1>3, <2>2 DEF GeneratorIInv, GeneratorTypeOK
  <2>4. LoopInv'
    BY <1>1, <2>2 DEF LoopInv
  <2> QED
    BY <1>3, <2>3, <2>4 DEF GeneratorIInv, DraftInv
<1> QED
  BY <1>4, <1>5

(* A tool that Guesty answered.                                            *)
LEMMA RunToolOKStep ==
    ASSUME GeneratorIInv, RunToolOK
    PROVE  GeneratorIInv'
<1> DEFINE req == Head(asked)
<1>1. /\ phase = "tools" /\ NextTool /\ UNCHANGED <<expected, chats, returned>>
      /\ Reaches(req) /\ toolLog' = toolLog \cup {[name |-> req.name, ok |-> TRUE]}
      /\ holds' = IF req.name = "hold_reservation" THEN holds \cup {req.listing} ELSE holds
      /\ checked' = IF req.name = "check_availability" THEN checked \cup {req.listing}
                                                       ELSE checked
  BY DEF RunToolOK, Logged
<1>2. req \in Requests
  <2>1. asked \in Seq(Requests) /\ asked # <<>>
    BY <1>1 DEF GeneratorIInv, GeneratorTypeOK, LoopInv
  <2> QED
    BY <2>1
<1> HIDE DEF req
<1>3. req.name \in ToolNames /\ req.listing \in Listings
  BY <1>2 DEF Requests
<1>4. req.name \in Tools => ~rejectIfWrongListing(req.listing)
  BY <1>1 DEF Reaches, Tools
<1>5. /\ toolLog' \in SUBSET [name : ToolNames, ok : BOOLEAN]
      /\ holds' \in SUBSET Listings /\ checked' \in SUBSET Listings
  <2>1. [name |-> req.name, ok |-> TRUE] \in [name : ToolNames, ok : BOOLEAN]
    BY <1>3
  <2>2. toolLog' \in SUBSET [name : ToolNames, ok : BOOLEAN]
    BY <1>1, <2>1, Zenon DEF GeneratorIInv, GeneratorTypeOK
  <2> QED
    BY <1>1, <1>3, <2>2 DEF GeneratorIInv, GeneratorTypeOK
<1>6. HoldsOnThisListing'
  BY <1>1, <1>4 DEF GeneratorIInv, HoldsOnThisListing, rejectIfWrongListing, Tools
<1>7. HoldsLogged'
  <2> DEFINE rec == [name |-> req.name, ok |-> TRUE]
  <2>1. rec.name = req.name /\ rec \in toolLog' /\ toolLog \subseteq toolLog'
    BY <1>1
  <2> HIDE DEF rec
  <2>2. CASE req.name = "hold_reservation"
    BY <2>1, <2>2 DEF HoldsLogged
  <2>3. CASE req.name # "hold_reservation"
    BY <1>1, <2>1, <2>3 DEF GeneratorIInv, HoldsLogged
  <2> QED
    BY <2>2, <2>3
<1>8. LogInv'
  <2>1. \A S : Backed(S)' <=> Backed(S)
    BY <1>1 DEF Backed
  <2>2. [name |-> "hold_reservation", ok |-> TRUE] \in toolLog' => Backed(holds')
    <3>1. CASE req.name = "hold_reservation"
      BY <1>1, <1>4, <3>1, AddedIsBacked DEF Tools
    <3>2. CASE req.name # "hold_reservation"
      BY <1>1, <3>2 DEF GeneratorIInv, LogInv
    <3> QED
      BY <3>1, <3>2
  <2>3. [name |-> "check_availability", ok |-> TRUE] \in toolLog' => Backed(checked')
    <3>1. CASE req.name = "check_availability"
      BY <1>1, <1>4, <3>1, AddedIsBacked DEF Tools
    <3>2. CASE req.name # "check_availability"
      BY <1>1, <3>2 DEF GeneratorIInv, LogInv
    <3> QED
      BY <3>1, <3>2
  <2> QED
    BY <1>1, <2>2, <2>3 DEF LogInv, Backed
<1> QED
  BY <1>1, <1>5, <1>6, <1>7, <1>8, ToolStep

(* A tool that failed, or whose answer was lost.                           *)
LEMMA RunToolErrorStep ==
    ASSUME GeneratorIInv, RunToolError
    PROVE  GeneratorIInv'
<1> DEFINE req == Head(asked)
<1>1. /\ phase = "tools" /\ NextTool /\ UNCHANGED <<expected, chats, checked, returned>>
      /\ toolLog' = toolLog \cup {[name |-> req.name, ok |-> FALSE]}
      /\ \/ UNCHANGED holds
         \/ /\ Reaches(req) /\ req.name = "hold_reservation"
            /\ holds' = holds \cup {req.listing}
  BY DEF RunToolError, Logged
<1>2. req \in Requests
  <2>1. asked \in Seq(Requests) /\ asked # <<>>
    BY <1>1 DEF GeneratorIInv, GeneratorTypeOK, LoopInv
  <2> QED
    BY <2>1
<1> HIDE DEF req
<1>3. req.name \in ToolNames /\ req.listing \in Listings
  BY <1>2 DEF Requests
<1>4. holds \subseteq holds' /\ holds' \in SUBSET Listings
  BY <1>1, <1>3 DEF GeneratorIInv, GeneratorTypeOK
<1>5. toolLog' \in SUBSET [name : ToolNames, ok : BOOLEAN] /\ checked' \in SUBSET Listings
  <2>1. [name |-> req.name, ok |-> FALSE] \in [name : ToolNames, ok : BOOLEAN]
    BY <1>3
  <2>2. toolLog' \in SUBSET [name : ToolNames, ok : BOOLEAN]
    BY <1>1, <2>1, Zenon DEF GeneratorIInv, GeneratorTypeOK
  <2> QED
    BY <1>1, <2>2 DEF GeneratorIInv, GeneratorTypeOK
<1>6. HoldsOnThisListing'
  BY <1>1 DEF GeneratorIInv, HoldsOnThisListing, Reaches, rejectIfWrongListing
<1>7. HoldsLogged'
  <2> DEFINE rec == [name |-> req.name, ok |-> FALSE]
  <2>1. rec.name = req.name /\ rec \in toolLog' /\ toolLog \subseteq toolLog'
    BY <1>1
  <2> HIDE DEF rec
  <2>2. CASE req.name = "hold_reservation"
    BY <2>1, <2>2 DEF HoldsLogged
  <2>3. CASE req.name # "hold_reservation"
    BY <1>1, <2>1, <2>3 DEF GeneratorIInv, HoldsLogged
  <2> QED
    BY <2>2, <2>3
<1>8. LogInv'
  <2>1. \A name : [name |-> name, ok |-> TRUE] \in toolLog' <=> [name |-> name, ok |-> TRUE] \in toolLog
    BY <1>1
  <2>2. [name |-> "hold_reservation", ok |-> TRUE] \in toolLog' => Backed(holds')
    BY <1>4, <2>1, BackedGrows DEF GeneratorIInv, LogInv
  <2>3. [name |-> "check_availability", ok |-> TRUE] \in toolLog' => Backed(checked)
    BY <2>1 DEF GeneratorIInv, LogInv
  <2> QED
    BY <1>1, <2>2, <2>3 DEF LogInv, Backed
<1> QED
  BY <1>1, <1>4, <1>5, <1>6, <1>7, <1>8, ToolStep

-----------------------------------------------------------------------------
(* The inductive invariant of the agent loop.                              *)
THEOREM GeneratorInvariance == GeneratorSpec => []GeneratorIInv
<1>1. GeneratorIInv /\ [GeneratorNext]_generatorVars => GeneratorIInv'
  <2> SUFFICES ASSUME GeneratorIInv, [GeneratorNext]_generatorVars PROVE GeneratorIInv'
    OBVIOUS
  <2>1. CASE ChatFails
    BY <2>1, ReturnStep DEF ChatFails
  <2>2. CASE ChatAnswers
    <3>1. /\ phase = "chat" /\ chats' = chats + 1
          /\ UNCHANGED <<expected, turn, asked, toolLog, holds, checked>>
      BY <2>2 DEF ChatAnswers
    <3>2. turn # MaxTurns
      BY <3>1, GeneratorAssumption DEF GeneratorIInv, GeneratorTypeOK, LoopInv
    <3>3. CASE Returns(Failed)
      BY <3>1, <3>3, ReturnStep
    <3>4. ASSUME NEW abort \in BOOLEAN, NEW sells \in BOOLEAN, NEW promises \in BOOLEAN,
                 Returns([abort |-> abort, confident |-> TRUE, badLength |-> FALSE,
                      hedges |-> FALSE, sells |-> sells, promisesHold |-> promises,
                      promisesChannel |-> FALSE, restricted |-> FALSE,
                      tools |-> usedSuccessfully])
          PROVE  GeneratorIInv'
      <4> DEFINE r == [abort |-> abort, confident |-> TRUE, badLength |-> FALSE,
                      hedges |-> FALSE, sells |-> sells, promisesHold |-> promises,
                      promisesChannel |-> FALSE, restricted |-> FALSE,
                      tools |-> usedSuccessfully]
      <4>1. r \in Reply /\ r.tools = usedSuccessfully
        BY DEF Reply, usedSuccessfully
      <4>2. Returns(r)
        BY <3>4
      <4> HIDE DEF r
      <4> QED
        BY <3>1, <3>2, <4>1, <4>2, ReturnStep
    <3> QED
      BY <2>2, <3>3, <3>4 DEF ChatAnswers
  <2>3. CASE ChatAsks
    BY <2>3, ChatAsksStep
  <2>4. CASE RunToolOK
    BY <2>4, RunToolOKStep
  <2>5. CASE RunToolError
    BY <2>5, RunToolErrorStep
  <2>6. CASE ReflectOnFailure
    <3> DEFINE r == [abort |-> TRUE, confident |-> FALSE, badLength |-> TRUE,
                     hedges |-> FALSE, sells |-> FALSE, promisesHold |-> FALSE,
                     promisesChannel |-> FALSE, restricted |-> FALSE,
                     tools |-> usedSuccessfully]
    <3>1. r \in Reply /\ r.tools = usedSuccessfully /\ r.abort
      BY DEF Reply, usedSuccessfully
    <3>2. /\ phase = "reflect" /\ chats' = chats + 1 /\ Returns(r)
          /\ UNCHANGED <<expected, turn, asked, toolLog, holds, checked>>
      BY <2>6 DEF ReflectOnFailure
    <3> HIDE DEF r
    <3> QED
      BY <3>1, <3>2, ReturnStep
  <2>7. CASE UNCHANGED generatorVars
    BY <2>7 DEF generatorVars, GeneratorIInv, GeneratorTypeOK, LoopInv, HoldsOnThisListing,
                HoldsLogged, LogInv, DraftInv,
                Replied, Backed, usedSuccessfully
  <2> QED
    BY <2>1, <2>2, <2>3, <2>4, <2>5, <2>6, <2>7 DEF GeneratorNext, Generate, Done
<1> QED
  BY <1>1, GeneratorInitEstablishes, PTL DEF GeneratorSpec

(* The loop keeps within its budget, aborts when that is spent, and holds  *)
(* nothing but the turn's own listing, on the log (rejectIfWrongListing    *)
(* and runTool).                                                           *)
THEOREM HoldsAreOwnAndLogged == GeneratorSpec => []HoldInv
<1>1. GeneratorIInv => HoldInv
  BY DEF GeneratorIInv, HoldInv, DraftInv, ExhaustedAborts
<1> QED
  BY <1>1, GeneratorInvariance, PTL

(* A draft that the validators let through and that promises a hold or     *)
(* sells certainty has the effect at Guesty behind it.                     *)
THEOREM PromisesAreBacked == GeneratorSpec => []PromisesBacked
<1>1. GeneratorIInv => PromisesBacked
  <2> SUFFICES ASSUME GeneratorIInv, Replied, ValidateReply(returned) = {}
               PROVE  /\ returned.promisesHold => Backed(holds)
                      /\ returned.sells => Backed(checked)
    BY DEF PromisesBacked
  <2>1. returned \in Reply /\ returned.tools = usedSuccessfully
    BY DEF GeneratorIInv, DraftInv
  <2>2. /\ returned.promisesHold => "hold_reservation" \in usedSuccessfully
        /\ returned.sells => "check_availability" \in usedSuccessfully
    BY <2>1, ValidReplyMeans
  <2> QED
    BY <2>2 DEF GeneratorIInv, LogInv, usedSuccessfully
<1> QED
  BY <1>1, GeneratorInvariance, PTL
=============================================================================
