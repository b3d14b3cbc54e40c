------------------------ MODULE FirestoreWritesProofs ------------------------
(***************************************************************************)
(* Proofs about FirestoreWrites, for any users, writes and refusals, any   *)
(* length of the pipeline and any number of disturbances.                  *)
(*                                                                         *)
(* The inductive invariant WInv has five parts.  LogOK is the heart: the   *)
(* queue of a user on disk is the end of the list of calls, and the calls  *)
(* before it are over.  ClientOK ties the pipeline to the oldest batches of*)
(* the queue and the stream to the current user; IdsOK and CallbacksOK say *)
(* that ids used again name nobody else's batch or callback; ServerOK says *)
(* what is on its way to the server and back, so that the next answer can  *)
(* only be for the first batch of the pipeline.                            *)
(*                                                                         *)
(* The lemmas follow the code from the inside out: places in a queue, the  *)
(* effect of each handler on the client, the effect of filing and settling *)
(* a write on the log, then one lemma per action (its name and Step), and  *)
(* at the end the refinement of SetDataContract.                           *)
(***************************************************************************)
EXTENDS FirestoreWrites, FiniteSetTheorems, SequenceTheorems, TLAPS

-----------------------------------------------------------------------------
(* Places: the batches of a queue in the order of their ids.               *)

FiniteIds == {ids \in SUBSET Nat : IsFiniteSet(ids)}

LEMMA PlaceInRange ==
  ASSUME NEW ids \in FiniteIds, NEW id \in ids
  PROVE  /\ Cardinality(ids) \in Nat
         /\ Place(ids, id) \in 1 .. Cardinality(ids)
<1>1. IsFiniteSet(ids) /\ Cardinality(ids) \in Nat
      BY FS_CardinalityType DEF FiniteIds
<1>2. {i \in ids : i <= id} \in SUBSET ids /\ id \in {i \in ids : i <= id}
      BY DEF FiniteIds
<1>3. /\ IsFiniteSet({i \in ids : i <= id})
      /\ Cardinality({i \in ids : i <= id}) <= Cardinality(ids)
      BY <1>1, <1>2, FS_Subset
<1>4. Cardinality({i \in ids : i <= id}) \in Nat
      BY <1>3, FS_CardinalityType
<1>5. Cardinality({i \in ids : i <= id}) # 0
      BY <1>2, <1>3, FS_EmptySet
<1> QED
    BY <1>1, <1>3, <1>4, <1>5 DEF Place

LEMMA PlaceMonotonic ==
  ASSUME NEW ids \in FiniteIds, NEW a \in ids, NEW b \in ids, a < b
  PROVE  Place(ids, a) < Place(ids, b)
<1> DEFINE A == {i \in ids : i <= a}
           B == {i \in ids : i <= b}
<1>1. IsFiniteSet(ids)
      BY DEF FiniteIds
<1>2. B \in SUBSET ids /\ A \in SUBSET B /\ b \in B /\ b \notin A
      <2>1. \A i \in ids : i \in Nat
            BY DEF FiniteIds
      <2>2. \A i \in ids : i <= a => i <= b
            BY <2>1
      <2>3. b <= b /\ ~(b <= a)
            BY <2>1
      <2> QED
          BY <2>2, <2>3
<1>3. IsFiniteSet(B)
      BY <1>1, <1>2, FS_Subset
<1>4. IsFiniteSet(A) /\ Cardinality(A) <= Cardinality(B) /\ (Cardinality(B) = Cardinality(A) => B = A)
      BY <1>2, <1>3, FS_Subset
<1>5. Cardinality(A) \in Nat /\ Cardinality(B) \in Nat
      BY <1>3, <1>4, FS_CardinalityType
<1>6. A # B
      BY <1>2
<1>7. Cardinality(A) < Cardinality(B)
      BY <1>4, <1>5, <1>6
<1> QED
    BY <1>7 DEF Place

LEMMA PlaceOrders ==
  ASSUME NEW ids \in FiniteIds, NEW a \in ids, NEW b \in ids
  PROVE  /\ a < b <=> Place(ids, a) < Place(ids, b)
         /\ a <= b <=> Place(ids, a) <= Place(ids, b)
         /\ a = b <=> Place(ids, a) = Place(ids, b)
<1>1. a \in Nat /\ b \in Nat
      BY DEF FiniteIds
<1>2. Place(ids, a) \in Nat /\ Place(ids, b) \in Nat
      BY PlaceInRange
<1>3. a < b => Place(ids, a) < Place(ids, b)
      BY PlaceMonotonic
<1>4. b < a => Place(ids, b) < Place(ids, a)
      BY PlaceMonotonic
<1> QED
    BY <1>1, <1>2, <1>3, <1>4

\* Every place is taken.
LEMMA PlaceIsTaken ==
  ASSUME NEW ids \in FiniteIds, NEW n \in 1 .. Cardinality(ids)
  PROVE  \E id \in ids : Place(ids, id) = n
<1> DEFINE f == [id \in ids |-> Place(ids, id)]
           T == 1 .. Cardinality(ids)
<1>1. IsFiniteSet(ids) /\ Cardinality(ids) \in Nat
      BY FS_CardinalityType DEF FiniteIds
<1>2. f \in Injection(ids, T)
      <2>1. f \in [ids -> T]
            BY PlaceInRange
      <2>2. \A a, b \in ids : f[a] = f[b] => a = b
            BY PlaceOrders
      <2> QED
          BY <2>1, <2>2 DEF Injection, IsInjective
<1>3. IsFiniteSet(T) /\ Cardinality(T) = Cardinality(ids)
      BY <1>1, FS_Interval
<1> HIDE DEF f
<1>4. f \in Surjection(ids, T)
      BY <1>2, <1>3, FS_Injection
<1>5. \E id \in ids : f[id] = n
      BY <1>4 DEF Surjection
<1> QED
    BY <1>5 DEF f

LEMMA InOrderIsOrder ==
  ASSUME NEW ids \in FiniteIds
  PROVE  /\ InOrder(ids) \in Seq(Nat)
         /\ DOMAIN InOrder(ids) = 1 .. Cardinality(ids)
         /\ Len(InOrder(ids)) = Cardinality(ids)
         /\ \A i \in 1 .. Cardinality(ids) :
              InOrder(ids)[i] \in ids /\ Place(ids, InOrder(ids)[i]) = i
<1>1. Cardinality(ids) \in Nat /\ ids \subseteq Nat
      BY FS_CardinalityType DEF FiniteIds
<1>2. \A i \in 1 .. Cardinality(ids) :
        InOrder(ids)[i] \in ids /\ Place(ids, InOrder(ids)[i]) = i
      BY PlaceIsTaken DEF InOrder
<1>3. InOrder(ids) \in [1 .. Cardinality(ids) -> Nat]
      BY <1>1, <1>2 DEF InOrder
<1>4. InOrder(ids) \in Seq(Nat)
      BY <1>1, <1>3
<1>5. DOMAIN InOrder(ids) = 1 .. Cardinality(ids)
      BY DEF InOrder
<1>6. Len(InOrder(ids)) = Cardinality(ids)
      BY <1>1, <1>4, <1>5
<1> QED
    BY <1>2, <1>4, <1>5, <1>6

\* A batch filed last comes last, and leaves the others where they are.
LEMMA PlaceOfNewest ==
  ASSUME NEW ids \in FiniteIds, NEW new \in Nat, \A id \in ids : id < new
  PROVE  /\ ids \union {new} \in FiniteIds
         /\ Cardinality(ids \union {new}) = Cardinality(ids) + 1
         /\ Place(ids \union {new}, new) = Cardinality(ids) + 1
         /\ \A id \in ids : Place(ids \union {new}, id) = Place(ids, id)
<1>1. IsFiniteSet(ids) /\ Cardinality(ids) \in Nat /\ ids \subseteq Nat
      BY FS_CardinalityType DEF FiniteIds
<1>2. new \notin ids
      BY <1>1
<1>3. /\ IsFiniteSet(ids \union {new})
      /\ Cardinality(ids \union {new}) = Cardinality(ids) + 1
      BY <1>1, <1>2, FS_AddElement
<1>4. {i \in ids \union {new} : i <= new} = ids \union {new}
      <2>1. \A i \in ids \union {new} : i <= new
            BY <1>1
      <2> QED
          BY <2>1
<1>5. ASSUME NEW id \in ids PROVE {i \in ids \union {new} : i <= id} = {i \in ids : i <= id}
      <2>1. ~(new <= id)
            BY <1>1
      <2> QED
          BY <2>1
<1> QED
    BY <1>1, <1>3, <1>4, <1>5 DEF FiniteIds, Place

\* When the oldest batch goes, the others move up by one.
LEMMA PlaceAfterOldest ==
  ASSUME NEW ids \in FiniteIds, NEW old \in ids, Place(ids, old) = 1
  PROVE  /\ ids \ {old} \in FiniteIds
         /\ Cardinality(ids \ {old}) = Cardinality(ids) - 1
         /\ \A id \in ids \ {old} : Place(ids \ {old}, id) = Place(ids, id) - 1
<1>1. IsFiniteSet(ids) /\ ids \subseteq Nat
      BY DEF FiniteIds
<1>2. /\ IsFiniteSet(ids \ {old})
      /\ Cardinality(ids \ {old}) = Cardinality(ids) - 1
      BY <1>1, FS_RemoveElement
<1>3. ASSUME NEW id \in ids \ {old} PROVE Place(ids \ {old}, id) = Place(ids, id) - 1
      <2>1. old <= id
            <3>1. Place(ids, id) \in 1 .. Cardinality(ids) /\ Cardinality(ids) \in Nat
                  BY PlaceInRange
            <3> QED
                BY <3>1, PlaceOrders
      <2>2. {i \in ids \ {old} : i <= id} = {i \in ids : i <= id} \ {old}
            OBVIOUS
      <2>3. old \in {i \in ids : i <= id}
            BY <2>1
      <2>4. IsFiniteSet({i \in ids : i <= id})
            BY <1>1, FS_Subset
      <2> QED
          BY <2>2, <2>3, <2>4, FS_RemoveElement DEF Place
<1> QED
    BY <1>1, <1>2, <1>3 DEF FiniteIds

\* The batches behind the n-th, counted from there.
LEMMA PlaceBehind ==
  ASSUME NEW ids \in FiniteIds, NEW last \in Nat, NEW n \in Nat,
         \/ last \in ids /\ Place(ids, last) = n
         \/ n = 0 /\ \A id \in ids : id > last
  PROVE  LET rest == {id \in ids : id > last}
         IN  /\ rest \in FiniteIds
             /\ Cardinality(rest) = Cardinality(ids) - n
             /\ \A id \in rest : Place(rest, id) = Place(ids, id) - n
<1> DEFINE rest == {id \in ids : id > last}
           first == {id \in ids : id <= last}
<1>1. IsFiniteSet(ids) /\ ids \subseteq Nat /\ Cardinality(ids) \in Nat
      BY FS_CardinalityType DEF FiniteIds
<1>2. IsFiniteSet(first) /\ IsFiniteSet(rest)
      BY <1>1, FS_Subset
<1>3. Cardinality(first) = n
      <2>1. CASE last \in ids /\ Place(ids, last) = n
            BY <2>1 DEF Place
      <2>2. CASE n = 0 /\ \A id \in ids : id > last
            <3>1. \A id \in ids : ~(id <= last)
                  BY <1>1, <2>2
            <3>2. first = {}
                  BY <3>1
            <3> QED
                BY <2>2, <3>2, FS_EmptySet
      <2> QED
          BY <2>1, <2>2
<1>4. ids = first \union rest /\ first \intersect rest = {}
      <2>1. \A id \in ids : id > last <=> ~(id <= last)
            BY <1>1
      <2> QED
          BY <2>1
<1>5. Cardinality(rest) \in Nat
      BY <1>2, FS_CardinalityType
<1>6. Cardinality(ids) = n + Cardinality(rest)
      <2>1. Cardinality(first \union rest)
              = Cardinality(first) + Cardinality(rest) - Cardinality(first \intersect rest)
            BY <1>2, FS_Union
      <2> HIDE DEF first, rest
      <2> QED
          BY <1>3, <1>4, <1>5, <2>1, FS_EmptySet
<1>7. ASSUME NEW id \in rest PROVE Place(rest, id) = Place(ids, id) - n
      <2> DEFINE before == {i \in rest : i <= id}
      <2>1. {i \in ids : i <= id} = first \union before /\ first \intersect before = {}
            <3>1. \A i \in ids : (i <= last => i <= id) /\ (i > last <=> ~(i <= last))
                  BY <1>1
            <3> QED
                BY <3>1
      <2>2. IsFiniteSet(before)
            BY <1>2, FS_Subset
      <2>3. Cardinality(before) \in Nat
            BY <2>2, FS_CardinalityType
      <2>4. Cardinality(first \union before)
              = Cardinality(first) + Cardinality(before) - Cardinality(first \intersect before)
            BY <1>2, <2>2, FS_Union
      <2>5. Place(rest, id) = Cardinality(before)
            BY DEF Place
      <2>6. Place(ids, id) = Cardinality(first \union before)
            BY <2>1 DEF Place
      <2>7. Cardinality(first \intersect before) = 0
            BY <2>1, FS_EmptySet
      <2> HIDE DEF first, rest, before
      <2> QED
          BY <1>3, <2>3, <2>4, <2>5, <2>6, <2>7
<1>8. rest \in FiniteIds
      BY <1>1, <1>2 DEF FiniteIds
<1>9. Cardinality(rest) = Cardinality(ids) - n
      BY <1>5, <1>6
<1> QED
    BY <1>7, <1>8, <1>9

\* The first m batches keep their places among themselves.
LEMMA PlaceOfFirst ==
  ASSUME NEW ids \in FiniteIds, NEW m \in Nat
  PROVE  LET next == {id \in ids : Place(ids, id) <= m}
         IN  /\ next \in FiniteIds
             /\ Cardinality(next) = IF m < Cardinality(ids) THEN m ELSE Cardinality(ids)
             /\ \A id \in next : Place(next, id) = Place(ids, id)
<1> DEFINE next == {id \in ids : Place(ids, id) <= m}
           k == IF m < Cardinality(ids) THEN m ELSE Cardinality(ids)
<1>1. IsFiniteSet(ids) /\ ids \subseteq Nat /\ Cardinality(ids) \in Nat
      BY FS_CardinalityType DEF FiniteIds
<1>2. IsFiniteSet(next)
      BY <1>1, FS_Subset
<1>3. ASSUME NEW id \in next PROVE Place(next, id) = Place(ids, id)
      <2>1. \A i \in ids : i <= id => i \in next
            <3>1. \A i \in ids : Place(ids, i) \in Nat
                  BY PlaceInRange
            <3> QED
                BY <3>1, PlaceOrders
      <2>2. {i \in next : i <= id} = {i \in ids : i <= id}
            BY <2>1
      <2> HIDE DEF next
      <2> QED
          BY <2>2 DEF Place
<1>4. Cardinality(next) = k
      <2> DEFINE f == [id \in next |-> Place(ids, id)]
      <2>1. f \in [next -> 1 .. k]
            BY PlaceInRange
      <2>2. \A a, b \in next : f[a] = f[b] => a = b
            BY PlaceOrders
      <2>3. \A n \in 1 .. k : \E id \in next : f[id] = n
            <3> SUFFICES ASSUME NEW n \in 1 .. k PROVE \E id \in next : Place(ids, id) = n
                OBVIOUS
            <3>1. n \in 1 .. Cardinality(ids) /\ n <= m
                  BY <1>1
            <3>2. PICK id \in ids : Place(ids, id) = n
                  BY <3>1, PlaceIsTaken
            <3> QED
                BY <3>1, <3>2
      <2>4. f \in Bijection(next, 1 .. k)
            BY <2>1, <2>2, <2>3 DEF Bijection, Injection, Surjection, IsInjective
      <2>5. ExistsBijection(next, 1 .. k)
            BY <2>4 DEF ExistsBijection
      <2>6. Cardinality(1 .. k) = k /\ k \in Nat
            <3>1. k \in Nat
                  BY <1>1
            <3> HIDE DEF k
            <3> QED
                BY <3>1, FS_Interval
      <2> HIDE DEF next, k
      <2> QED
          BY <1>2, <2>5, <2>6, FS_Bijection
<1> QED
    BY <1>1, <1>2, <1>3, <1>4 DEF FiniteIds

-----------------------------------------------------------------------------
(* Queues, and filing a batch or removing one.                             *)

Queues == UNION {[ids -> Writes] : ids \in FiniteIds}

LEMMA QueueHasDomain ==
  \A q : q \in Queues <=> DOMAIN q \in FiniteIds /\ q \in [DOMAIN q -> Writes]
<1>1. ASSUME NEW q, q \in Queues PROVE DOMAIN q \in FiniteIds /\ q \in [DOMAIN q -> Writes]
      BY <1>1 DEF Queues
<1>2. ASSUME NEW q, DOMAIN q \in FiniteIds, q \in [DOMAIN q -> Writes] PROVE q \in Queues
      BY <1>2 DEF Queues
<1> QED
    BY <1>1, <1>2

LEMMA NoBatchesIsQueue == NoBatches \in Queues /\ DOMAIN NoBatches = {}
<1>1. DOMAIN NoBatches = {} /\ NoBatches \in [{} -> Writes]
      BY DEF NoBatches
<1>2. {} \in FiniteIds
      BY FS_EmptySet DEF FiniteIds
<1> QED
    BY <1>1, <1>2 DEF Queues

LEMMA QueueFiled ==
  ASSUME NEW q \in Queues, NEW new \in Nat, NEW w \in Writes
  PROVE  /\ Put(q, new, w) \in Queues
         /\ DOMAIN Put(q, new, w) = DOMAIN q \union {new}
         /\ Put(q, new, w)[new] = w
         /\ \A id \in DOMAIN q : id # new => Put(q, new, w)[id] = q[id]
         /\ Insert(q, new, w) \in Queues
         /\ DOMAIN Insert(q, new, w) = DOMAIN q \union {new}
         /\ \A id \in DOMAIN q : Insert(q, new, w)[id] = q[id]
         /\ new \notin DOMAIN q => Insert(q, new, w)[new] = w
<1>1. DOMAIN q \in FiniteIds /\ q \in [DOMAIN q -> Writes]
      BY QueueHasDomain
<1>2. DOMAIN q \union {new} \in FiniteIds
      BY <1>1, FS_AddElement DEF FiniteIds
<1>3. /\ Put(q, new, w) \in [DOMAIN q \union {new} -> Writes]
      /\ Insert(q, new, w) \in [DOMAIN q \union {new} -> Writes]
      BY <1>1 DEF Put, Insert
<1>4. Put(q, new, w) \in Queues /\ Insert(q, new, w) \in Queues
      BY <1>2, <1>3 DEF Queues
<1> QED
    BY <1>4 DEF Put, Insert

LEMMA QueueRemoved ==
  ASSUME NEW q \in Queues, NEW old
  PROVE  /\ Restrict(q, DOMAIN q \ {old}) \in Queues
         /\ DOMAIN Restrict(q, DOMAIN q \ {old}) = DOMAIN q \ {old}
         /\ \A id \in DOMAIN q \ {old} : Restrict(q, DOMAIN q \ {old})[id] = q[id]
<1>1. DOMAIN q \in FiniteIds /\ q \in [DOMAIN q -> Writes]
      BY QueueHasDomain
<1>2. DOMAIN q \ {old} \in FiniteIds
      BY <1>1, FS_RemoveElement DEF FiniteIds
<1>3. Restrict(q, DOMAIN q \ {old}) \in [DOMAIN q \ {old} -> Writes]
      BY <1>1 DEF Restrict
<1> QED
    BY <1>2, <1>3 DEF Queues, Restrict

-----------------------------------------------------------------------------
(* The stream.                                                             *)

\* The timers and the token requests belong to the state the stream is in.
StreamOK(s) ==
  /\ s \in StreamType
  /\ s.sound
  /\ "current" \in s.asked <=> s.state = "Starting"
  /\ s.backoff <=> s.state = "Backoff"
  /\ s.idle => IsOpen(s)

LEMMA NewStreamOK == StreamOK(NewStream) /\ ~IsStarted(NewStream) /\ ~IsOpen(NewStream)
BY DEF NewStream, StreamOK, StreamType, StreamStates, IsStarted, IsOpen

LEMMA StartOK ==
  ASSUME NEW s, StreamOK(s), ~IsStarted(s)
  PROVE  StreamOK(Start(s)) /\ IsStarted(Start(s)) /\ ~IsOpen(Start(s))
BY DEF Start, StreamOK, StreamType, StreamStates, IsStarted, IsOpen, BackoffAndTryRestarting,
       RequestCredentials, HardAssert

LEMMA ClosedOK ==
  ASSUME NEW s \in StreamType, s.sound, IsStarted(s), NEW graceful \in BOOLEAN
  PROVE  StreamOK(Closed(s, graceful)) /\ ~IsStarted(Closed(s, graceful))
BY DEF Closed, StreamOK, StreamType, StreamStates, IsStarted, IsOpen, HardAssert

LEMMA InhibitOK ==
  ASSUME NEW s, StreamOK(s), ~IsStarted(s)
  PROVE  StreamOK(InhibitBackoff(s)) /\ ~IsStarted(InhibitBackoff(s))
BY DEF InhibitBackoff, StreamOK, StreamType, StreamStates, IsStarted, IsOpen, HardAssert

LEMMA BackoffElapsedOK ==
  ASSUME NEW s, StreamOK(s), s.backoff
  PROVE  /\ StreamOK(BackoffElapsed(s)) /\ IsStarted(BackoffElapsed(s))
         /\ ~IsOpen(BackoffElapsed(s)) /\ ~IsOpen(s)
<1> DEFINE r == [HardAssert(s, s.state = "Backoff") EXCEPT !.state = "Initial", !.backoff = FALSE]
<1>1. StreamOK(r) /\ ~IsStarted(r)
      BY DEF StreamOK, StreamType, StreamStates, IsStarted, IsOpen, HardAssert
<1>2. StreamOK(Start(r)) /\ IsStarted(Start(r)) /\ ~IsOpen(Start(r))
      BY <1>1, StartOK
<1>3. BackoffElapsed(s) = HardAssert(Start(r), IsStarted(Start(r)))
      BY DEF BackoffElapsed
<1>4. ~IsOpen(s)
      BY DEF StreamOK, IsOpen
<1> HIDE DEF r
<1> QED
    BY <1>2, <1>3, <1>4 DEF StreamOK, StreamType, IsStarted, IsOpen, HardAssert

LEMMA WrittenOK ==
  ASSUME NEW s, StreamOK(s), IsOpen(s)
  PROVE  StreamOK(Written(s)) /\ IsOpen(Written(s)) /\ ~Written(s).idle
BY DEF Written, CancelIdleCheck, StreamOK, StreamType, IsOpen, HardAssert

LEMMA MarkIdleOK ==
  ASSUME NEW s, StreamOK(s)
  PROVE  /\ StreamOK(MarkIdle(s)) /\ (~IsOpen(s) => MarkIdle(s) = s)
         /\ (IsOpen(s) <=> IsOpen(MarkIdle(s)))
BY DEF MarkIdle, StreamOK, StreamType, IsOpen

-----------------------------------------------------------------------------
(* The write pipeline.                                                     *)

ClientType ==
  [queue : [Users -> Queues], tokens : SUBSET Users, user : Users, nextId : Nat,
   callbacks : [Users -> Queues], network : BOOLEAN, pipeline : Seq(BatchType),
   stream : StreamType, handshake : BOOLEAN, token : Users \union {Nothing},
   session : Users, requests : Seq(RequestType), outcome : [Writes -> Outcomes]]

\* The ids of a user's batches.
Ids(c, u) == DOMAIN c.queue[u]

\* The pipeline holds the oldest batches of the current user, and not too many.
PipelineOK(c) ==
  /\ Len(c.pipeline) <= MaxPendingWrites
  /\ \A i \in 1 .. Len(c.pipeline) :
       /\ c.pipeline[i].id \in Ids(c, c.user)
       /\ c.pipeline[i].write = c.queue[c.user][c.pipeline[i].id]
       /\ Place(Ids(c, c.user), c.pipeline[i].id) = i

\* What the writes are and what the app knows of them; how the client is
\* connected.
SameBooks(c, d) ==
  /\ d.queue = c.queue /\ d.user = c.user /\ d.nextId = c.nextId
  /\ d.callbacks = c.callbacks /\ d.outcome = c.outcome

SameLine(c, d) ==
  /\ d.tokens = c.tokens /\ d.network = c.network /\ d.handshake = c.handshake
  /\ d.token = c.token /\ d.session = c.session

LEMMA QueueOfUser ==
  ASSUME NEW c \in ClientType, NEW u \in Users
  PROVE  /\ c.queue[u] \in Queues /\ Ids(c, u) \in FiniteIds /\ Ids(c, u) \subseteq Nat
         /\ Cardinality(Ids(c, u)) \in Nat
         /\ \A id \in Ids(c, u) : c.queue[u][id] \in Writes
<1>1. c.queue[u] \in Queues
      BY DEF ClientType
<1>2. Ids(c, u) \in FiniteIds /\ \A id \in Ids(c, u) : c.queue[u][id] \in Writes
      BY <1>1, QueueHasDomain DEF Ids
<1>3. Ids(c, u) \subseteq Nat /\ Cardinality(Ids(c, u)) \in Nat
      BY <1>2, FS_CardinalityType DEF FiniteIds
<1> QED
    BY <1>1, <1>2, <1>3

\* The batches the pipeline has not come to are those behind its places.
LEMMA LaterPlaces ==
  ASSUME NEW c \in ClientType, PipelineOK(c)
  PROVE  /\ Later(c) \in FiniteIds /\ Later(c) \subseteq Ids(c, c.user)
         /\ Len(c.pipeline) <= Cardinality(Ids(c, c.user))
         /\ Cardinality(Later(c)) = Cardinality(Ids(c, c.user)) - Len(c.pipeline)
         /\ \A id \in Later(c) :
              Place(Later(c), id) = Place(Ids(c, c.user), id) - Len(c.pipeline)
<1> DEFINE ids == Ids(c, c.user)
           n == Len(c.pipeline)
<1>1. c.user \in Users /\ c.pipeline \in Seq(BatchType) /\ n \in Nat
      BY DEF ClientType
<1>2. ids \in FiniteIds /\ ids \subseteq Nat /\ Cardinality(ids) \in Nat
      BY <1>1, QueueOfUser
<1>3. CASE c.pipeline = <<>>
      <2>1. Later(c) = ids /\ n = 0
            BY <1>3 DEF Later, Ids
      <2>2. \A id \in ids : Place(ids, id) \in Nat
            BY <1>2, PlaceInRange
      <2> QED
          BY <1>2, <2>1, <2>2
<1>4. CASE c.pipeline # <<>>
      <2>1. n \in 1 .. Len(c.pipeline)
            BY <1>1, <1>4
      <2>2. Last(c.pipeline).id \in ids /\ Place(ids, Last(c.pipeline).id) = n
            BY <2>1 DEF PipelineOK, Last
      <2> DEFINE last == Last(c.pipeline).id
      <2>3. Later(c) = {id \in ids : id > last}
            BY <1>4 DEF Later, Ids
      <2>4. last \in Nat
            BY <1>2, <2>2
      <2>5. Place(ids, last) \in 1 .. Cardinality(ids)
            BY <1>2, <2>2, PlaceInRange
      <2> HIDE DEF last, ids, n
      <2>6. last \in ids /\ Place(ids, last) = n
            BY <2>2 DEF last
      <2>7. LET rest == {id \in ids : id > last}
            IN  /\ rest \in FiniteIds
                /\ Cardinality(rest) = Cardinality(ids) - n
                /\ \A id \in rest : Place(rest, id) = Place(ids, id) - n
            BY <1>1, <1>2, <2>4, <2>6, PlaceBehind
      <2>8. n <= Cardinality(ids)
            BY <1>1, <1>2, <2>5, <2>6
      <2> QED
          BY <2>3, <2>7, <2>8 DEF ids, n
<1> QED
    BY <1>3, <1>4

LEMMA AddEffect ==
  ASSUME NEW c \in ClientType, NEW batches \in Seq(BatchType)
  PROVE  LET d == AddToWritePipeline(c, batches)
             sent == batches # <<>> /\ IsOpen(c.stream) /\ c.handshake
         IN  /\ d \in ClientType /\ SameBooks(c, d) /\ SameLine(c, d)
             /\ d.pipeline = c.pipeline \o batches
             /\ d.stream = IF sent THEN Written(c.stream) ELSE c.stream
             /\ d.requests = IF sent
                             THEN c.requests \o [i \in DOMAIN batches |-> batches[i].write]
                             ELSE c.requests
<1> DEFINE writes == [i \in DOMAIN batches |-> batches[i].write]
<1>1. writes \in Seq(RequestType)
      <2>1. DOMAIN batches = 1 .. Len(batches) /\ Len(batches) \in Nat
            OBVIOUS
      <2>2. \A i \in 1 .. Len(batches) : batches[i] \in BatchType
            OBVIOUS
      <2>3. writes \in [1 .. Len(batches) -> RequestType]
            BY <2>1, <2>2 DEF BatchType, RequestType
      <2> HIDE DEF writes
      <2> QED
          BY <2>1, <2>3
<1>2. /\ c.pipeline \in Seq(BatchType) /\ c.requests \in Seq(RequestType)
      /\ c.stream \in StreamType
      BY DEF ClientType
<1>3. c.pipeline \o batches \in Seq(BatchType) /\ c.requests \o writes \in Seq(RequestType)
      BY <1>1, <1>2
<1>4. Written(c.stream) \in StreamType
      BY <1>2 DEF Written, CancelIdleCheck, HardAssert, StreamType, IsOpen
<1> HIDE DEF writes
<1>5. AddToWritePipeline(c, batches)
        = IF batches # <<>> /\ IsOpen(c.stream) /\ c.handshake
          THEN [c EXCEPT !.pipeline = c.pipeline \o batches, !.stream = Written(c.stream),
                         !.requests = c.requests \o writes]
          ELSE [c EXCEPT !.pipeline = c.pipeline \o batches]
      BY DEF AddToWritePipeline, writes, ClientType
<1> QED
    BY ZenonT(40), <1>3, <1>4, <1>5 DEF ClientType, SameBooks, SameLine, writes

\* The client between two handlers, as far as the pipeline and the stream tell:
\* it does not connect for nothing, and keeps nothing while the network is off.
LinkOK(c) ==
  /\ c \in ClientType /\ StreamOK(c.stream) /\ PipelineOK(c)
  /\ IsStarted(c.stream) =>
       c.network /\ (c.pipeline # <<>> \/ (IsOpen(c.stream) /\ c.handshake))
  /\ ~c.network => c.pipeline = <<>>
  /\ c.stream.idle => c.handshake /\ c.pipeline = <<>>

Settling(c) == IsOpen(c.stream) /\ c.handshake

\* What FillWritePipeline does: batches are appended, and sent if the handshake
\* is over.
LEMMA FillEffect ==
  ASSUME NEW c, LinkOK(c)
  PROVE  LET d == FillWritePipeline(c)
             n == Len(c.pipeline)
         IN  /\ LinkOK(d) /\ SameBooks(c, d) /\ SameLine(c, d)
             /\ IsOpen(d.stream) <=> IsOpen(c.stream)
             /\ n <= Len(d.pipeline)
             /\ \A i \in 1 .. n : d.pipeline[i] = c.pipeline[i]
             /\ ~Settling(c) => d.requests = c.requests
             /\ Settling(c) =>
                  /\ Len(d.requests) = Len(c.requests) + Len(d.pipeline) - n
                  /\ \A i \in 1 .. Len(c.requests) : d.requests[i] = c.requests[i]
                  /\ \A i \in 1 .. Len(d.pipeline) - n :
                       d.requests[Len(c.requests) + i] = d.pipeline[n + i].write
<1> DEFINE n == Len(c.pipeline)
           ids == Ids(c, c.user)
           next == {id \in Later(c) : Place(Later(c), id) <= Room(c)}
           order == InOrder(next)
           batches == [i \in DOMAIN order |-> Batch(c, order[i])]
           m == Cardinality(next)
           f == AddToWritePipeline(c, batches)
           sent == batches # <<>> /\ Settling(c)
           writes == [i \in DOMAIN batches |-> batches[i].write]
           idle == c.network /\ f.pipeline = <<>>
           g == IF idle THEN [f EXCEPT !.stream = MarkIdle(f.stream)] ELSE f
           d == FillWritePipeline(c)
<1>1. c \in ClientType /\ StreamOK(c.stream) /\ PipelineOK(c)
      BY DEF LinkOK
<1>2. /\ c.user \in Users /\ c.pipeline \in Seq(BatchType) /\ n \in Nat
      /\ n <= MaxPendingWrites /\ c.network \in BOOLEAN
      BY <1>1 DEF ClientType, PipelineOK
<1>3. Room(c) \in Nat /\ n + Room(c) <= MaxPendingWrites
      <2>1. MaxPendingWrites \in Nat
            BY PipelineAssumption
      <2>2. Room(c) = IF c.network THEN MaxPendingWrites - n ELSE 0
            BY DEF Room
      <2> HIDE DEF n
      <2> QED
          BY <1>2, <2>1, <2>2
<1>4. /\ Later(c) \in FiniteIds /\ Later(c) \subseteq ids
      /\ Cardinality(Later(c)) \in Nat
      /\ \A id \in Later(c) : Place(Later(c), id) = Place(ids, id) - n
      BY <1>1, LaterPlaces, FS_CardinalityType DEF FiniteIds
<1>5. /\ next \in FiniteIds /\ m \in Nat /\ m <= Room(c)
      /\ \A id \in next : Place(next, id) = Place(Later(c), id)
      BY <1>3, <1>4, PlaceOfFirst
<1>6. /\ DOMAIN order = 1 .. m
      /\ \A i \in 1 .. m : order[i] \in ids /\ Place(ids, order[i]) = n + i
      <2> HIDE DEF next, ids, n
      <2>1. /\ DOMAIN order = 1 .. m
            /\ \A i \in 1 .. m : order[i] \in next /\ Place(next, order[i]) = i
            BY <1>5, InOrderIsOrder
      <2>2. ASSUME NEW i \in 1 .. m PROVE order[i] \in ids /\ Place(ids, order[i]) = n + i
            <3> HIDE DEF order, m
            <3>1. order[i] \in Later(c) /\ order[i] \in ids
                  BY <2>1, <1>4 DEF next
            <3>2. Place(ids, order[i]) \in Nat
                  BY <3>1, <1>1, <1>2, QueueOfUser, PlaceInRange DEF ids
            <3> QED
                BY <1>2, <1>4, <1>5, <2>1, <3>1, <3>2
      <2> QED
          BY <2>1, <2>2
<1> HIDE DEF order, m, next
<1>7. /\ batches \in Seq(BatchType) /\ Len(batches) = m /\ DOMAIN batches = 1 .. m
      /\ \A i \in 1 .. m : /\ batches[i].id = order[i]
                           /\ batches[i].write = c.queue[c.user][order[i]]
      <2>1. DOMAIN batches = 1 .. m
            BY <1>6
      <2>2. ASSUME NEW i \in 1 .. m
            PROVE  /\ batches[i] \in BatchType /\ batches[i].id = order[i]
                   /\ batches[i].write = c.queue[c.user][order[i]]
            <3>1. order[i] \in Nat /\ c.queue[c.user][order[i]] \in Writes
                  BY <1>1, <1>2, <1>6, QueueOfUser
            <3>2. batches[i] = [id |-> order[i], write |-> c.queue[c.user][order[i]]]
                  BY <1>6 DEF Batch
            <3> QED
                BY <3>1, <3>2 DEF BatchType
      <2>3. batches \in [1 .. m -> BatchType]
            BY <2>1, <2>2
      <2> HIDE DEF batches
      <2> QED
          BY <1>5, <2>1, <2>2, <2>3
<1> HIDE DEF batches
<1>8. /\ f \in ClientType /\ SameBooks(c, f) /\ SameLine(c, f)
      /\ f.pipeline = c.pipeline \o batches
      /\ f.stream = IF sent THEN Written(c.stream) ELSE c.stream
      /\ f.requests = IF sent THEN c.requests \o writes ELSE c.requests
      BY <1>1, <1>7, AddEffect DEF Settling
<1>9. d = StartIfNeeded(g)
      BY DEF FillWritePipeline, next, order, batches, MarkIdle
<1> HIDE DEF f, d
<1>10. /\ Len(f.pipeline) = n + m
       /\ \A i \in 1 .. n : f.pipeline[i] = c.pipeline[i]
       /\ \A i \in 1 .. m : f.pipeline[n + i] = batches[i]
       BY <1>2, <1>5, <1>7, <1>8, ConcatProperties
<1>11. PipelineOK(f)
       <2>1. Len(f.pipeline) <= MaxPendingWrites
             BY <1>2, <1>3, <1>5, <1>10, PipelineAssumption
       <2>2. Ids(f, f.user) = ids /\ f.queue[f.user] = c.queue[c.user]
             BY <1>8 DEF SameBooks, Ids
       <2>3. ASSUME NEW i \in 1 .. Len(f.pipeline)
             PROVE  /\ f.pipeline[i].id \in ids
                    /\ f.pipeline[i].write = c.queue[c.user][f.pipeline[i].id]
                    /\ Place(ids, f.pipeline[i].id) = i
             <3>1. CASE i \in 1 .. n
                   BY <3>1, <1>1, <1>10 DEF PipelineOK
             <3>2. CASE i \notin 1 .. n
                   <4>1. i - n \in 1 .. m /\ n + (i - n) = i
                         BY <3>2, <1>2, <1>5, <1>10
                   <4> DEFINE j == i - n
                   <4>2. f.pipeline[i] = batches[j] /\ j \in 1 .. m
                         BY <4>1, <1>10
                   <4>3. Place(ids, order[j]) = i
                         BY <4>1, <1>6
                   <4> HIDE DEF j
                   <4> QED
                       BY <4>2, <4>3, <1>6, <1>7
             <3> QED
                 BY <3>1, <3>2
       <2> HIDE DEF ids
       <2> QED
           BY <2>1, <2>2, <2>3 DEF PipelineOK
<1>12. /\ StreamOK(f.stream) /\ (IsOpen(f.stream) <=> IsOpen(c.stream))
       /\ IsStarted(f.stream) <=> IsStarted(c.stream)
       /\ sent => ~f.stream.idle
       /\ ~sent => f.stream = c.stream
       BY <1>1, <1>8, WrittenOK DEF Settling, IsOpen, IsStarted
<1>13. ~c.network => f.pipeline = <<>> /\ batches = <<>> /\ ~IsStarted(c.stream)
       <2> SUFFICES ASSUME ~c.network PROVE f.pipeline = <<>> /\ batches = <<>> /\ ~IsStarted(c.stream)
           OBVIOUS
       <2>1. c.pipeline = <<>> /\ Room(c) = 0 /\ ~IsStarted(c.stream)
             BY DEF LinkOK, Room
       <2>2. m = 0
             BY <2>1, <1>5
       <2>3. batches = <<>>
             BY <2>2, <1>7
       <2> QED
           BY <2>1, <2>3, <1>8
<1>14. f.pipeline = <<>> <=> c.pipeline = <<>> /\ batches = <<>>
       BY <1>2, <1>7, <1>8, ConcatEqualIffEmpty
<1>15. /\ g \in ClientType /\ SameBooks(c, g) /\ SameLine(c, g) /\ PipelineOK(g)
       /\ StreamOK(g.stream) /\ (IsOpen(g.stream) <=> IsOpen(c.stream))
       /\ IsStarted(g.stream) <=> IsStarted(c.stream)
       /\ g.pipeline = f.pipeline /\ g.requests = f.requests
       /\ g.stream.idle => c.handshake /\ g.pipeline = <<>>
       <2>1. CASE idle
             <3>1. g = [f EXCEPT !.stream = MarkIdle(f.stream)]
                   BY <2>1
             <3>2. MarkIdle(f.stream) \in StreamType /\ StreamOK(MarkIdle(f.stream))
                   BY <1>12, MarkIdleOK DEF StreamOK
             <3>3. g \in ClientType /\ SameBooks(c, g) /\ SameLine(c, g) /\ PipelineOK(g)
                   BY <3>1, <3>2, <1>8, <1>11 DEF ClientType, SameBooks, SameLine, PipelineOK, Ids
             <3>4. g.stream = MarkIdle(f.stream) /\ g.pipeline = f.pipeline /\ g.requests = f.requests
                   BY <3>1, <1>8 DEF ClientType
             <3>5. /\ (IsOpen(g.stream) <=> IsOpen(c.stream))
                   /\ IsStarted(g.stream) <=> IsStarted(c.stream)
                   BY <3>4, <1>12 DEF MarkIdle, IsStarted, IsOpen
             <3>6. g.stream.idle => c.handshake
                   <4>1. IsOpen(c.stream) => c.handshake
                         BY <1>14, <2>1 DEF LinkOK, IsOpen, IsStarted
                   <4>2. g.stream.idle => IsOpen(g.stream)
                         BY <3>2, <3>4 DEF StreamOK
                   <4> QED
                       BY <4>1, <4>2, <3>5
             <3> HIDE DEF g
             <3> QED
                 BY <2>1, <3>2, <3>3, <3>4, <3>5, <3>6
       <2>2. CASE ~idle
             <3>1. g = f
                   BY <2>2
             <3>2. f.stream.idle => c.handshake /\ c.pipeline = <<>>
                   BY <1>12 DEF LinkOK
             <3>3. f.stream.idle => f.pipeline = <<>>
                   <4> SUFFICES ASSUME f.stream.idle PROVE f.pipeline = <<>>
                       OBVIOUS
                   <4>1. ~sent /\ c.stream.idle
                         BY <1>12
                   <4>2. Settling(c)
                         BY <4>1, <1>1 DEF StreamOK, LinkOK, Settling
                   <4> QED
                       BY <4>1, <4>2, <3>2, <1>14
             <3> QED
                 BY <3>1, <3>2, <3>3, <1>8, <1>11, <1>12
       <2> QED
           BY <2>1, <2>2
<1> HIDE DEF g
<1>16. /\ d \in ClientType /\ SameBooks(g, d) /\ SameLine(g, d) /\ StreamOK(d.stream)
       /\ d.pipeline = g.pipeline /\ d.requests = g.requests
       /\ IsOpen(d.stream) <=> IsOpen(g.stream)
       /\ d.stream.idle => g.stream.idle
       /\ IsStarted(d.stream) => IsStarted(g.stream) \/ (g.network /\ g.pipeline # <<>>)
       <2>1. CASE ShouldStartWriteStream(g)
             <3>1. d = [g EXCEPT !.stream = Start(g.stream)]
                   BY <2>1, <1>9, <1>15 DEF StartIfNeeded, ClientType
             <3>2. StreamOK(Start(g.stream)) /\ ~IsOpen(Start(g.stream)) /\ ~IsOpen(g.stream)
                   BY <2>1, <1>15, StartOK DEF ShouldStartWriteStream, IsStarted, IsOpen
             <3>3. /\ d \in ClientType /\ SameBooks(g, d) /\ SameLine(g, d)
                   /\ d.pipeline = g.pipeline /\ d.requests = g.requests
                   /\ d.stream = Start(g.stream)
                   BY <3>1, <3>2, <1>15 DEF ClientType, SameBooks, SameLine, StreamOK
             <3>4. ~d.stream.idle
                   BY <3>2, <3>3 DEF StreamOK
             <3> QED
                 BY <2>1, <3>2, <3>3, <3>4 DEF ShouldStartWriteStream
       <2>2. CASE ~ShouldStartWriteStream(g)
             BY <2>2, <1>9, <1>15 DEF StartIfNeeded, SameBooks, SameLine
       <2> QED
           BY <2>1, <2>2
<1>17. SameBooks(c, d) /\ SameLine(c, d) /\ d.pipeline = f.pipeline /\ d.requests = f.requests
       BY <1>15, <1>16 DEF SameBooks, SameLine
<1>18. LinkOK(d)
       <2>1. PipelineOK(d)
             BY <1>15, <1>16 DEF PipelineOK, SameBooks, Ids
       <2>2. IsStarted(d.stream) =>
               d.network /\ (d.pipeline # <<>> \/ (IsOpen(d.stream) /\ d.handshake))
             <3>1. IsStarted(c.stream) =>
                     c.network /\ (d.pipeline # <<>> \/ (IsOpen(c.stream) /\ c.handshake))
                   BY <1>14, <1>17 DEF LinkOK
             <3>2. d.network = c.network /\ d.handshake = c.handshake /\ g.network = c.network
                   BY <1>15, <1>17 DEF SameLine
             <3> QED
                 BY <3>1, <3>2, <1>15, <1>16
       <2>3. ~d.network => d.pipeline = <<>>
             BY <1>13, <1>17 DEF SameLine
       <2>4. d.stream.idle => d.handshake /\ d.pipeline = <<>>
             BY <1>15, <1>16 DEF SameLine
       <2> QED
           BY <2>1, <2>2, <2>3, <2>4, <1>16 DEF LinkOK
<1>19. ASSUME Settling(c)
       PROVE  /\ Len(d.requests) = Len(c.requests) + m
              /\ \A i \in 1 .. Len(c.requests) : d.requests[i] = c.requests[i]
              /\ \A i \in 1 .. m : d.requests[Len(c.requests) + i] = batches[i].write
       <2>1. c.requests \in Seq(RequestType) /\ Len(c.requests) \in Nat
             BY <1>1 DEF ClientType
       <2>2. CASE batches = <<>>
             <3>1. m = 0
                   BY <2>2, <1>7
             <3> QED
                 BY <2>1, <2>2, <3>1, <1>8, <1>17
       <2>3. CASE batches # <<>>
             <3>1. d.requests = c.requests \o writes
                   BY <2>3, <1>8, <1>17, <1>19
             <3>2. writes \in Seq(RequestType) /\ Len(writes) = m /\ \A i \in 1 .. m : writes[i] = batches[i].write
                   <4>1. \A i \in 1 .. m : batches[i] \in BatchType
                         BY <1>7
                   <4>2. writes \in [1 .. m -> RequestType]
                         BY <4>1, <1>7 DEF BatchType, RequestType
                   <4>3. \A i \in 1 .. m : writes[i] = batches[i].write
                         BY <1>7
                   <4> HIDE DEF writes
                   <4> QED
                       BY <4>2, <4>3, <1>5
             <3> HIDE DEF writes
             <3>3. /\ Len(d.requests) = Len(c.requests) + m
                   /\ \A i \in 1 .. Len(c.requests) + m :
                        d.requests[i] = IF i <= Len(c.requests) THEN c.requests[i]
                                        ELSE writes[i - Len(c.requests)]
                   <4> DEFINE before == c.requests
                   <4> HIDE DEF before
                   <4>1. before \in Seq(RequestType) /\ writes \in Seq(RequestType)
                         BY <2>1, <3>2 DEF before
                   <4>2. /\ Len(before \o writes) = Len(before) + Len(writes)
                         /\ \A i \in 1 .. Len(before) + Len(writes) :
                              (before \o writes)[i] = IF i <= Len(before) THEN before[i]
                                                      ELSE writes[i - Len(before)]
                         BY <4>1, ConcatProperties
                   <4> QED
                       BY <3>1, <3>2, <4>2 DEF before
             <3>4. \A i \in 1 .. m : d.requests[Len(c.requests) + i] = writes[i]
                   <4> TAKE i \in 1 .. m
                   <4>1. /\ Len(c.requests) + i \in 1 .. Len(c.requests) + m
                         /\ ~(Len(c.requests) + i <= Len(c.requests))
                         /\ (Len(c.requests) + i) - Len(c.requests) = i
                         BY <2>1, <1>5
                   <4> QED
                       BY <3>3, <4>1
             <3>5. \A i \in 1 .. Len(c.requests) : d.requests[i] = c.requests[i]
                   <4> TAKE i \in 1 .. Len(c.requests)
                   <4>1. i \in 1 .. Len(c.requests) + m /\ i <= Len(c.requests)
                         BY <2>1, <1>5
                   <4> QED
                       BY <3>3, <4>1
             <3> HIDE DEF batches
             <3> QED
                 BY <3>2, <3>3, <3>4, <3>5
       <2> QED
           BY <2>2, <2>3
<1>20. Len(d.pipeline) - n = m /\ \A i \in 1 .. m : d.pipeline[n + i] = batches[i]
       BY <1>2, <1>5, <1>10, <1>17
<1>21. ~Settling(c) => d.requests = c.requests
       BY <1>8, <1>17
<1>22. n <= Len(d.pipeline) /\ \A i \in 1 .. n : d.pipeline[i] = c.pipeline[i]
       BY <1>2, <1>5, <1>10, <1>17
<1>23. IsOpen(d.stream) <=> IsOpen(c.stream)
       BY <1>15, <1>16
<1>24. Settling(c) => Len(d.requests) = Len(c.requests) + Len(d.pipeline) - n
       <2>1. Len(c.requests) \in Nat
             BY <1>1 DEF ClientType
       <2> QED
           BY <2>1, <1>2, <1>5, <1>19, <1>20
<1> HIDE DEF n
<1> QED
    BY <1>17, <1>18, <1>19, <1>20, <1>21, <1>22, <1>23, <1>24 DEF d, n

-----------------------------------------------------------------------------
(* Closing the stream and coming back.                                     *)

\* The stream is not open, and the handshake forgotten.
AtRest(c) == LinkOK(c) /\ ~IsOpen(c.stream) /\ ~c.handshake

SameSent(c, d) == d.requests = c.requests /\ d.session = c.session

LEMMA StartAtRest ==
  ASSUME NEW c \in ClientType, StreamOK(c.stream), PipelineOK(c), ~IsStarted(c.stream)
  PROVE  LET d == StartIfNeeded(c)
         IN  /\ d \in ClientType /\ StreamOK(d.stream) /\ ~IsOpen(d.stream) /\ PipelineOK(d)
             /\ IsStarted(d.stream) => c.network /\ c.pipeline # <<>>
             /\ SameBooks(c, d) /\ SameLine(c, d)
             /\ d.pipeline = c.pipeline /\ d.requests = c.requests
<1> DEFINE d == StartIfNeeded(c)
<1>1. ~IsOpen(c.stream)
      BY DEF IsStarted, IsOpen
<1>2. CASE ShouldStartWriteStream(c)
      <2>1. d = [c EXCEPT !.stream = Start(c.stream)]
            BY <1>2 DEF StartIfNeeded, ClientType
      <2>2. StreamOK(Start(c.stream)) /\ ~IsOpen(Start(c.stream))
            BY StartOK
      <2>3. /\ d \in ClientType /\ d.stream = Start(c.stream) /\ SameBooks(c, d) /\ SameLine(c, d)
            /\ d.pipeline = c.pipeline /\ d.requests = c.requests
            BY <2>1, <2>2 DEF StreamOK, ClientType, SameBooks, SameLine
      <2> HIDE DEF d
      <2> QED
          BY <1>2, <2>2, <2>3 DEF ShouldStartWriteStream, PipelineOK, SameBooks, Ids, d
<1>3. CASE ~ShouldStartWriteStream(c)
      BY <1>1, <1>3 DEF StartIfNeeded, SameBooks, SameLine
<1> QED
    BY <1>2, <1>3

\* A close that settles no write changes nothing the user or the server sees.
LEMMA CloseEffect ==
  ASSUME NEW c \in ClientType, c.stream.sound, IsStarted(c.stream), PipelineOK(c),
         c.network \/ c.pipeline = <<>>,
         NEW status \in Faults, status = "ok" => c.pipeline = <<>>,
         status = "permanent" => c.pipeline = <<>> \/ ~c.handshake
  PROVE  LET d == Close(c, status)
         IN  AtRest(d) /\ SameBooks(c, d) /\ SameSent(c, d)
<1> DEFINE s == Closed(c.stream, status = "ok")
           x == [c EXCEPT !.stream = s]
           checked == [x EXCEPT !.stream =
                         HardAssert(@, status = "ok" => ~ShouldStartWriteStream(x))]
           y == CASE status = "ok" \/ x.pipeline = <<>> -> checked
                  [] OTHER -> IF x.handshake
                              THEN HandleWriteError(checked, status)
                              ELSE HandleHandshakeError(checked, status)
           z == StartIfNeeded(y)
           d == Close(c, status)
<1>1. StreamOK(s) /\ ~IsStarted(s)
      <2>1. c.stream \in StreamType /\ (status = "ok") \in BOOLEAN
            BY DEF ClientType
      <2> QED
          BY <2>1, ClosedOK
<1>2. /\ x \in ClientType /\ x.stream = s /\ SameBooks(c, x) /\ SameLine(c, x)
      /\ x.pipeline = c.pipeline /\ x.requests = c.requests /\ x.tokens = c.tokens
      BY <1>1 DEF ClientType, SameBooks, SameLine, StreamOK
<1>3. checked = x
      <2>1. status = "ok" => ~ShouldStartWriteStream(x)
            BY <1>2 DEF ShouldStartWriteStream
      <2>2. HardAssert(x.stream, status = "ok" => ~ShouldStartWriteStream(x)) = x.stream
            BY <1>1, <1>2, <2>1 DEF HardAssert, StreamOK, StreamType
      <2>3. checked = [x EXCEPT !.stream = HardAssert(x.stream, status = "ok" => ~ShouldStartWriteStream(x))]
            BY <1>2 DEF ClientType
      <2> HIDE DEF x
      <2> QED
          BY <1>2, <2>2, <2>3 DEF ClientType
<1>4. y = x \/ y = [x EXCEPT !.token = Nothing, !.tokens = x.tokens \ {x.user}]
      <2> HIDE DEF x, checked
      <2>1. status \notin {"ok", "permanent"} => HandleWriteError(x, status) = x
            BY DEF HandleWriteError, IsPermanentWriteError
      <2>2. HandleHandshakeError(x, status) \in {x, [x EXCEPT !.token = Nothing, !.tokens = x.tokens \ {x.user}]}
            BY <1>2 DEF HandleHandshakeError, ClientType
      <2> QED
          BY <1>2, <1>3, <2>1, <2>2 DEF SameLine
<1> HIDE DEF x, checked, y
<1>5. /\ y \in ClientType /\ y.stream = s /\ SameBooks(c, y) /\ SameSent(c, y)
      /\ y.pipeline = c.pipeline /\ y.network = c.network
      <2>1. CASE y = x
            BY <1>2, <2>1 DEF SameLine, SameSent
      <2>2. CASE y = [x EXCEPT !.token = Nothing, !.tokens = x.tokens \ {x.user}]
            <3>1. y \in ClientType
                  BY <1>2, <2>2 DEF ClientType
            <3>2. /\ y.queue = x.queue /\ y.user = x.user /\ y.nextId = x.nextId
                  /\ y.callbacks = x.callbacks /\ y.outcome = x.outcome
                  /\ y.stream = x.stream /\ y.pipeline = x.pipeline /\ y.network = x.network
                  /\ y.requests = x.requests /\ y.session = x.session
                  BY <1>2, <2>2 DEF ClientType
            <3> QED
                BY <1>2, <3>1, <3>2 DEF SameBooks, SameLine, SameSent
      <2> QED
          BY <1>4, <2>1, <2>2
<1> HIDE DEF s
<1>6. PipelineOK(y)
      BY <1>5 DEF PipelineOK, SameBooks, Ids
<1>7. /\ z \in ClientType /\ StreamOK(z.stream) /\ ~IsOpen(z.stream) /\ PipelineOK(z)
      /\ IsStarted(z.stream) => z.network /\ z.pipeline # <<>>
      /\ SameBooks(c, z) /\ SameSent(c, z) /\ z.pipeline = c.pipeline /\ z.network = c.network
      BY <1>1, <1>5, <1>6, StartAtRest DEF SameBooks, SameLine, SameSent
<1>8. d = [z EXCEPT !.handshake = FALSE]
      BY DEF Close, OnWriteStreamClose, z, y, checked, x, s
<1> HIDE DEF z
<1>9. /\ d \in ClientType /\ d.stream = z.stream /\ ~d.handshake /\ SameBooks(z, d)
      /\ d.pipeline = z.pipeline /\ d.network = z.network /\ SameSent(z, d)
      BY <1>7, <1>8 DEF ClientType, SameBooks, SameSent
<1> HIDE DEF d
<1>10. SameBooks(c, d) /\ SameSent(c, d)
       BY <1>7, <1>9 DEF SameBooks, SameSent
<1>11. PipelineOK(d)
       BY <1>7, <1>9 DEF PipelineOK, SameBooks, Ids
<1>12. AtRest(d)
       BY <1>7, <1>9, <1>11 DEF AtRest, LinkOK, StreamOK
<1> QED
    BY <1>10, <1>12 DEF d

LEMMA DisableEffect ==
  ASSUME NEW c \in ClientType, StreamOK(c.stream), c.handshake => IsOpen(c.stream)
  PROVE  LET d == DisableNetwork(c)
         IN  /\ AtRest(d) /\ SameBooks(c, d) /\ SameSent(c, d)
             /\ ~IsStarted(d.stream) /\ d.pipeline = <<>>
<1> DEFINE x == [c EXCEPT !.network = FALSE]
           s == Closed(x.stream, TRUE)
           y == [x EXCEPT !.stream = s]
           stopped == Stop(x)
           d == DisableNetwork(c)
<1>1. /\ x \in ClientType /\ x.stream = c.stream /\ ~x.network /\ SameBooks(c, x) /\ SameSent(c, x)
      /\ x.handshake = c.handshake
      BY DEF ClientType, SameBooks, SameSent
<1>2. d = [stopped EXCEPT !.pipeline = <<>>]
      BY DEF DisableNetwork
<1> HIDE DEF x, d
<1>3. /\ stopped \in ClientType /\ StreamOK(stopped.stream) /\ ~IsStarted(stopped.stream)
      /\ ~stopped.handshake /\ SameBooks(c, stopped) /\ SameSent(c, stopped)
      <2>1. CASE ~IsStarted(x.stream)
            BY <2>1, <1>1 DEF Stop, IsStarted, IsOpen
      <2>2. CASE IsStarted(x.stream)
            <3>1. StreamOK(s) /\ ~IsStarted(s)
                  BY <2>2, <1>1, ClosedOK DEF StreamOK
            <3>2. /\ y \in ClientType /\ y.stream = s /\ ~y.network /\ SameBooks(c, y)
                  /\ SameSent(c, y)
                  BY <3>1, <1>1 DEF ClientType, SameBooks, SameSent, StreamOK
            <3>3. HardAssert(y.stream, ~ShouldStartWriteStream(y)) = y.stream
                  BY <3>1, <3>2 DEF ShouldStartWriteStream, HardAssert, StreamOK, StreamType
            <3>4. OnWriteStreamClose(y, "ok") = y
                  <4> HIDE DEF y
                  <4>1. [y EXCEPT !.stream = HardAssert(@, "ok" = "ok" => ~ShouldStartWriteStream(y))] = y
                        BY <3>2, <3>3 DEF ClientType
                  <4>2. StartIfNeeded(y) = y
                        BY <3>2 DEF StartIfNeeded, ShouldStartWriteStream
                  <4> QED
                      BY <4>1, <4>2 DEF OnWriteStreamClose
            <3>5. stopped = [y EXCEPT !.handshake = FALSE]
                  <4>1. stopped = Close(x, "ok")
                        BY <2>2 DEF Stop
                  <4>2. y = [x EXCEPT !.stream = Closed(@, "ok" = "ok")]
                        BY <1>1 DEF ClientType
                  <4> HIDE DEF y, stopped
                  <4> QED
                      BY <3>4, <4>1, <4>2 DEF Close
            <3> HIDE DEF y, stopped, s
            <3> QED
                BY <3>1, <3>2, <3>5 DEF ClientType, SameBooks, SameSent
      <2> QED
          BY <2>1, <2>2
<1>4. stopped.network = FALSE
      <2>1. CASE ~IsStarted(x.stream)
            BY <2>1, <1>1 DEF Stop
      <2>2. CASE IsStarted(x.stream)
            <3> HIDE DEF stopped
            <3>1. [y EXCEPT !.stream = HardAssert(@, "ok" = "ok" => ~ShouldStartWriteStream(y))].network = FALSE
                  BY <1>1 DEF ClientType
            <3>2. OnWriteStreamClose(y, "ok").network = FALSE
                  BY <3>1 DEF OnWriteStreamClose, StartIfNeeded, ShouldStartWriteStream
            <3>3. stopped = [OnWriteStreamClose(y, "ok") EXCEPT !.handshake = FALSE]
                  <4>1. stopped = Close(x, "ok")
                        BY <2>2 DEF Stop, stopped
                  <4>2. y = [x EXCEPT !.stream = Closed(@, "ok" = "ok")]
                        BY <1>1 DEF ClientType
                  <4> HIDE DEF y
                  <4> QED
                      BY <4>1, <4>2 DEF Close
            <3> QED
                BY <3>2, <3>3
      <2> QED
          BY <2>1, <2>2
<1> HIDE DEF stopped
<1>5. /\ d \in ClientType /\ d.stream = stopped.stream /\ ~d.handshake /\ ~d.network
      /\ d.pipeline = <<>> /\ SameBooks(c, d) /\ SameSent(c, d)
      <2>1. <<>> \in Seq(BatchType)
            BY EmptySeq
      <2>2. d \in ClientType
            BY <1>2, <1>3, <2>1 DEF ClientType
      <2> QED
          BY <1>2, <1>3, <1>4, <2>2 DEF ClientType, SameBooks, SameSent
<1> HIDE DEF d
<1>6. PipelineOK(d)
      BY <1>5, PipelineAssumption DEF PipelineOK
<1>7. AtRest(d)
      BY <1>3, <1>5, <1>6 DEF AtRest, LinkOK, StreamOK, IsStarted, IsOpen
<1> QED
    BY <1>3, <1>5, <1>7 DEF d

LEMMA EnableEffect ==
  ASSUME NEW c \in ClientType, StreamOK(c.stream), ~IsStarted(c.stream),
         c.pipeline = <<>>, ~c.handshake
  PROVE  LET d == EnableNetwork(c)
         IN  AtRest(d) /\ SameBooks(c, d) /\ SameSent(c, d)
<1> DEFINE x == [c EXCEPT !.network = TRUE,
                          !.token = IF c.user \in c.tokens THEN c.user ELSE Nothing]
<1>1. /\ x \in ClientType /\ x.stream = c.stream /\ x.pipeline = <<>> /\ ~x.handshake
      /\ x.network /\ SameBooks(c, x) /\ SameSent(c, x)
      BY DEF ClientType, SameBooks, SameSent
<1>2. EnableNetwork(c) = FillWritePipeline(x)
      BY DEF EnableNetwork
<1> HIDE DEF x
<1>3. PipelineOK(x)
      BY <1>1, PipelineAssumption DEF PipelineOK
<1>4. LinkOK(x) /\ ~IsOpen(x.stream)
      BY <1>1, <1>3 DEF LinkOK, StreamOK, IsStarted, IsOpen
<1> DEFINE d == FillWritePipeline(x)
<1>5. /\ LinkOK(d) /\ ~IsOpen(d.stream) /\ SameBooks(x, d) /\ SameLine(x, d)
      /\ d.requests = x.requests
      BY <1>4, FillEffect DEF Settling
<1> HIDE DEF d
<1>6. AtRest(d) /\ SameBooks(c, d) /\ SameSent(c, d)
      BY <1>1, <1>5 DEF AtRest, SameBooks, SameLine, SameSent
<1> QED
    BY <1>2, <1>6 DEF d

LEMMA RestartEffect ==
  ASSUME NEW c \in ClientType, StreamOK(c.stream), c.handshake => IsOpen(c.stream)
  PROVE  LET d == RestartNetwork(c)
         IN  AtRest(d) /\ SameBooks(c, d) /\ SameSent(c, d)
<1> DEFINE x == DisableNetwork(c)
           y == [x EXCEPT !.stream = InhibitBackoff(x.stream)]
           d == EnableNetwork(y)
<1>1. /\ AtRest(x) /\ SameBooks(c, x) /\ SameSent(c, x)
      /\ ~IsStarted(x.stream) /\ x.pipeline = <<>>
      BY DisableEffect
<1> HIDE DEF x
<1>2. StreamOK(InhibitBackoff(x.stream)) /\ ~IsStarted(InhibitBackoff(x.stream))
      BY <1>1, InhibitOK DEF AtRest, LinkOK
<1>3. /\ y \in ClientType /\ StreamOK(y.stream) /\ ~IsStarted(y.stream) /\ y.pipeline = <<>>
      /\ ~y.handshake /\ SameBooks(x, y) /\ SameSent(x, y)
      BY <1>1, <1>2 DEF AtRest, LinkOK, StreamOK, ClientType, SameBooks, SameSent
<1>4. RestartNetwork(c) = d
      <2>1. x \in ClientType
            BY <1>1 DEF AtRest, LinkOK
      <2>2. [x EXCEPT !.stream = InhibitBackoff(@)] = y
            BY <2>1 DEF ClientType
      <2> HIDE DEF y
      <2> QED
          BY <2>2 DEF RestartNetwork, x
<1> HIDE DEF y
<1>5. AtRest(d) /\ SameBooks(y, d) /\ SameSent(y, d)
      BY <1>3, EnableEffect
<1> HIDE DEF d
<1>6. SameBooks(c, d) /\ SameSent(c, d)
      BY <1>1, <1>3, <1>5 DEF SameBooks, SameSent
<1> QED
    BY <1>4, <1>5, <1>6

-----------------------------------------------------------------------------
(* Batch ids.                                                              *)

\* The writes the app has made so far.
Made(c) == {w \in Writes : c.outcome[w] # "unwritten"}

\* No batch id is above the number of writes, and the current user's batches are
\* below the next one.
IdsOK(c) ==
  /\ c.nextId \in 1 .. Cardinality(Made(c)) + 1
  /\ \A u \in Users : Ids(c, u) \subseteq 1 .. Cardinality(Made(c))
  /\ \A id \in Ids(c, c.user) : id < c.nextId

LEMMA MadeIsFinite ==
  \A c : IsFiniteSet(Made(c)) /\ Cardinality(Made(c)) \in Nat
           /\ Cardinality(Made(c)) <= Cardinality(Writes) /\ Cardinality(Writes) \in Nat
<1> TAKE c
<1>1. Made(c) \in SUBSET Writes
      BY DEF Made
<1> QED
    BY <1>1, WritesAssumption, FS_Subset, FS_CardinalityType

\* The largest of finitely many ids.
LEMMA MaxIsLargest ==
  ASSUME NEW ids \in FiniteIds, ids # {}
  PROVE  Max(ids) \in ids /\ \A id \in ids : id <= Max(ids)
<1>1. IsFiniteSet(ids) /\ Cardinality(ids) \in Nat /\ Cardinality(ids) # 0 /\ ids \subseteq Nat
      BY FS_CardinalityType, FS_EmptySet DEF FiniteIds
<1>2. PICK m \in ids : Place(ids, m) = Cardinality(ids)
      BY <1>1, PlaceIsTaken
<1>3. \A id \in ids : m >= id
      <2> TAKE id \in ids
      <2>1. Place(ids, id) <= Place(ids, m)
            BY <1>2, PlaceInRange
      <2>2. id <= m
            BY <2>1, PlaceOrders
      <2> QED
          BY <1>1, <2>2
<1>4. Max(ids) \in ids /\ \A id \in ids : Max(ids) >= id
      BY <1>2, <1>3 DEF Max
<1> QED
    BY <1>1, <1>4

\* The next batch id is above every batch on disk.
LEMMA NextIdIsAbove ==
  ASSUME NEW c \in ClientType, NEW n \in Nat, \A u \in Users : Ids(c, u) \subseteq 1 .. n
  PROVE  /\ NextBatchId(c.queue) \in 1 .. n + 1
         /\ \A u \in Users : \A id \in Ids(c, u) : id < NextBatchId(c.queue)
<1> DEFINE all == {0} \union UNION {DOMAIN c.queue[u] : u \in Users}
<1>1. all \subseteq 0 .. n
      BY DEF Ids
<1>2. IsFiniteSet(0 .. n)
      BY FS_Interval
<1>3. all \in FiniteIds /\ all # {}
      BY <1>1, <1>2, FS_Subset DEF FiniteIds
<1>4. \A u \in Users : Ids(c, u) \subseteq all
      BY DEF Ids
<1>5. NextBatchId(c.queue) = 1 + Max(all)
      BY DEF NextBatchId
<1> HIDE DEF all
<1>6. Max(all) \in 0 .. n /\ \A id \in all : id <= Max(all)
      BY <1>1, <1>3, MaxIsLargest
<1> QED
    <2>1. NextBatchId(c.queue) \in 1 .. n + 1
          BY <1>5, <1>6
    <2>2. ASSUME NEW u \in Users, NEW id \in Ids(c, u) PROVE id < NextBatchId(c.queue)
          <3>1. id \in all /\ id \in 0 .. n
                BY <1>1, <1>4
          <3> QED
              BY <3>1, <1>5, <1>6
    <2> QED
        BY <2>1, <2>2

\* A change of user moves the client to another queue and another next id.
LEMMA CredentialEffect ==
  ASSUME NEW c, LinkOK(c), IdsOK(c), c.handshake => IsOpen(c.stream), NEW u \in Users
  PROVE  LET d == HandleCredentialChange(c, u)
         IN  /\ AtRest(d) /\ SameSent(c, d) /\ IdsOK(d) /\ d.queue = c.queue
             /\ d.callbacks = c.callbacks /\ d.outcome = c.outcome
<1> DEFINE next == NextBatchId(c.queue)
           x == IF u = c.user THEN c ELSE [c EXCEPT !.user = u, !.nextId = next]
           d == HandleCredentialChange(c, u)
           n == Cardinality(Made(c))
<1>1. c \in ClientType /\ n \in Nat
      BY MadeIsFinite DEF LinkOK
<1>2. next \in 1 .. n + 1 /\ \A v \in Users : \A id \in Ids(c, v) : id < next
      BY <1>1, NextIdIsAbove DEF IdsOK
<1>3. /\ x \in ClientType /\ x.queue = c.queue /\ x.callbacks = c.callbacks
      /\ x.outcome = c.outcome /\ SameSent(c, x) /\ x.stream = c.stream
      /\ x.handshake = c.handshake /\ x.network = c.network /\ x.pipeline = c.pipeline
      /\ x.user = u /\ x.nextId = IF u = c.user THEN c.nextId ELSE next
      <2> HIDE DEF next
      <2>1. next \in Nat
            BY <1>1, <1>2
      <2> QED
          BY <1>1, <2>1 DEF ClientType, SameSent
<1>4. d = IF c.network THEN RestartNetwork(x) ELSE x
      BY DEF HandleCredentialChange
<1> HIDE DEF x, d, next
<1>5. IdsOK(x)
      <2>1. Made(x) = Made(c) /\ \A v \in Users : Ids(x, v) = Ids(c, v)
            BY <1>3 DEF Made, Ids
      <2> QED
          BY <1>2, <1>3, <2>1 DEF IdsOK
<1>6. AtRest(d) /\ SameBooks(x, d) /\ SameSent(x, d)
      <2>1. CASE c.network
            <3>1. StreamOK(x.stream) /\ (x.handshake => IsOpen(x.stream))
                  BY <1>3 DEF LinkOK
            <3> QED
                BY <2>1, <3>1, <1>3, <1>4, RestartEffect
      <2>2. CASE ~c.network
            <3>1. x.pipeline = <<>> /\ ~IsStarted(c.stream) /\ StreamOK(c.stream)
                  BY <2>2, <1>3 DEF LinkOK
            <3>2. PipelineOK(x)
                  BY <3>1, PipelineAssumption DEF PipelineOK
            <3>3. AtRest(x)
                  BY <3>1, <3>2, <1>3 DEF AtRest, LinkOK, StreamOK, IsStarted, IsOpen
            <3> QED
                BY <2>2, <3>3, <1>4 DEF SameBooks, SameSent
      <2> QED
          BY <2>1, <2>2
<1>7. IdsOK(d)
      <2>1. Made(x) = Made(d) /\ \A v \in Users : Ids(x, v) = Ids(d, v)
            BY <1>6 DEF Made, Ids, SameBooks
      <2> QED
          BY <1>3, <1>5, <1>6, <2>1 DEF IdsOK, SameBooks
<1> QED
    BY <1>3, <1>6, <1>7 DEF SameBooks, SameSent, d

-----------------------------------------------------------------------------
(* Settling the first batch of the pipeline.                               *)

\* The batch leaves the queue, and whoever waits for it is answered.
SettledBooks(c, d, id, answer) ==
  /\ d.user = c.user /\ d.nextId = c.nextId
  /\ d.queue = [c.queue EXCEPT ![c.user] = Restrict(c.queue[c.user], Ids(c, c.user) \ {id})]
  /\ IF id \in DOMAIN c.callbacks[c.user]
     THEN /\ d.outcome = [c.outcome EXCEPT ![c.callbacks[c.user][id]] = answer]
          /\ d.callbacks = [c.callbacks EXCEPT ![c.user] =
               Restrict(c.callbacks[c.user], DOMAIN c.callbacks[c.user] \ {id})]
     ELSE d.outcome = c.outcome /\ d.callbacks = c.callbacks

LEMMA NotifyEffect ==
  ASSUME NEW c \in ClientType, NEW batch \in BatchType, NEW answer \in Outcomes
  PROVE  LET d == NotifyUser(c, batch, answer)
         IN  /\ d \in ClientType /\ SameLine(c, d) /\ d.stream = c.stream
             /\ d.user = c.user /\ d.nextId = c.nextId /\ d.queue = c.queue
             /\ d.pipeline = c.pipeline /\ d.requests = c.requests
             /\ IF batch.id \in DOMAIN c.callbacks[c.user]
                THEN /\ d.outcome = [c.outcome EXCEPT ![c.callbacks[c.user][batch.id]] = answer]
                     /\ d.callbacks = [c.callbacks EXCEPT ![c.user] =
                          Restrict(c.callbacks[c.user], DOMAIN c.callbacks[c.user] \ {batch.id})]
                ELSE d.outcome = c.outcome /\ d.callbacks = c.callbacks
<1> DEFINE callbacks == c.callbacks[c.user]
           rest == Restrict(callbacks, DOMAIN callbacks \ {batch.id})
           d == NotifyUser(c, batch, answer)
<1>1. callbacks \in Queues
      BY DEF ClientType
<1>2. rest \in Queues
      BY <1>1, QueueRemoved
<1>3. CASE batch.id \in DOMAIN callbacks
      <2>1. callbacks[batch.id] \in Writes
            BY <1>1, <1>3, QueueHasDomain
      <2>2. d = [c EXCEPT !.outcome = [c.outcome EXCEPT ![callbacks[batch.id]] = answer],
                          !.callbacks = [c.callbacks EXCEPT ![c.user] = rest]]
            BY <1>3 DEF NotifyUser, ClientType
      <2> HIDE DEF rest, d
      <2>3. /\ [c.callbacks EXCEPT ![c.user] = rest] \in [Users -> Queues]
            /\ [c.outcome EXCEPT ![callbacks[batch.id]] = answer] \in [Writes -> Outcomes]
            BY <1>2 DEF ClientType
      <2>4. d \in ClientType
            BY <2>2, <2>3 DEF ClientType
      <2> QED
          BY <1>3, <2>2, <2>4 DEF ClientType, SameLine, rest, d
<1>4. CASE batch.id \notin DOMAIN callbacks
      BY <1>4 DEF NotifyUser, SameLine
<1> QED
    BY <1>3, <1>4

LEMMA RemoveEffect ==
  ASSUME NEW c \in ClientType, NEW batch \in BatchType, batch.id \in Ids(c, c.user)
  PROVE  LET d == RemoveBatch(c, batch)
         IN  /\ d \in ClientType /\ SameLine(c, d) /\ d.stream = c.stream
             /\ d.user = c.user /\ d.nextId = c.nextId
             /\ d.queue = [c.queue EXCEPT ![c.user] =
                             Restrict(c.queue[c.user], Ids(c, c.user) \ {batch.id})]
             /\ d.pipeline = c.pipeline /\ d.requests = c.requests
             /\ d.outcome = c.outcome /\ d.callbacks = c.callbacks
<1> DEFINE rest == Restrict(c.queue[c.user], Ids(c, c.user) \ {batch.id})
           d == RemoveBatch(c, batch)
<1>1. rest \in Queues
      BY QueueRemoved DEF Ids, ClientType
<1>2. HardAssert(c.stream, batch.id \in DOMAIN c.queue[c.user]) = c.stream
      BY DEF HardAssert, ClientType, StreamType, Ids
<1>3. d = [c EXCEPT !.queue = [c.queue EXCEPT ![c.user] = rest]]
      BY <1>2 DEF RemoveBatch, ClientType, Ids
<1> HIDE DEF rest, d
<1>4. [c.queue EXCEPT ![c.user] = rest] \in [Users -> Queues]
      BY <1>1 DEF ClientType
<1>5. d \in ClientType
      BY <1>3, <1>4 DEF ClientType
<1> QED
    BY <1>3, <1>5 DEF ClientType, SameLine, rest, d

\* The batches behind the settled one move up, in the pipeline as in the queue.
LEMMA SettleHead ==
  ASSUME NEW c \in ClientType, PipelineOK(c), c.pipeline # <<>>,
         NEW p \in ClientType, SameBooks(c, p), p.pipeline = Tail(c.pipeline),
         NEW h, NEW answer,
         \/ h = HandleSuccessfulWrite(p, Head(c.pipeline)) /\ answer = "ok"
         \/ h = HandleRejectedWrite(p, Head(c.pipeline)) /\ answer = "failed"
  PROVE  /\ h \in ClientType /\ PipelineOK(h) /\ SameLine(p, h) /\ h.stream = p.stream
         /\ h.pipeline = p.pipeline /\ h.requests = p.requests
         /\ SettledBooks(c, h, Head(c.pipeline).id, answer)
<1> DEFINE head == Head(c.pipeline)
           ids == Ids(c, c.user)
           q == c.queue[c.user]
<1>1. /\ c.pipeline \in Seq(BatchType) /\ Len(c.pipeline) \in Nat /\ 1 <= Len(c.pipeline)
      /\ head = c.pipeline[1] /\ head \in BatchType
      BY DEF ClientType
<1>2. /\ head.id \in ids /\ head.write = q[head.id]
      /\ Place(ids, head.id) = 1
      BY <1>1 DEF PipelineOK
<1>3. c.user \in Users /\ q \in Queues /\ ids \in FiniteIds /\ answer \in Outcomes
      BY QueueOfUser DEF Outcomes, ClientType
<1>4. /\ p.queue = c.queue /\ p.user = c.user /\ p.nextId = c.nextId /\ p.outcome = c.outcome
      /\ p.callbacks = c.callbacks
      /\ Ids(p, p.user) = ids
      BY DEF SameBooks, Ids
<1> HIDE DEF head, ids, q
<1>5. /\ h \in ClientType /\ SameLine(p, h) /\ h.stream = p.stream
      /\ h.pipeline = p.pipeline /\ h.requests = p.requests
      /\ SettledBooks(c, h, head.id, answer)
      <2>1. CASE h = HandleSuccessfulWrite(p, Head(c.pipeline)) /\ answer = "ok"
            <3> DEFINE n == NotifyUser(p, head, "ok")
            <3>1. /\ n \in ClientType /\ SameLine(p, n) /\ n.stream = p.stream
                  /\ n.user = p.user /\ n.nextId = p.nextId /\ n.queue = p.queue
                  /\ n.pipeline = p.pipeline /\ n.requests = p.requests
                  /\ IF head.id \in DOMAIN p.callbacks[p.user]
                     THEN /\ n.outcome = [p.outcome EXCEPT ![p.callbacks[p.user][head.id]] = "ok"]
                          /\ n.callbacks = [p.callbacks EXCEPT ![p.user] =
                               Restrict(p.callbacks[p.user], DOMAIN p.callbacks[p.user] \ {head.id})]
                     ELSE n.outcome = p.outcome /\ n.callbacks = p.callbacks
                  BY ZenonT(40), <1>1, NotifyEffect DEF Outcomes
            <3>2. h = RemoveBatch(n, head)
                  BY <2>1 DEF HandleSuccessfulWrite, head
            <3> HIDE DEF n
            <3>3. head.id \in Ids(n, n.user) /\ Ids(n, n.user) = ids
                  BY <1>2, <1>4, <3>1 DEF Ids
            <3>4. /\ h \in ClientType /\ SameLine(n, h) /\ h.stream = n.stream
                  /\ h.user = n.user /\ h.nextId = n.nextId
                  /\ h.queue = [n.queue EXCEPT ![n.user] =
                                  Restrict(n.queue[n.user], Ids(n, n.user) \ {head.id})]
                  /\ h.pipeline = n.pipeline /\ h.requests = n.requests
                  /\ h.outcome = n.outcome /\ h.callbacks = n.callbacks
                  BY <1>1, <3>1, <3>2, <3>3, RemoveEffect
            <3> QED
                BY <2>1, <1>4, <3>1, <3>3, <3>4 DEF SettledBooks, SameLine, ids
      <2>2. CASE h = HandleRejectedWrite(p, Head(c.pipeline)) /\ answer = "failed"
            <3> DEFINE n == RemoveBatch(p, head)
            <3>1. /\ n \in ClientType /\ SameLine(p, n) /\ n.stream = p.stream
                  /\ n.user = p.user /\ n.nextId = p.nextId
                  /\ n.queue = [p.queue EXCEPT ![p.user] =
                                  Restrict(p.queue[p.user], Ids(p, p.user) \ {head.id})]
                  /\ n.pipeline = p.pipeline /\ n.requests = p.requests
                  /\ n.outcome = p.outcome /\ n.callbacks = p.callbacks
                  BY <1>1, <1>2, <1>4, RemoveEffect
            <3>2. h = NotifyUser(n, head, "failed")
                  BY <2>2 DEF HandleRejectedWrite, head
            <3> HIDE DEF n
            <3>3. /\ h \in ClientType /\ SameLine(n, h) /\ h.stream = n.stream
                  /\ h.user = n.user /\ h.nextId = n.nextId /\ h.queue = n.queue
                  /\ h.pipeline = n.pipeline /\ h.requests = n.requests
                  /\ IF head.id \in DOMAIN n.callbacks[n.user]
                     THEN /\ h.outcome = [n.outcome EXCEPT ![n.callbacks[n.user][head.id]] = "failed"]
                          /\ h.callbacks = [n.callbacks EXCEPT ![n.user] =
                               Restrict(n.callbacks[n.user], DOMAIN n.callbacks[n.user] \ {head.id})]
                     ELSE h.outcome = n.outcome /\ h.callbacks = n.callbacks
                  <4>1. n \in ClientType /\ head \in BatchType /\ "failed" \in Outcomes
                        BY <1>1, <3>1 DEF Outcomes
                  <4> QED
                      BY <4>1, <3>2, NotifyEffect
            <3> QED
                BY <2>2, <1>4, <3>1, <3>3 DEF SettledBooks, SameLine, ids
      <2> QED
          BY <2>1, <2>2
<1>6. Ids(h, h.user) = ids \ {head.id} /\ \A id \in ids \ {head.id} : h.queue[h.user][id] = q[id]
      <2>1. h.queue[h.user] = Restrict(q, DOMAIN q \ {head.id}) /\ DOMAIN q = ids
            BY <1>3, <1>5 DEF SettledBooks, ClientType, q, ids, Ids
      <2> DEFINE r == Restrict(q, DOMAIN q \ {head.id})
      <2>2. DOMAIN r = DOMAIN q \ {head.id} /\ \A id \in DOMAIN q \ {head.id} : r[id] = q[id]
            BY <1>3, QueueRemoved
      <2> HIDE DEF r
      <2>3. h.queue[h.user] = r
            BY <2>1 DEF r
      <2> QED
          BY <2>1, <2>2, <2>3 DEF Ids
<1>7. PipelineOK(h)
      <2>1. /\ Len(h.pipeline) \in Nat /\ Len(h.pipeline) = Len(c.pipeline) - 1
            /\ \A i \in 1 .. Len(h.pipeline) : h.pipeline[i] = c.pipeline[i + 1]
            BY <1>1, <1>5, HeadTailProperties DEF ClientType
      <2>2. Len(h.pipeline) <= MaxPendingWrites
            BY <1>1, <2>1, PipelineAssumption DEF PipelineOK
      <2>3. ASSUME NEW i \in 1 .. Len(h.pipeline)
            PROVE  /\ h.pipeline[i].id \in Ids(h, h.user)
                   /\ h.pipeline[i].write = h.queue[h.user][h.pipeline[i].id]
                   /\ Place(Ids(h, h.user), h.pipeline[i].id) = i
            <3> DEFINE id == c.pipeline[i + 1].id
            <3>1. i + 1 \in 1 .. Len(c.pipeline) /\ i + 1 # 1 /\ (i + 1) - 1 = i
                  BY <1>1, <2>1
            <3>2. id \in ids /\ c.pipeline[i + 1].write = q[id] /\ Place(ids, id) = i + 1
                  BY <3>1 DEF PipelineOK, ids, q
            <3>3. id # head.id
                  BY <1>2, <3>1, <3>2
            <3> HIDE DEF id
            <3>4. Place(ids \ {head.id}, id) = i
                  BY ZenonT(40), <1>2, <1>3, <3>1, <3>2, <3>3, PlaceAfterOldest
            <3> QED
                BY <1>6, <2>1, <3>2, <3>3, <3>4 DEF id
      <2> QED
          BY <2>2, <2>3 DEF PipelineOK
<1> QED
    BY <1>5, <1>7 DEF head

-----------------------------------------------------------------------------
(* The tasks of the worker queue that do more than close or reconnect.     *)

\* The stream belongs to the current user, and the handshake to the stream.
ClientOK(c) ==
  /\ LinkOK(c)
  /\ c.handshake => IsOpen(c.stream) /\ c.token = c.session
  /\ IsOpen(c.stream) => c.session = c.user

\* The pipeline starts as it did from batch k on, and what was appended has been sent.
Extended(c, d, k) ==
  LET n == Len(c.pipeline) - k
      m == Len(c.requests)
  IN  /\ n <= Len(d.pipeline)
      /\ \A i \in 1 .. n : d.pipeline[i] = c.pipeline[i + k]
      /\ ~Settling(c) => d.requests = c.requests
      /\ Settling(c) =>
           /\ Len(d.requests) = m + Len(d.pipeline) - n
           /\ \A i \in 1 .. m : d.requests[i] = c.requests[i]
           /\ \A i \in 1 .. Len(d.pipeline) - n : d.requests[m + i] = d.pipeline[n + i].write

LEMMA AtRestIsOK == \A c : AtRest(c) => ClientOK(c)
BY DEF AtRest, ClientOK

LEMMA PipelineLength ==
  ASSUME NEW c \in ClientType
  PROVE  /\ c.pipeline \in Seq(BatchType) /\ Len(c.pipeline) \in Nat
         /\ c.pipeline = <<>> <=> Len(c.pipeline) = 0
         /\ \A i \in 1 .. Len(c.pipeline) : c.pipeline[i] \in BatchType
         /\ c.requests \in Seq(RequestType) /\ Len(c.requests) \in Nat
         /\ c.requests = <<>> <=> Len(c.requests) = 0
BY DEF ClientType

LEMMA HandshakeEffect ==
  ASSUME NEW c, ClientOK(c), IsOpen(c.stream), ~c.handshake
  PROVE  LET d == HandshakeComplete(c)
             n == Len(c.pipeline)
         IN  /\ ClientOK(d) /\ SameBooks(c, d) /\ d.handshake /\ d.session = c.session
             /\ d.pipeline = c.pipeline /\ IsOpen(d.stream)
             /\ Len(d.requests) = Len(c.requests) + n
             /\ \A i \in 1 .. Len(c.requests) : d.requests[i] = c.requests[i]
             /\ \A i \in 1 .. n : d.requests[Len(c.requests) + i] = c.pipeline[i].write
<1> DEFINE n == Len(c.pipeline)
           writes == [i \in DOMAIN c.pipeline |-> c.pipeline[i].write]
           sent == c.requests \o writes
           s == IF c.pipeline = <<>> THEN c.stream ELSE Written(c.stream)
           d == HandshakeComplete(c)
<1>1. c \in ClientType /\ StreamOK(c.stream) /\ c.network /\ c.pipeline # <<>> /\ c.session = c.user
      BY DEF ClientOK, LinkOK, IsStarted, IsOpen
<1>2. /\ c.pipeline \in Seq(BatchType) /\ n \in Nat /\ DOMAIN c.pipeline = 1 .. n
      /\ \A i \in 1 .. n : c.pipeline[i] \in BatchType
      /\ c.requests \in Seq(RequestType) /\ Len(c.requests) \in Nat
      BY <1>1, PipelineLength
<1>3. writes \in Seq(RequestType) /\ Len(writes) = n /\ \A i \in 1 .. n : writes[i] = c.pipeline[i].write
      <2>1. writes \in [1 .. n -> RequestType]
            BY <1>2 DEF BatchType, RequestType
      <2>2. \A i \in 1 .. n : writes[i] = c.pipeline[i].write
            BY <1>2
      <2> HIDE DEF writes
      <2> QED
          BY <1>2, <2>1, <2>2
<1>4. StreamOK(s) /\ IsOpen(s) /\ ~s.idle
      BY <1>1, WrittenOK
<1>5. d = [c EXCEPT !.handshake = TRUE, !.token = c.session, !.tokens = c.tokens \union {c.user},
                    !.stream = s, !.requests = sent]
      BY <1>1 DEF HandshakeComplete, ClientType
<1> HIDE DEF writes, s, d
<1>6. /\ sent \in Seq(RequestType) /\ Len(sent) = Len(c.requests) + n
      /\ \A i \in 1 .. Len(c.requests) + n :
           sent[i] = IF i <= Len(c.requests) THEN c.requests[i] ELSE writes[i - Len(c.requests)]
      <2> DEFINE before == c.requests
      <2> HIDE DEF before
      <2>1. before \in Seq(RequestType) /\ writes \in Seq(RequestType)
            BY <1>2, <1>3 DEF before
      <2>2. /\ before \o writes \in Seq(RequestType)
            /\ Len(before \o writes) = Len(before) + Len(writes)
            /\ \A i \in 1 .. Len(before) + Len(writes) :
                 (before \o writes)[i] = IF i <= Len(before) THEN before[i] ELSE writes[i - Len(before)]
            BY <2>1, ConcatProperties
      <2> QED
          BY <1>3, <2>2 DEF before
<1> HIDE DEF sent
<1>7. d \in ClientType
      BY <1>1, <1>4, <1>5, <1>6 DEF ClientType, StreamOK
<1>8. /\ d.handshake /\ d.token = c.session /\ d.stream = s /\ d.requests = sent
      /\ d.pipeline = c.pipeline /\ d.session = c.session /\ d.network = c.network
      /\ SameBooks(c, d)
      BY <1>1, <1>5 DEF ClientType, SameBooks
<1>9. PipelineOK(d)
      BY <1>8 DEF ClientOK, LinkOK, PipelineOK, SameBooks, Ids
<1>10. ClientOK(d)
       BY <1>1, <1>4, <1>7, <1>8, <1>9 DEF ClientOK, LinkOK, SameBooks
<1>11. n \in Nat /\ Len(c.requests) \in Nat
       BY <1>2
<1>12. /\ \A i \in 1 .. Len(c.requests) : sent[i] = c.requests[i]
       /\ \A i \in 1 .. n : sent[Len(c.requests) + i] = c.pipeline[i].write
       <2> HIDE DEF n
       <2>1. ASSUME NEW i \in 1 .. n PROVE sent[Len(c.requests) + i] = c.pipeline[i].write
             <3>1. /\ Len(c.requests) + i \in 1 .. Len(c.requests) + n
                   /\ ~(Len(c.requests) + i <= Len(c.requests))
                   /\ (Len(c.requests) + i) - Len(c.requests) = i
                   BY <1>11
             <3> QED
                 BY <1>3, <1>6, <3>1
       <2>2. \A i \in 1 .. Len(c.requests) : i \in 1 .. Len(c.requests) + n /\ i <= Len(c.requests)
             BY <1>11
       <2> QED
           BY <1>6, <2>1, <2>2
<1> QED
    BY <1>4, <1>6, <1>8, <1>10, <1>12 DEF d

LEMMA ResultEffect ==
  ASSUME NEW c, ClientOK(c), c.handshake, c.pipeline # <<>>
  PROVE  LET d == MutationResult(c)
         IN  /\ ClientOK(d) /\ d.handshake /\ d.session = c.session
             /\ SettledBooks(c, d, Head(c.pipeline).id, "ok")
             /\ Extended(c, d, 1)
<1> DEFINE p == [c EXCEPT !.pipeline = Tail(c.pipeline), !.token = c.session,
                          !.tokens = c.tokens \union {c.user}]
           h == HandleSuccessfulWrite(p, Head(c.pipeline))
           d == FillWritePipeline(h)
<1>1. /\ c \in ClientType /\ StreamOK(c.stream) /\ PipelineOK(c) /\ IsOpen(c.stream)
      /\ c.session = c.user /\ c.network /\ ~c.stream.idle
      BY DEF ClientOK, LinkOK, IsStarted, IsOpen
<1>2. MutationResult(c) = d
      BY <1>1 DEF MutationResult, ClientType
<1>3. /\ p \in ClientType /\ SameBooks(c, p) /\ p.pipeline = Tail(c.pipeline)
      /\ p.token = c.session /\ p.session = c.session /\ p.stream = c.stream
      /\ p.handshake /\ p.network /\ p.requests = c.requests
      <2>1. Tail(c.pipeline) \in Seq(BatchType)
            BY <1>1 DEF ClientType
      <2> QED
          BY <1>1, <2>1 DEF ClientType, SameBooks
<1> HIDE DEF p
<1>4. /\ h \in ClientType /\ PipelineOK(h) /\ SameLine(p, h) /\ h.stream = p.stream
      /\ h.pipeline = p.pipeline /\ h.requests = p.requests
      /\ SettledBooks(c, h, Head(c.pipeline).id, "ok")
      BY <1>1, <1>3, SettleHead
<1> HIDE DEF h
<1>5. LinkOK(h) /\ Settling(h)
      BY <1>1, <1>3, <1>4 DEF LinkOK, SameLine, Settling
<1>6. /\ LinkOK(d) /\ SameBooks(h, d) /\ SameLine(h, d) /\ IsOpen(d.stream)
      /\ Len(h.pipeline) <= Len(d.pipeline)
      /\ \A i \in 1 .. Len(h.pipeline) : d.pipeline[i] = h.pipeline[i]
      /\ Len(d.requests) = Len(h.requests) + Len(d.pipeline) - Len(h.pipeline)
      /\ \A i \in 1 .. Len(h.requests) : d.requests[i] = h.requests[i]
      /\ \A i \in 1 .. Len(d.pipeline) - Len(h.pipeline) :
           d.requests[Len(h.requests) + i] = d.pipeline[Len(h.pipeline) + i].write
      BY <1>5, FillEffect DEF Settling
<1> HIDE DEF d
<1>7. /\ Len(h.pipeline) = Len(c.pipeline) - 1 /\ Len(h.pipeline) \in Nat
      /\ \A i \in 1 .. Len(h.pipeline) : h.pipeline[i] = c.pipeline[i + 1]
      BY <1>1, <1>3, <1>4, HeadTailProperties, PipelineLength
<1>8. Extended(c, d, 1)
      <2>1. h.requests = c.requests /\ Settling(c)
            BY <1>1, <1>3, <1>4 DEF Settling
      <2> HIDE DEF h
      <2> QED
          BY <1>6, <1>7, <2>1 DEF Extended
<1>9. /\ ClientOK(d) /\ d.handshake /\ d.session = c.session
      /\ SettledBooks(c, d, Head(c.pipeline).id, "ok")
      BY SMTT(20), <1>1, <1>3, <1>4, <1>6 DEF ClientOK, SameBooks, SameLine, SettledBooks
<1> QED
    BY <1>2, <1>8, <1>9

LEMMA SettlingCloseEffect ==
  ASSUME NEW c, ClientOK(c), c.handshake, c.pipeline # <<>>
  PROVE  LET d == Close(c, "permanent")
         IN  /\ AtRest(d) /\ SameSent(c, d)
             /\ SettledBooks(c, d, Head(c.pipeline).id, "failed")
<1> DEFINE s == Closed(c.stream, "permanent" = "ok")
           x == [c EXCEPT !.stream = s]
           p == [x EXCEPT !.pipeline = Tail(x.pipeline), !.stream = InhibitBackoff(x.stream)]
           h == HandleRejectedWrite(p, Head(x.pipeline))
           f == FillWritePipeline(h)
           z == StartIfNeeded(f)
           d == Close(c, "permanent")
<1>1. /\ c \in ClientType /\ StreamOK(c.stream) /\ PipelineOK(c) /\ IsOpen(c.stream)
      /\ c.session = c.user /\ c.network /\ IsStarted(c.stream)
      BY DEF ClientOK, LinkOK, IsStarted, IsOpen
<1>2. StreamOK(s) /\ ~IsStarted(s)
      <2>1. ("permanent" = "ok") \in BOOLEAN
            OBVIOUS
      <2> QED
          BY <1>1, <2>1, ClosedOK DEF StreamOK
<1>3. /\ x \in ClientType /\ x.stream = s /\ SameBooks(c, x) /\ SameSent(c, x)
      /\ x.pipeline = c.pipeline /\ x.network /\ x.handshake
      BY <1>1, <1>2 DEF ClientType, SameBooks, SameSent, StreamOK
<1> HIDE DEF x, s
<1>4. HandleWriteError(x, "permanent") = f
      BY <1>3 DEF HandleWriteError, IsPermanentWriteError, ClientType
<1>5. StreamOK(InhibitBackoff(s)) /\ ~IsStarted(InhibitBackoff(s))
      BY <1>2, InhibitOK
<1>6. /\ p \in ClientType /\ SameBooks(c, p) /\ SameSent(c, p) /\ p.pipeline = Tail(c.pipeline)
      /\ p.stream = InhibitBackoff(s) /\ p.network
      <2>1. Tail(c.pipeline) \in Seq(BatchType)
            BY <1>1 DEF ClientType
      <2> QED
          BY <1>3, <1>5, <2>1 DEF ClientType, SameBooks, SameSent, StreamOK
<1> HIDE DEF p
<1>7. /\ h \in ClientType /\ PipelineOK(h) /\ SameLine(p, h) /\ h.stream = p.stream
      /\ h.pipeline = p.pipeline /\ h.requests = p.requests
      /\ SettledBooks(c, h, Head(c.pipeline).id, "failed")
      BY <1>1, <1>3, <1>6, SettleHead
<1> HIDE DEF h
<1>8. LinkOK(h) /\ ~IsOpen(h.stream)
      BY <1>5, <1>6, <1>7 DEF LinkOK, SameLine, StreamOK, IsStarted, IsOpen
<1>9. /\ LinkOK(f) /\ ~IsOpen(f.stream) /\ SameBooks(h, f) /\ SameLine(h, f)
      /\ f.requests = h.requests
      BY <1>8, FillEffect DEF Settling
<1> HIDE DEF f
<1>10. /\ LinkOK(z) /\ ~IsOpen(z.stream) /\ SameBooks(f, z) /\ SameSent(f, z)
       <2>1. CASE IsStarted(f.stream)
             BY <2>1, <1>9 DEF StartIfNeeded, ShouldStartWriteStream, SameBooks, SameSent
       <2>2. CASE ~IsStarted(f.stream)
             <3>1. /\ z \in ClientType /\ StreamOK(z.stream) /\ ~IsOpen(z.stream) /\ PipelineOK(z)
                   /\ IsStarted(z.stream) => f.network /\ f.pipeline # <<>>
                   /\ SameBooks(f, z) /\ SameLine(f, z)
                   /\ z.pipeline = f.pipeline /\ z.requests = f.requests
                   BY <2>2, <1>9, StartAtRest DEF LinkOK
             <3> HIDE DEF z
             <3> QED
                 BY <3>1, <1>9 DEF LinkOK, SameLine, SameSent, StreamOK
       <2> QED
           BY <2>1, <2>2
<1> HIDE DEF z
<1>11. d = [z EXCEPT !.handshake = FALSE]
       <2>1. [x EXCEPT !.stream = HardAssert(@, "permanent" = "ok" => ~ShouldStartWriteStream(x))] = x
             <3>1. HardAssert(x.stream, "permanent" = "ok" => ~ShouldStartWriteStream(x)) = x.stream
                   BY <1>3 DEF HardAssert, ClientType, StreamType
             <3> QED
                 BY <1>3, <3>1 DEF ClientType
       <2>2. OnWriteStreamClose(x, "permanent") = StartIfNeeded(HandleWriteError(x, "permanent"))
             BY <1>3, <2>1 DEF OnWriteStreamClose
       <2>3. [c EXCEPT !.stream = Closed(@, "permanent" = "ok")] = x
             BY <1>1 DEF ClientType, x, s
       <2> QED
           BY <2>2, <2>3, <1>4 DEF Close, z
<1> HIDE DEF d
<1>12. /\ d \in ClientType /\ d.stream = z.stream /\ ~d.handshake /\ SameBooks(z, d)
       /\ d.pipeline = z.pipeline /\ d.network = z.network /\ SameSent(z, d)
       BY <1>10, <1>11 DEF ClientType, SameBooks, SameSent, LinkOK
<1>13. PipelineOK(d)
       BY <1>10, <1>12 DEF LinkOK, PipelineOK, SameBooks, Ids
<1>14. AtRest(d)
       BY <1>10, <1>12, <1>13 DEF AtRest, LinkOK, StreamOK, IsOpen
<1>15. SameSent(c, d)
       BY <1>6, <1>7, <1>9, <1>10, <1>12 DEF SameSent, SameLine
<1>16. SettledBooks(c, d, Head(c.pipeline).id, "failed")
       BY <1>7, <1>9, <1>10, <1>12 DEF SettledBooks, SameBooks
<1> QED
    BY <1>14, <1>15, <1>16 DEF d

LEMMA RelaunchEffect ==
  ASSUME NEW c \in ClientType, IdsOK(c)
  PROVE  LET d == Relaunched(c)
         IN  /\ AtRest(d) /\ SameSent(c, d) /\ IdsOK(d)
             /\ d.queue = c.queue /\ d.user = c.user
             /\ d.callbacks = [u \in Users |-> NoBatches]
             /\ d.outcome = [w \in Writes |-> IF c.outcome[w] = "pending" THEN "forgotten"
                                                                         ELSE c.outcome[w]]
<1> DEFINE next == NextBatchId(c.queue)
           none == [u \in Users |-> NoBatches]
           told == [w \in Writes |-> IF c.outcome[w] = "pending" THEN "forgotten" ELSE c.outcome[w]]
           x == [c EXCEPT !.nextId = next, !.callbacks = none, !.pipeline = <<>>,
                          !.stream = NewStream, !.handshake = FALSE, !.outcome = told]
           n == Cardinality(Made(c))
           d == EnableNetwork(x)
<1>1. Relaunched(c) = d
      BY DEF Relaunched, ClientType
<1>2. n \in Nat /\ next \in 1 .. n + 1 /\ \A v \in Users : \A id \in Ids(c, v) : id < next
      BY MadeIsFinite, NextIdIsAbove DEF IdsOK
<1>3. none \in [Users -> Queues] /\ told \in [Writes -> Outcomes] /\ next \in Nat
      <2>1. none \in [Users -> Queues]
            BY NoBatchesIsQueue
      <2>2. told \in [Writes -> Outcomes]
            BY DEF ClientType, Outcomes
      <2>3. next \in Nat
            <3> HIDE DEF next
            <3> QED
                BY <1>2
      <2> QED
          BY <2>1, <2>2, <2>3
<1>4. \A w \in Writes : told[w] # "unwritten" <=> c.outcome[w] # "unwritten"
      OBVIOUS
<1> HIDE DEF next, none, told
<1>5. StreamOK(NewStream) /\ ~IsStarted(NewStream) /\ <<>> \in Seq(BatchType)
      BY NewStreamOK, EmptySeq
<1>6. x \in ClientType
      BY <1>3, <1>5 DEF ClientType, StreamOK
<1>7. /\ x.stream = NewStream /\ x.pipeline = <<>> /\ ~x.handshake /\ x.outcome = told
      /\ x.callbacks = none /\ x.queue = c.queue /\ x.user = c.user /\ x.nextId = next
      /\ SameSent(c, x)
      BY DEF ClientType, SameSent
<1> HIDE DEF x
<1>8. AtRest(d) /\ SameBooks(x, d) /\ SameSent(x, d)
      BY <1>5, <1>6, <1>7, EnableEffect
<1> HIDE DEF d
<1>9. Made(d) = Made(c)
      BY <1>4, <1>7, <1>8 DEF Made, SameBooks
<1>10. IdsOK(d)
       <2>1. \A u \in Users : Ids(d, u) = Ids(c, u)
             BY <1>7, <1>8 DEF Ids, SameBooks
       <2>2. d.user \in Users /\ d.nextId = next
             BY <1>7, <1>8 DEF SameBooks, ClientType
       <2> QED
           BY <1>2, <1>9, <2>1, <2>2 DEF IdsOK
<1> QED
    BY <1>1, <1>7, <1>8, <1>10 DEF SameBooks, SameSent, none, told

\* A write files its batch behind those of the user.
WrittenBooks(c, d, w) ==
  /\ d.user = c.user
  /\ d.queue = [c.queue EXCEPT ![c.user] = Put(c.queue[c.user], c.nextId, w)]
  /\ d.callbacks = [c.callbacks EXCEPT ![c.user] = Insert(c.callbacks[c.user], c.nextId, w)]
  /\ d.outcome = [c.outcome EXCEPT ![w] = "pending"]

LEMMA WriteEffect ==
  ASSUME NEW c, ClientOK(c), IdsOK(c), NEW w \in Writes, c.outcome[w] = "unwritten"
  PROVE  LET d == WriteMutations(c, w)
         IN  /\ ClientOK(d) /\ IdsOK(d) /\ WrittenBooks(c, d, w) /\ SameLine(c, d)
             /\ IsOpen(d.stream) <=> IsOpen(c.stream)
             /\ Extended(c, d, 0)
<1> DEFINE u == c.user
           new == c.nextId
           queue == [c.queue EXCEPT ![u] = Put(c.queue[u], new, w)]
           waiting == [c.callbacks EXCEPT ![u] = Insert(c.callbacks[u], new, w)]
           told == [c.outcome EXCEPT ![w] = "pending"]
           x == [c EXCEPT !.queue = queue, !.nextId = new + 1, !.callbacks = waiting,
                          !.outcome = told]
           d == FillWritePipeline(x)
           ids == Ids(c, u)
           n == Cardinality(Made(c))
<1>1. c \in ClientType /\ u \in Users /\ new \in Nat /\ n \in Nat /\ n + 1 \in Nat
      BY MadeIsFinite DEF ClientOK, LinkOK, ClientType
<1>2. WriteMutations(c, w) = d
      BY <1>1 DEF WriteMutations, ClientType
<1>3. ids \in FiniteIds /\ ids \subseteq Nat /\ \A id \in ids : id < new
      BY <1>1, QueueOfUser DEF IdsOK
<1>4. queue \in [Users -> Queues] /\ waiting \in [Users -> Queues] /\ told \in [Writes -> Outcomes]
      <2>1. c.queue \in [Users -> Queues] /\ c.callbacks \in [Users -> Queues]
            BY <1>1 DEF ClientType
      <2>2. Put(c.queue[u], new, w) \in Queues /\ Insert(c.callbacks[u], new, w) \in Queues
            BY <1>1, <2>1, QueueFiled
      <2> QED
          BY <1>1, <2>1, <2>2 DEF ClientType, Outcomes
<1>5. /\ DOMAIN queue[u] = ids \union {new}
      /\ \A id \in ids : queue[u][id] = c.queue[u][id]
      <2>1. c.queue \in [Users -> Queues] /\ c.queue[u] \in Queues /\ new \in Nat
            BY <1>1 DEF ClientType
      <2>2. /\ DOMAIN Put(c.queue[u], new, w) = DOMAIN c.queue[u] \union {new}
            /\ \A id \in DOMAIN c.queue[u] : id # new => Put(c.queue[u], new, w)[id] = c.queue[u][id]
            <3> DEFINE q == c.queue[u]
            <3> HIDE DEF q, new
            <3>1. q \in Queues /\ new \in Nat
                  BY <2>1 DEF q
            <3>2. DOMAIN Put(q, new, w) = DOMAIN q \union {new}
                  BY <3>1, QueueFiled
            <3>3. \A id \in DOMAIN q : id # new => Put(q, new, w)[id] = q[id]
                  BY <3>1 DEF Put
            <3> QED
                BY <3>2, <3>3 DEF q
      <2>3. queue[u] = Put(c.queue[u], new, w)
            BY <1>1, <2>1
      <2>4. \A id \in ids : id # new
            BY <1>1, <1>3
      <2> QED
          BY <2>2, <2>3, <2>4 DEF Ids
<1>6. \A v \in Users \ {u} : queue[v] = c.queue[v]
      BY <1>1 DEF ClientType
<1> HIDE DEF queue, waiting, told
<1>7. x \in ClientType
      <2>1. new + 1 \in Nat
            BY <1>1
      <2> HIDE DEF new
      <2>2. x = [c EXCEPT !.queue = queue, !.nextId = new + 1, !.callbacks = waiting, !.outcome = told]
            OBVIOUS
      <2> HIDE DEF x
      <2> QED
          BY <1>1, <1>4, <2>1, <2>2 DEF ClientType
<1>8. /\ x.queue = queue /\ x.user = u /\ x.nextId = new + 1 /\ x.callbacks = waiting
      /\ x.outcome = told /\ x.pipeline = c.pipeline /\ x.requests = c.requests
      /\ x.stream = c.stream /\ x.network = c.network /\ x.handshake = c.handshake
      /\ SameLine(c, x)
      BY <1>1 DEF ClientType, SameLine
<1> HIDE DEF x, d
<1>9. Made(x) = Made(c) \union {w} /\ w \notin Made(c)
      BY <1>1, <1>8 DEF Made, told, ClientType
<1>10. Cardinality(Made(x)) = n + 1
       BY <1>9, MadeIsFinite, FS_AddElement
<1>11. IdsOK(x)
       <2>1. /\ new \in 1 .. n + 1
             /\ \A v \in Users : Ids(c, v) \subseteq 1 .. n
             BY DEF IdsOK
       <2>2. x.nextId \in 1 .. Cardinality(Made(x)) + 1
             BY <1>1, <1>8, <1>10, <2>1
       <2>3. ASSUME NEW v \in Users PROVE Ids(x, v) \subseteq 1 .. n + 1
             <3>1. Ids(x, v) \subseteq Ids(c, v) \union {new}
                   BY <1>5, <1>6, <1>8 DEF Ids
             <3> QED
                 BY <1>1, <2>1, <3>1
       <2>4. \A id \in Ids(x, x.user) : id < x.nextId
             <3>1. Ids(x, x.user) = ids \union {new}
                   BY <1>5, <1>8 DEF Ids
             <3>2. \A id \in ids \union {new} : id < new + 1
                   BY <1>1, <1>3
             <3> QED
                 BY <1>8, <3>1, <3>2
       <2> QED
           BY <1>10, <2>2, <2>3, <2>4 DEF IdsOK
<1>12. PipelineOK(x)
       <2>1. PipelineOK(c)
             BY DEF ClientOK, LinkOK
       <2>2. \A id \in ids : Place(ids \union {new}, id) = Place(ids, id)
             BY <1>1, <1>3, PlaceOfNewest
       <2>3. Ids(x, x.user) = ids \union {new} /\ x.queue[x.user] = queue[u]
             BY <1>5, <1>8 DEF Ids
       <2> HIDE DEF ids
       <2>4. ASSUME NEW i \in 1 .. Len(x.pipeline)
             PROVE  /\ x.pipeline[i].id \in Ids(x, x.user)
                    /\ x.pipeline[i].write = x.queue[x.user][x.pipeline[i].id]
                    /\ Place(Ids(x, x.user), x.pipeline[i].id) = i
             <3>1. /\ x.pipeline[i].id \in ids /\ Place(ids, x.pipeline[i].id) = i
                   /\ x.pipeline[i].write = c.queue[u][x.pipeline[i].id]
                   BY <1>8, <2>1 DEF PipelineOK, ids
             <3> QED
                 BY <1>5, <2>2, <2>3, <3>1
       <2> QED
           BY <1>8, <2>1, <2>4 DEF PipelineOK
<1>13. LinkOK(x)
       BY <1>7, <1>8, <1>12 DEF ClientOK, LinkOK
<1> DEFINE m == Len(x.pipeline)
<1>14. /\ LinkOK(d) /\ SameBooks(x, d) /\ SameLine(x, d)
       /\ IsOpen(d.stream) <=> IsOpen(x.stream)
       /\ m <= Len(d.pipeline)
       /\ \A i \in 1 .. m : d.pipeline[i] = x.pipeline[i]
       /\ ~Settling(x) => d.requests = x.requests
       /\ Settling(x) =>
            /\ Len(d.requests) = Len(x.requests) + Len(d.pipeline) - m
            /\ \A i \in 1 .. Len(x.requests) : d.requests[i] = x.requests[i]
            /\ \A i \in 1 .. Len(d.pipeline) - m :
                 d.requests[Len(x.requests) + i] = d.pipeline[m + i].write
       BY <1>13, FillEffect DEF d
<1>15. Extended(c, d, 0)
       <2>1. Settling(x) = Settling(c) /\ x.requests = c.requests /\ x.pipeline = c.pipeline
             BY <1>8 DEF Settling
       <2>2. Len(c.pipeline) \in Nat /\ Len(c.pipeline) - 0 = m
             BY <1>1, <1>8, PipelineLength
       <2>3. \A i \in 1 .. m : i + 0 = i
             BY <1>8, <2>2
       <2>4. /\ m <= Len(d.pipeline)
             /\ \A i \in 1 .. m : d.pipeline[i] = c.pipeline[i + 0]
             BY <1>14, <2>1, <2>3
       <2> HIDE DEF m
       <2> QED
           BY <1>14, <2>1, <2>2, <2>4 DEF Extended
<1>16. ClientOK(d) /\ IdsOK(d) /\ WrittenBooks(c, d, w) /\ SameLine(c, d)
       <2>1. ClientOK(d) /\ SameLine(c, d)
             BY <1>8, <1>14 DEF ClientOK, SameBooks, SameLine
       <2>2. \A v \in Users : Ids(d, v) = Ids(x, v)
             BY <1>14 DEF Ids, SameBooks
       <2>3. Made(d) = Made(x) /\ d.nextId = x.nextId /\ d.user = x.user /\ x.user \in Users
             BY <1>1, <1>8, <1>14 DEF SameBooks, Made
       <2>4. IdsOK(d)
             BY <1>11, <2>2, <2>3 DEF IdsOK
       <2>5. WrittenBooks(c, d, w)
             BY <1>8, <1>14 DEF SameBooks, WrittenBooks, queue, waiting, told
       <2> QED
           BY <2>1, <2>4, <2>5
<1> QED
    BY <1>2, <1>8, <1>14, <1>15, <1>16

-----------------------------------------------------------------------------
(* The inductive invariant.  ClientOK and IdsOK are about the client alone. *)

\* A callback waits for the batch filed with it, and a batch is waited for as
\* long as the app has not been told.
CallbacksOK(c) ==
  \A u \in Users :
    /\ \A id \in DOMAIN c.callbacks[u] :
         id \in Ids(c, u) /\ c.callbacks[u][id] = c.queue[u][id]
    /\ \A id \in Ids(c, u) :
         id \in DOMAIN c.callbacks[u] <=> c.outcome[c.queue[u][id]] = "pending"

\* How many of a user's writes have left the queue.
Done(u) == Len(issued[u]) - Cardinality(Ids(client, u))

Over(w) == w \in Refused \union committed

\* The queues hold the last writes, in the order of the calls; the others are over.
LogOK ==
  /\ issued \in [Users -> Seq(Writes)] /\ committed \subseteq Writes
  /\ stored \in [Users -> Writes \union {Nothing}]
  /\ \A u \in Users : \A i \in 1 .. Len(issued[u]) : client.outcome[issued[u][i]] # "unwritten"
  /\ \A u, v \in Users : \A i \in 1 .. Len(issued[u]), j \in 1 .. Len(issued[v]) :
       issued[u][i] = issued[v][j] => u = v /\ i = j
  /\ \A u \in Users :
       /\ Done(u) >= 0
       /\ \A id \in Ids(client, u) :
            client.queue[u][id] = issued[u][Done(u) + Place(Ids(client, u), id)]
       /\ \A i \in 1 .. Done(u) : Over(issued[u][i])
       /\ stored[u] # Nothing => \E j \in 1 .. Len(issued[u]) : stored[u] = issued[u][j]

\* The requests not seen yet are the session's writes behind the p-th, those up to
\* there are over, and the last is the one at the end of the pipeline.
SentAfter(p) ==
  LET u == client.session
      n == Len(client.requests)
  IN  /\ Done(u) <= p /\ p + n <= Len(issued[u])
      /\ \A i \in 1 .. n : client.requests[i] = issued[u][p + i]
      /\ \A i \in 1 .. p : Over(issued[u][i])
      /\ client.handshake => p + n = Done(u) + Len(client.pipeline)

SentOK ==
  \/ client.requests = <<Handshake>> /\ ~client.handshake
  \/ /\ client.requests # <<>> /\ client.requests[1] = Ended
     /\ \A i \in 2 .. Len(client.requests) :
          \E j \in 1 .. Len(issued[client.session]) :
            client.requests[i] = issued[client.session][j]
  \/ \E p \in Nat : SentAfter(p)

\* Before the handshake is over, it is the only thing answered.
OpeningOK ==
  IsOpen(client.stream) /\ ~client.handshake =>
    /\ answers = <<>> \/ (answers = <<Handshake>> /\ client.requests = <<>>)
    /\ fault # "ok" => answers = <<>>
    /\ fault = "ok" /\ answers = <<>> => client.requests = <<Handshake>>

\* Then the answers are for the first batches of the pipeline, and the document holds
\* the last write answered or a later one; the server still has the rest to see, or
\* it has ended the stream over the first batch not answered.
AnswersOK ==
  LET u == client.user
      n == Len(answers)
  IN  client.handshake =>
        /\ n <= Len(client.pipeline)
        /\ \A i \in 1 .. n : /\ answers[i] = client.pipeline[i].write
                             /\ answers[i] \in committed \ Refused
        /\ n # 0 => \E j \in 1 .. Len(issued[u]) :
                      j >= Done(u) + n /\ stored[u] = issued[u][j]
        /\ fault = "ok" =>
             /\ n + Len(client.requests) = Len(client.pipeline)
             /\ client.requests # <<>> => client.requests[1] # Ended
        /\ fault = "permanent" =>
             n < Len(client.pipeline) /\ client.pipeline[n + 1].write \in Refused

FaultOK ==
  /\ answers \in Seq(Writes \union {Handshake}) /\ fault \in Faults
  /\ ~IsOpen(client.stream) => answers = <<>> /\ fault = "ok"
  /\ fault = "unavailable" => answers = <<>>
  /\ fault \in {"aborted", "permanent"} => client.requests # <<>> /\ client.requests[1] = Ended

ServerOK == SentOK /\ OpeningOK /\ AnswersOK /\ FaultOK

WInv == ClientOK(client) /\ IdsOK(client) /\ CallbacksOK(client) /\ LogOK /\ ServerOK

LEMMA LogTypes ==
  ASSUME client \in ClientType, LogOK, NEW u \in Users
  PROVE  /\ issued[u] \in Seq(Writes) /\ Len(issued[u]) \in Nat /\ Done(u) \in Nat
         /\ Done(u) + Cardinality(Ids(client, u)) = Len(issued[u])
         /\ \A i \in 1 .. Len(issued[u]) : issued[u][i] \in Writes
<1>1. issued[u] \in Seq(Writes) /\ Len(issued[u]) \in Nat /\ Done(u) >= 0
      BY DEF LogOK
<1>2. Cardinality(Ids(client, u)) \in Nat
      BY QueueOfUser
<1> QED
    BY <1>1, <1>2 DEF Done

\* The i-th batch of the pipeline is the i-th write not settled.
LEMMA PipelineIsNext ==
  ASSUME ClientOK(client), LogOK
  PROVE  /\ Done(client.user) + Len(client.pipeline) <= Len(issued[client.user])
         /\ \A i \in 1 .. Len(client.pipeline) :
              client.pipeline[i].write = issued[client.user][Done(client.user) + i]
<1> DEFINE u == client.user
           ids == Ids(client, u)
<1>1. client \in ClientType /\ u \in Users /\ PipelineOK(client) /\ Len(client.pipeline) \in Nat
      BY PipelineLength DEF ClientOK, LinkOK, ClientType
<1>2. Done(u) \in Nat /\ Done(u) + Cardinality(ids) = Len(issued[u]) /\ Cardinality(ids) \in Nat
      BY <1>1, LogTypes, QueueOfUser
<1>3. Len(client.pipeline) <= Cardinality(ids)
      BY <1>1, LaterPlaces
<1>4. \A i \in 1 .. Len(client.pipeline) : client.pipeline[i].write = issued[u][Done(u) + i]
      <2> TAKE i \in 1 .. Len(client.pipeline)
      <2>1. /\ client.pipeline[i].id \in ids
            /\ client.pipeline[i].write = client.queue[u][client.pipeline[i].id]
            /\ Place(ids, client.pipeline[i].id) = i
            BY <1>1 DEF PipelineOK
      <2> QED
          BY <1>1, <2>1 DEF LogOK
<1> QED
    BY <1>1, <1>2, <1>3, <1>4

\* Filing a write: its batch is the last in the queue, and nothing is settled.
LEMMA WrittenLog ==
  ASSUME client \in ClientType, IdsOK(client), CallbacksOK(client), LogOK,
         NEW w \in Writes, client.outcome[w] = "unwritten",
         WrittenBooks(client, client', w),
         issued' = [issued EXCEPT ![client.user] = Append(@, w)],
         UNCHANGED cloud
  PROVE  /\ CallbacksOK(client') /\ LogOK'
         /\ \A u \in Users : Done(u)' = Done(u)
<1> DEFINE v == client.user
           new == client.nextId
           ids == Ids(client, v)
<1>1. v \in Users /\ new \in Nat /\ ids \in FiniteIds /\ \A id \in ids : id < new
      BY QueueOfUser DEF IdsOK, ClientType
<1>2. new \notin ids /\ new \notin DOMAIN client.callbacks[v]
      <2>1. new \notin ids
            <3>1. ~(new < new)
                  BY <1>1
            <3> QED
                BY <1>1, <3>1
      <2> QED
          BY <1>1, <2>1 DEF CallbacksOK
<1>3. client.queue \in [Users -> Queues] /\ client.callbacks \in [Users -> Queues]
      BY DEF ClientType
<1>4. /\ Ids(client', v) = ids \union {new}
      /\ client'.queue[v][new] = w
      /\ \A id \in ids : client'.queue[v][id] = client.queue[v][id]
      <2> DEFINE q == client.queue[v]
      <2>1. client'.queue[v] = Put(q, new, w)
            BY <1>1, <1>3 DEF WrittenBooks
      <2> HIDE DEF q
      <2>2. DOMAIN Put(q, new, w) = DOMAIN q \union {new} /\ Put(q, new, w)[new] = w
            BY DEF Put
      <2>3. \A id \in DOMAIN q : id # new => Put(q, new, w)[id] = q[id]
            BY DEF Put
      <2> QED
          BY <1>2, <2>1, <2>2, <2>3 DEF Ids, q
<1>5. /\ DOMAIN client'.callbacks[v] = DOMAIN client.callbacks[v] \union {new}
      /\ client'.callbacks[v][new] = w
      /\ \A id \in DOMAIN client.callbacks[v] : client'.callbacks[v][id] = client.callbacks[v][id]
      <2> DEFINE q == client.callbacks[v]
      <2>1. client'.callbacks[v] = Insert(q, new, w)
            BY <1>1, <1>3 DEF WrittenBooks
      <2> HIDE DEF q
      <2>2. DOMAIN Insert(q, new, w) = DOMAIN q \union {new}
            BY DEF Insert
      <2>3. \A id \in DOMAIN q : Insert(q, new, w)[id] = q[id]
            BY DEF Insert
      <2>4. new \notin DOMAIN q => Insert(q, new, w)[new] = w
            BY DEF Insert
      <2> QED
          BY <1>2, <2>1, <2>2, <2>3, <2>4 DEF q
<1>6. \A u \in Users \ {v} : client'.queue[u] = client.queue[u]
                              /\ client'.callbacks[u] = client.callbacks[u]
                              /\ Ids(client', u) = Ids(client, u)
      BY <1>1, <1>3 DEF WrittenBooks, Ids
<1>7. /\ client'.outcome[w] = "pending"
      /\ \A x \in Writes \ {w} : client'.outcome[x] = client.outcome[x]
      BY DEF WrittenBooks, ClientType
<1>8. /\ \A u \in Users : issued'[u] \in Seq(Writes) /\ Len(issued[u]) \in Nat
      /\ Len(issued'[v]) = Len(issued[v]) + 1
      /\ \A i \in 1 .. Len(issued[v]) : issued'[v][i] = issued[v][i]
      /\ issued'[v][Len(issued[v]) + 1] = w
      /\ \A u \in Users \ {v} : issued'[u] = issued[u]
      /\ issued' \in [Users -> Seq(Writes)]
      <2>1. issued \in [Users -> Seq(Writes)] /\ issued[v] \in Seq(Writes)
            BY <1>1 DEF LogOK
      <2>2. issued'[v] = Append(issued[v], w) /\ \A u \in Users \ {v} : issued'[u] = issued[u]
            BY <1>1, <2>1
      <2> QED
          BY <1>1, <2>1, <2>2
<1>9. \A u \in Users : \A i \in 1 .. Len(issued[u]) : issued[u][i] # w /\ issued[u][i] \in Writes
      BY <1>8 DEF LogOK
<1>10. Cardinality(ids \union {new}) = Cardinality(ids) + 1 /\ Cardinality(ids) \in Nat
       BY <1>1, PlaceOfNewest, QueueOfUser
<1>11. \A u \in Users : Done(u)' = Done(u)
       <2> TAKE u \in Users
       <2>1. CASE u = v
             <3>1. Len(issued[v]) \in Nat /\ Cardinality(Ids(client, v)) \in Nat
                   BY <1>1, <1>8, <1>10
             <3>2. Cardinality(Ids(client', v)) = Cardinality(Ids(client, v)) + 1
                   BY <1>4, <1>10
             <3>3. Len(issued'[v]) = Len(issued[v]) + 1
                   BY <1>8
             <3> HIDE DEF v, ids
             <3> QED
                 BY <2>1, <3>1, <3>2, <3>3 DEF Done
       <2>2. CASE u # v
             BY <2>2, <1>6, <1>8 DEF Done
       <2> QED
           BY <2>1, <2>2
<1> HIDE DEF ids, new, v
<1>12. ASSUME NEW u \in Users, NEW id \in Ids(client, u)
       PROVE  client.queue[u][id] \in Writes /\ client.queue[u][id] # w
       <2>1. Ids(client, u) \in FiniteIds /\ client.queue[u][id] \in Writes
             BY QueueOfUser
       <2>2. Place(Ids(client, u), id) \in 1 .. Cardinality(Ids(client, u))
             BY <2>1, PlaceInRange
       <2>3. Done(u) \in Nat /\ Done(u) + Cardinality(Ids(client, u)) = Len(issued[u])
             BY LogTypes
       <2>4. Cardinality(Ids(client, u)) \in Nat
             BY QueueOfUser
       <2>5. Done(u) + Place(Ids(client, u), id) \in 1 .. Len(issued[u])
             BY <2>2, <2>3, <2>4
       <2>6. client.queue[u][id] = issued[u][Done(u) + Place(Ids(client, u), id)]
             BY DEF LogOK
       <2> QED
           BY <1>9, <2>1, <2>5, <2>6
<1>13. CallbacksOK(client')
       <2> SUFFICES ASSUME NEW u \in Users
                    PROVE  /\ \A id \in DOMAIN client'.callbacks[u] :
                                id \in Ids(client', u) /\ client'.callbacks[u][id] = client'.queue[u][id]
                           /\ \A id \in Ids(client', u) :
                                id \in DOMAIN client'.callbacks[u]
                                  <=> client'.outcome[client'.queue[u][id]] = "pending"
           BY DEF CallbacksOK
       <2>1. CASE u # v
             <3>1. \A id \in Ids(client, u) :
                     client'.outcome[client.queue[u][id]] = client.outcome[client.queue[u][id]]
                   BY <1>7, <1>12
             <3> QED
                 BY <2>1, <1>6, <3>1 DEF CallbacksOK
       <2>2. CASE u = v
             <3>1. \A id \in ids :
                     client'.outcome[client.queue[v][id]] = client.outcome[client.queue[v][id]]
                   BY <1>1, <1>7, <1>12 DEF ids
             <3>2. /\ \A id \in DOMAIN client.callbacks[v] :
                        id \in ids /\ client.callbacks[v][id] = client.queue[v][id]
                   /\ \A id \in ids :
                        id \in DOMAIN client.callbacks[v] <=> client.outcome[client.queue[v][id]] = "pending"
                   BY <1>1 DEF CallbacksOK, ids
             <3> QED
                 BY <2>2, <1>2, <1>4, <1>5, <1>7, <3>1, <3>2
       <2> QED
           BY <2>1, <2>2
<1>14. ASSUME NEW u \in Users
       PROVE  /\ \A i \in 1 .. Len(issued'[u]) : client'.outcome[issued'[u][i]] # "unwritten"
              /\ Done(u)' >= 0
              /\ \A id \in Ids(client', u) :
                   client'.queue[u][id] = issued'[u][Done(u)' + Place(Ids(client', u), id)]
              /\ \A i \in 1 .. Done(u)' : Over(issued[u][i])'
              /\ stored'[u] # Nothing => \E j \in 1 .. Len(issued'[u]) : stored'[u] = issued'[u][j]
       <2>1. /\ Done(u) \in Nat /\ Done(u) + Cardinality(Ids(client, u)) = Len(issued[u])
             /\ Cardinality(Ids(client, u)) \in Nat /\ Len(issued[u]) \in Nat
             BY LogTypes, QueueOfUser
       <2>2. \A i \in 1 .. Len(issued[u]) :
               /\ issued'[u][i] = issued[u][i]
               /\ client'.outcome[issued[u][i]] # "unwritten"
             BY SMTT(20), <1>7, <1>8, <1>9 DEF LogOK
       <2>3. \A i \in 1 .. Len(issued'[u]) : client'.outcome[issued'[u][i]] # "unwritten"
             <3>1. CASE u # v
                   BY <2>2, <3>1, <1>8
             <3>2. CASE u = v
                   <4>1. \A i \in 1 .. Len(issued'[v]) : i \in 1 .. Len(issued[v]) \/ i = Len(issued[v]) + 1
                         BY <1>8, <2>1, <3>2
                   <4> QED
                       BY <2>2, <3>2, <4>1, <1>7, <1>8
             <3> QED
                 BY <3>1, <3>2
       <2>4. \A id \in Ids(client, u) :
               /\ Done(u) + Place(Ids(client, u), id) \in 1 .. Len(issued[u])
               /\ client.queue[u][id] = issued[u][Done(u) + Place(Ids(client, u), id)]
             <3> TAKE id \in Ids(client, u)
             <3>1. Place(Ids(client, u), id) \in 1 .. Cardinality(Ids(client, u))
                   BY QueueOfUser, PlaceInRange
             <3> QED
                 BY <2>1, <3>1 DEF LogOK
       <2>5. \A id \in Ids(client', u) :
               client'.queue[u][id] = issued'[u][Done(u) + Place(Ids(client', u), id)]
             <3>1. CASE u # v
                   BY <3>1, <1>6, <1>8, <2>4
             <3>2. CASE u = v
                   <4>1. /\ Place(ids \union {new}, new) = Cardinality(ids) + 1
                         /\ \A id \in ids : Place(ids \union {new}, id) = Place(ids, id)
                         BY <1>1, PlaceOfNewest
                   <4>2. ASSUME NEW id \in ids
                         PROVE  client'.queue[v][id] = issued'[v][Done(v) + Place(ids \union {new}, id)]
                         <5>1. /\ Done(v) + Place(ids, id) \in 1 .. Len(issued[v])
                               /\ client.queue[v][id] = issued[v][Done(v) + Place(ids, id)]
                               BY <2>4, <3>2 DEF ids
                         <5> QED
                             BY <1>4, <1>8, <4>1, <5>1
                   <4>3. client'.queue[v][new] = issued'[v][Done(v) + Place(ids \union {new}, new)]
                         <5>1. Done(v) + (Cardinality(ids) + 1) = Len(issued[v]) + 1
                               BY <2>1, <3>2 DEF ids
                         <5> QED
                             BY <1>4, <1>8, <4>1, <5>1
                   <4> QED
                       BY <3>2, <1>4, <4>2, <4>3
             <3> QED
                 BY <3>1, <3>2
       <2>6. \A i \in 1 .. Done(u) : i \in 1 .. Len(issued[u]) /\ Over(issued[u][i])
             BY <2>1 DEF LogOK
       <2>7. \A i \in 1 .. Done(u)' : Over(issued[u][i])'
             BY <1>11, <2>2, <2>6 DEF Over, cloud
       <2>8. stored'[u] # Nothing => \E j \in 1 .. Len(issued'[u]) : stored'[u] = issued'[u][j]
             <3>1. 1 .. Len(issued[u]) \subseteq 1 .. Len(issued'[u])
                   BY <1>8, <2>1
             <3> QED
                 BY <2>2, <3>1 DEF LogOK, cloud
       <2>9. /\ Done(u)' >= 0
             /\ \A id \in Ids(client', u) :
                  client'.queue[u][id] = issued'[u][Done(u)' + Place(Ids(client', u), id)]
             <3>1. Done(u)' = Done(u) /\ Done(u) \in Nat
                   BY <1>11, <2>1
             <3>2. ASSUME NEW id \in Ids(client', u)
                   PROVE  client'.queue[u][id] = issued'[u][Done(u)' + Place(Ids(client', u), id)]
                   BY <2>5, <3>1
             <3>3. Done(u)' >= 0
                   BY <3>1
             <3> QED
                 BY <3>2, <3>3
       <2> QED
           BY <2>3, <2>7, <2>8, <2>9
<1>15. ASSUME NEW u \in Users, NEW x \in Users, NEW i \in 1 .. Len(issued'[u]),
              NEW j \in 1 .. Len(issued'[x]), issued'[u][i] = issued'[x][j]
       PROVE  u = x /\ i = j
       <2>1. \/ i \in 1 .. Len(issued[u]) /\ issued'[u][i] = issued[u][i] /\ issued'[u][i] # w
             \/ u = v /\ i = Len(issued[v]) + 1 /\ issued'[u][i] = w
             <3>1. CASE i \in 1 .. Len(issued[u])
                   <4>1. issued'[u][i] = issued[u][i]
                         BY <3>1, <1>8
                   <4>2. issued[u][i] # w
                         BY <3>1, <1>9
                   <4> QED
                       BY <3>1, <4>1, <4>2
             <3>2. CASE i \notin 1 .. Len(issued[u])
                   <4>1. u = v
                         BY <3>2, <1>8
                   <4>2. i = Len(issued[v]) + 1
                         BY <3>2, <4>1, <1>8
                   <4>3. issued'[v][Len(issued[v]) + 1] = w
                         BY <1>8
                   <4> QED
                       BY <4>1, <4>2, <4>3
             <3> QED
                 BY <3>1, <3>2
       <2>2. \/ j \in 1 .. Len(issued[x]) /\ issued'[x][j] = issued[x][j] /\ issued'[x][j] # w
             \/ x = v /\ j = Len(issued[v]) + 1 /\ issued'[x][j] = w
             <3>1. CASE j \in 1 .. Len(issued[x])
                   <4>1. issued'[x][j] = issued[x][j]
                         BY <3>1, <1>8
                   <4>2. issued[x][j] # w
                         BY <3>1, <1>9
                   <4> QED
                       BY <3>1, <4>1, <4>2
             <3>2. CASE j \notin 1 .. Len(issued[x])
                   <4>1. x = v
                         BY <3>2, <1>8
                   <4>2. j = Len(issued[v]) + 1
                         BY <3>2, <4>1, <1>8
                   <4>3. issued'[v][Len(issued[v]) + 1] = w
                         BY <1>8
                   <4> QED
                       BY <4>1, <4>2, <4>3
             <3> QED
                 BY <3>1, <3>2
       <2>3. CASE /\ i \in 1 .. Len(issued[u]) /\ issued'[u][i] = issued[u][i]
                  /\ j \in 1 .. Len(issued[x]) /\ issued'[x][j] = issued[x][j]
             BY <1>15, <2>3 DEF LogOK
       <2> QED
           BY <1>15, <2>1, <2>2, <2>3
<1> QED
    BY <1>8, <1>11, <1>13, <1>14, <1>15 DEF LogOK, cloud

\* A batch in a queue is one of the writes not settled, and no write is in two.
LEMMA QueuedOnce ==
  ASSUME client \in ClientType, LogOK, NEW u \in Users, NEW id \in Ids(client, u)
  PROVE  /\ Done(u) + Place(Ids(client, u), id) \in 1 .. Len(issued[u])
         /\ client.queue[u][id] = issued[u][Done(u) + Place(Ids(client, u), id)]
         /\ client.queue[u][id] \in Writes
         /\ \A v \in Users : \A other \in Ids(client, v) :
              client.queue[u][id] = client.queue[v][other] => u = v /\ id = other
<1>1. ASSUME NEW v \in Users, NEW x \in Ids(client, v)
      PROVE  /\ Done(v) \in Nat /\ Place(Ids(client, v), x) \in Nat
             /\ Done(v) + Place(Ids(client, v), x) \in 1 .. Len(issued[v])
             /\ client.queue[v][x] = issued[v][Done(v) + Place(Ids(client, v), x)]
             /\ client.queue[v][x] \in Writes
      <2>1. /\ Ids(client, v) \in FiniteIds /\ client.queue[v][x] \in Writes
            /\ Cardinality(Ids(client, v)) \in Nat
            BY QueueOfUser
      <2>2. Place(Ids(client, v), x) \in 1 .. Cardinality(Ids(client, v))
            BY <2>1, PlaceInRange
      <2>3. Done(v) \in Nat /\ Done(v) + Cardinality(Ids(client, v)) = Len(issued[v])
            BY LogTypes
      <2>4. client.queue[v][x] = issued[v][Done(v) + Place(Ids(client, v), x)]
            BY DEF LogOK
      <2> QED
          BY <2>1, <2>2, <2>3, <2>4
<1>2. ASSUME NEW v \in Users, NEW other \in Ids(client, v),
             client.queue[u][id] = client.queue[v][other]
      PROVE  u = v /\ id = other
      <2> DEFINE i == Done(u) + Place(Ids(client, u), id)
                 j == Done(v) + Place(Ids(client, v), other)
      <2>1. /\ i \in 1 .. Len(issued[u]) /\ j \in 1 .. Len(issued[v])
            /\ issued[u][i] = issued[v][j]
            BY <1>1, <1>2
      <2> HIDE DEF i, j
      <2>2. u = v /\ i = j
            BY <2>1 DEF LogOK
      <2>3. Place(Ids(client, u), id) = Place(Ids(client, u), other) /\ other \in Ids(client, u)
            BY <1>1, <2>2 DEF i, j
      <2> QED
          BY <2>2, <2>3, QueueOfUser, PlaceOrders
<1> QED
    BY <1>1, <1>2

\* The outcome of the write that leaves the queue.
Answered(c, d, w, answer) ==
  d.outcome = [c.outcome EXCEPT ![w] = IF @ = "pending" THEN answer ELSE @]

\* Settling the oldest batch of the current user: the next write is over.
LEMMA SettledLog ==
  ASSUME client \in ClientType, IdsOK(client), CallbacksOK(client), LogOK,
         NEW v \in Users, v = client.user,
         NEW id \in Ids(client, v), Place(Ids(client, v), id) = 1,
         Over(client.queue[v][id]),
         NEW answer \in {"ok", "failed"}, SettledBooks(client, client', id, answer),
         UNCHANGED <<issued, cloud>>
  PROVE  /\ IdsOK(client') /\ CallbacksOK(client') /\ LogOK'
         /\ Done(v)' = Done(v) + 1
         /\ \A u \in Users \ {v} : Done(u)' = Done(u)
         /\ Answered(client, client', client.queue[v][id], answer)
<1> DEFINE ids == Ids(client, v)
           w == client.queue[v][id]
<1>1. v \in Users /\ ids \in FiniteIds /\ Cardinality(ids) \in Nat /\ ids \subseteq Nat
      BY QueueOfUser DEF ClientType
<1>2. client.queue \in [Users -> Queues] /\ client.callbacks \in [Users -> Queues]
      BY DEF ClientType
<1>3. w \in Writes
      BY <1>1, QueueOfUser
<1>4. /\ Ids(client', v) = ids \ {id}
      /\ \A x \in ids \ {id} : client'.queue[v][x] = client.queue[v][x]
      <2> DEFINE q == client.queue[v]
                 r == Restrict(q, DOMAIN q \ {id})
      <2>1. client'.queue[v] = r
            BY <1>1, <1>2 DEF SettledBooks, Ids
      <2>2. q \in Queues
            BY <1>1, <1>2
      <2> HIDE DEF q
      <2>3. DOMAIN r = DOMAIN q \ {id} /\ \A x \in DOMAIN q \ {id} : r[x] = q[x]
            BY <2>2, QueueRemoved
      <2> HIDE DEF r
      <2> QED
          BY <2>1, <2>3 DEF Ids, q
<1>5. \A u \in Users \ {v} : client'.queue[u] = client.queue[u] /\ Ids(client', u) = Ids(client, u)
      BY <1>1, <1>2 DEF SettledBooks, Ids
<1>6. /\ DOMAIN client'.callbacks[v] = DOMAIN client.callbacks[v] \ {id}
      /\ \A x \in DOMAIN client.callbacks[v] \ {id} : client'.callbacks[v][x] = client.callbacks[v][x]
      /\ \A u \in Users \ {v} : client'.callbacks[u] = client.callbacks[u]
      <2>1. CASE id \in DOMAIN client.callbacks[v]
            <3> DEFINE q == client.callbacks[v]
                       r == Restrict(q, DOMAIN q \ {id})
            <3>1. client'.callbacks[v] = r /\ \A u \in Users \ {v} : client'.callbacks[u] = client.callbacks[u]
                  BY <1>1, <1>2, <2>1 DEF SettledBooks
            <3>2. q \in Queues
                  BY <1>1, <1>2
            <3> HIDE DEF q
            <3>3. DOMAIN r = DOMAIN q \ {id} /\ \A x \in DOMAIN q \ {id} : r[x] = q[x]
                  BY <3>2, QueueRemoved
            <3> HIDE DEF r
            <3> QED
                BY <3>1, <3>3 DEF q
      <2>2. CASE id \notin DOMAIN client.callbacks[v]
            BY <2>2 DEF SettledBooks
      <2> QED
          BY <2>1, <2>2
<1>7. /\ id \in DOMAIN client.callbacks[v] => client.callbacks[v][id] = w
      /\ id \in DOMAIN client.callbacks[v] <=> client.outcome[w] = "pending"
      BY <1>1 DEF CallbacksOK
<1>8. Answered(client, client', w, answer)
      <2>1. client.outcome \in [Writes -> Outcomes]
            BY DEF ClientType
      <2>2. CASE id \in DOMAIN client.callbacks[v]
            <3>1. client'.outcome = [client.outcome EXCEPT ![w] = answer]
                  BY <1>7, <2>2 DEF SettledBooks
            <3> QED
                BY <1>3, <1>7, <2>1, <2>2, <3>1 DEF Answered
      <2>3. CASE id \notin DOMAIN client.callbacks[v]
            <3>1. client'.outcome = client.outcome /\ client.outcome[w] # "pending"
                  BY <1>7, <2>3 DEF SettledBooks
            <3>2. [client.outcome EXCEPT ![w] = IF @ = "pending" THEN answer ELSE @] = client.outcome
                  BY <1>3, <2>1, <3>1
            <3> QED
                BY <3>1, <3>2 DEF Answered
      <2> QED
          BY <2>2, <2>3
<1>9. /\ \A x \in Writes \ {w} : client'.outcome[x] = client.outcome[x]
      /\ \A x \in Writes : client'.outcome[x] = "unwritten" <=> client.outcome[x] = "unwritten"
      BY <1>3, <1>8 DEF Answered, ClientType
<1>10. /\ ids \ {id} \in FiniteIds
       /\ Cardinality(ids \ {id}) = Cardinality(ids) - 1
       /\ \A x \in ids \ {id} : Place(ids \ {id}, x) = Place(ids, x) - 1
       BY <1>1, PlaceAfterOldest
<1>11. /\ Done(v)' = Done(v) + 1
       /\ \A u \in Users \ {v} : Done(u)' = Done(u)
       <2>1. Len(issued[v]) \in Nat
             BY <1>1, LogTypes
       <2>2. Cardinality(Ids(client', v)) = Cardinality(Ids(client, v)) - 1
             BY <1>4, <1>10
       <2>3. Done(v)' = Done(v) + 1
             <3> HIDE DEF ids
             <3> QED
                 BY <1>1, <2>1, <2>2 DEF Done, ids
       <2>4. \A u \in Users \ {v} : Done(u)' = Done(u)
             BY <1>5 DEF Done
       <2> QED
           BY <2>3, <2>4
<1> HIDE DEF ids, w
<1>12. IdsOK(client')
       <2>1. Made(client') = Made(client)
             BY <1>9 DEF Made
       <2>2. \A u \in Users : Ids(client', u) \subseteq Ids(client, u)
             BY <1>4, <1>5 DEF ids
       <2>3. client'.nextId = client.nextId /\ client'.user = client.user /\ client.user \in Users
             BY <1>1 DEF SettledBooks
       <2> QED
           BY <2>1, <2>2, <2>3 DEF IdsOK
<1>13. \A u \in Users : \A x \in Ids(client', u) :
         /\ x \in Ids(client, u) /\ client'.queue[u][x] = client.queue[u][x]
         /\ client.queue[u][x] \in Writes /\ client.queue[u][x] # w
       <2> TAKE u \in Users
       <2> TAKE x \in Ids(client', u)
       <2>1. /\ x \in Ids(client, u) /\ client'.queue[u][x] = client.queue[u][x]
             /\ ~(u = v /\ x = id)
             BY <1>4, <1>5 DEF ids
       <2>2. client.queue[u][x] \in Writes /\ client.queue[u][x] # w
             BY <1>1, <2>1, QueuedOnce DEF w, ids
       <2> QED
           BY <2>1, <2>2
<1>14. CallbacksOK(client')
       <2> SUFFICES ASSUME NEW u \in Users
                    PROVE  /\ \A x \in DOMAIN client'.callbacks[u] :
                                x \in Ids(client', u) /\ client'.callbacks[u][x] = client'.queue[u][x]
                           /\ \A x \in Ids(client', u) :
                                x \in DOMAIN client'.callbacks[u]
                                  <=> client'.outcome[client'.queue[u][x]] = "pending"
           BY DEF CallbacksOK
       <2>1. /\ \A x \in DOMAIN client.callbacks[u] :
                  x \in Ids(client, u) /\ client.callbacks[u][x] = client.queue[u][x]
             /\ \A x \in Ids(client, u) :
                  x \in DOMAIN client.callbacks[u] <=> client.outcome[client.queue[u][x]] = "pending"
             BY DEF CallbacksOK
       <2>2. \A x \in Ids(client', u) :
               client'.outcome[client'.queue[u][x]] = client.outcome[client.queue[u][x]]
             BY <1>9, <1>13
       <2>3. CASE u = v
             BY <2>1, <2>2, <2>3, <1>4, <1>6, <1>13 DEF ids
       <2>4. CASE u # v
             BY <2>1, <2>2, <2>4, <1>5, <1>6
       <2> QED
           BY <2>3, <2>4
<1>15. ASSUME NEW u \in Users
       PROVE  /\ \A i \in 1 .. Len(issued'[u]) : client'.outcome[issued'[u][i]] # "unwritten"
              /\ Done(u)' >= 0
              /\ \A x \in Ids(client', u) :
                   client'.queue[u][x] = issued'[u][Done(u)' + Place(Ids(client', u), x)]
              /\ \A i \in 1 .. Done(u)' : Over(issued[u][i])'
       <2>1. /\ Done(u) \in Nat /\ Len(issued[u]) \in Nat /\ issued' = issued
             /\ \A i \in 1 .. Len(issued[u]) : issued[u][i] \in Writes
             BY LogTypes
       <2>2. \A i \in 1 .. Len(issued'[u]) : client'.outcome[issued'[u][i]] # "unwritten"
             BY <2>1, <1>9 DEF LogOK
       <2>3. Done(u)' \in Nat
             BY <1>11, <2>1
       <2>4. ASSUME NEW x \in Ids(client', u)
             PROVE  client'.queue[u][x] = issued'[u][Done(u)' + Place(Ids(client', u), x)]
             <3>1. client'.queue[u][x] = issued[u][Done(u) + Place(Ids(client, u), x)]
                   BY <1>13, QueuedOnce
             <3>2. Done(u) + Place(Ids(client, u), x) = Done(u)' + Place(Ids(client', u), x)
                   <4>1. CASE u # v
                         BY <4>1, <1>5, <1>11
                   <4>2. CASE u = v
                         <5>1. Place(ids, x) \in 1 .. Cardinality(ids) /\ x \in ids \ {id}
                               BY <4>2, <1>1, <1>4, PlaceInRange
                         <5>2. Place(ids \ {id}, x) = Place(ids, x) - 1
                               BY <1>10, <5>1
                         <5>3. Done(v)' = Done(v) + 1 /\ Done(v) \in Nat
                               BY <1>11, <2>1, <4>2
                         <5>4. Done(v) + Place(ids, x) = Done(v)' + Place(ids \ {id}, x)
                               BY <1>1, <5>1, <5>2, <5>3
                         <5> QED
                             BY <4>2, <1>4, <5>4 DEF ids
                   <4> QED
                       BY <4>1, <4>2
             <3> QED
                 BY <2>1, <3>1, <3>2
       <2>5. ASSUME NEW i \in 1 .. Done(u)' PROVE Over(issued[u][i])'
             <3>1. i \in 1 .. Done(u) \/ (u = v /\ i = Done(v) + 1)
                   <4>1. CASE u # v
                         BY <4>1, <1>11
                   <4>2. CASE u = v
                         BY <4>2, <1>11, <2>1
                   <4> QED
                       BY <4>1, <4>2
             <3>2. CASE i \in 1 .. Done(u)
                   BY <3>2, <2>1 DEF LogOK, Over, cloud
             <3>3. CASE u = v /\ i = Done(v) + 1
                   <4>1. w = issued[v][Done(v) + 1]
                         BY <1>1, QueuedOnce DEF w, ids
                   <4>2. Over(w)
                         BY DEF w
                   <4> QED
                       BY <3>3, <4>1, <4>2, <2>1 DEF Over, cloud
             <3> QED
                 BY <3>1, <3>2, <3>3
       <2>6. Done(u)' >= 0
             BY <2>3
       <2> QED
           BY <2>2, <2>4, <2>5, <2>6
<1>16. LogOK'
       <2>1. issued' = issued /\ committed' = committed /\ stored' = stored
             BY DEF cloud
       <2> QED
           BY <1>15, <2>1 DEF LogOK
<1> QED
    BY <1>8, <1>11, <1>12, <1>14, <1>16 DEF w

-----------------------------------------------------------------------------
(* The steps that end with the stream not open and settle nothing.         *)

LEMMA SameBooksOK ==
  ASSUME NEW c \in ClientType, NEW d, SameBooks(c, d), IdsOK(c), CallbacksOK(c)
  PROVE  IdsOK(d) /\ CallbacksOK(d)
<1>1. Made(d) = Made(c) /\ \A u \in Users : Ids(d, u) = Ids(c, u)
      BY DEF SameBooks, Made, Ids
<1>2. d.user \in Users
      BY DEF SameBooks, ClientType
<1>3. IdsOK(d)
      BY <1>1, <1>2 DEF SameBooks, IdsOK
<1>4. CallbacksOK(d)
      BY <1>1 DEF SameBooks, CallbacksOK
<1> QED
    BY <1>3, <1>4

LEMMA SameLog ==
  ASSUME LogOK, client'.queue = client.queue,
         \A w \in Writes : client.outcome[w] # "unwritten" => client'.outcome[w] # "unwritten",
         UNCHANGED <<issued, cloud>>
  PROVE  /\ LogOK'
         /\ \A u \in Users : Done(u)' = Done(u) /\ Ids(client', u) = Ids(client, u)
<1>1. \A u \in Users : Done(u)' = Done(u) /\ Ids(client', u) = Ids(client, u)
      BY DEF Done, Ids
<1>2. issued' = issued /\ committed' = committed /\ stored' = stored
      BY DEF cloud
<1>3. \A u \in Users : \A i \in 1 .. Len(issued'[u]) : client'.outcome[issued'[u][i]] # "unwritten"
      BY <1>2 DEF LogOK
<1>4. ASSUME NEW u \in Users
      PROVE  /\ Done(u)' >= 0
             /\ \A id \in Ids(client', u) :
                  client'.queue[u][id] = issued'[u][Done(u)' + Place(Ids(client', u), id)]
             /\ \A i \in 1 .. Done(u)' : Over(issued[u][i])'
             /\ stored'[u] # Nothing => \E j \in 1 .. Len(issued'[u]) : stored'[u] = issued'[u][j]
      <2>1. /\ Done(u) >= 0
            /\ \A id \in Ids(client, u) :
                 client.queue[u][id] = issued[u][Done(u) + Place(Ids(client, u), id)]
            /\ \A i \in 1 .. Done(u) : Over(issued[u][i])
            /\ stored[u] # Nothing => \E j \in 1 .. Len(issued[u]) : stored[u] = issued[u][j]
            BY DEF LogOK
      <2> QED
          BY <1>1, <1>2, <2>1 DEF Over
<1> QED
    BY <1>1, <1>2, <1>3, <1>4 DEF LogOK

LEMMA SameSentOK ==
  ASSUME SentOK, client.session \in Users, SameSent(client, client'), ~client'.handshake,
         \A u \in Users : Done(u)' = Done(u), UNCHANGED <<issued, cloud>>
  PROVE  SentOK'
<1>1. /\ client'.requests = client.requests /\ client'.session = client.session
      /\ issued' = issued /\ committed' = committed
      BY DEF SameSent, cloud
<1>2. ASSUME NEW p \in Nat, SentAfter(p) PROVE SentAfter(p)'
      <2>1. Done(client.session)' = Done(client.session)
            <3>1. PICK v \in Users : v = client.session
                  OBVIOUS
            <3> QED
                BY <3>1, <1>1 DEF Done
      <2> QED
          BY <1>1, <1>2, <2>1 DEF SentAfter, Over
<1> QED
    BY SMTT(20), <1>1, <1>2 DEF SentOK

LEMMA ClosedServer ==
  ASSUME AtRest(client'), SentOK', answers' = <<>>, fault' = "ok"
  PROVE  ServerOK'
<1>1. answers' \in Seq(Writes \union {Handshake})
      BY EmptySeq
<1> QED
    BY <1>1 DEF AtRest, ServerOK, OpeningOK, AnswersOK, FaultOK, Faults

LEMMA LosesAnswers ==
  ASSUME NEW d, FaultOK, ClientStep(d), ~IsOpen(d.stream)
  PROVE  client' = d /\ answers' = <<>> /\ fault' = "ok" /\ UNCHANGED cloud
<1>1. client' = d /\ UNCHANGED cloud
      BY DEF ClientStep
<1>2. answers' = <<>> /\ fault' = "ok"
      <2>1. CASE IsOpen(client.stream)
            BY <1>1, <2>1 DEF ClientStep
      <2>2. CASE ~IsOpen(client.stream)
            BY <2>2 DEF ClientStep, FaultOK
      <2> QED
          BY <2>1, <2>2
<1> QED
    BY <1>1, <1>2

\* The step leaves what the app has written and knows of it.
Unnoticed ==
  /\ client'.queue = client.queue /\ client'.outcome = client.outcome
  /\ UNCHANGED <<issued, cloud>>

LEMMA QuietStep ==
  ASSUME WInv, NEW d, ClientStep(d), AtRest(d), SameSent(client, d), IdsOK(d), CallbacksOK(d),
         d.queue = client.queue,
         \A w \in Writes : client.outcome[w] # "unwritten" => d.outcome[w] # "unwritten",
         UNCHANGED issued
  PROVE  WInv' /\ client' = d /\ UNCHANGED cloud
<1>1. client' = d /\ answers' = <<>> /\ fault' = "ok" /\ UNCHANGED cloud
      BY LosesAnswers DEF WInv, ServerOK, AtRest
<1>2. LogOK' /\ \A u \in Users : Done(u)' = Done(u)
      BY <1>1, SameLog DEF WInv
<1>3. SentOK'
      <2>1. client.session \in Users
            BY DEF WInv, ClientOK, LinkOK, ClientType
      <2> QED
          BY <1>1, <1>2, <2>1, SameSentOK DEF WInv, ServerOK, AtRest
<1>4. ServerOK'
      BY <1>1, <1>3, ClosedServer
<1>5. ClientOK(client')
      BY <1>1, AtRestIsOK
<1> QED
    BY <1>1, <1>2, <1>4, <1>5 DEF WInv

\* The same, when the books of the client stay as they are.
LEMMA BookKeepingStep ==
  ASSUME WInv, NEW d, ClientStep(d), AtRest(d), SameBooks(client, d), SameSent(client, d),
         UNCHANGED issued
  PROVE  WInv' /\ Unnoticed
<1>1. client \in ClientType
      BY DEF WInv, ClientOK, LinkOK
<1>2. IdsOK(d) /\ CallbacksOK(d)
      BY <1>1, SameBooksOK DEF WInv
<1> QED
    BY <1>2, QuietStep DEF SameBooks, Unnoticed

LEMMA ChangeCredentialsStep ==
  ASSUME WInv, NEW u \in Users, ChangeCredentials(u)
  PROVE  WInv' /\ Unnoticed
<1> DEFINE d == HandleCredentialChange(client, u)
<1>1. /\ AtRest(d) /\ SameSent(client, d) /\ IdsOK(d) /\ d.queue = client.queue
      /\ d.callbacks = client.callbacks /\ d.outcome = client.outcome
      BY CredentialEffect DEF WInv, ClientOK
<1>2. ClientStep(d) /\ UNCHANGED issued
      BY DEF ChangeCredentials
<1> HIDE DEF d
<1>3. CallbacksOK(d)
      BY <1>1 DEF WInv, CallbacksOK, Ids
<1> QED
    BY <1>1, <1>2, <1>3, QuietStep DEF Unnoticed

LEMMA NetworkStep ==
  ASSUME WInv, TurnNetworkOff \/ TurnNetworkOn \/ ConnectivityChanged
  PROVE  WInv' /\ Unnoticed
<1>1. client \in ClientType /\ StreamOK(client.stream) /\ (client.handshake => IsOpen(client.stream))
      BY DEF WInv, ClientOK, LinkOK
<1>2. CASE TurnNetworkOff
      BY <1>1, <1>2, DisableEffect, BookKeepingStep DEF TurnNetworkOff
<1>3. CASE ConnectivityChanged
      BY <1>1, <1>3, RestartEffect, BookKeepingStep DEF ConnectivityChanged
<1>4. CASE TurnNetworkOn
      <2>1. ~IsStarted(client.stream) /\ client.pipeline = <<>> /\ ~client.handshake
            BY <1>4 DEF TurnNetworkOn, WInv, ClientOK, LinkOK, IsStarted, IsOpen
      <2>2. LET d == EnableNetwork(client)
            IN  AtRest(d) /\ SameBooks(client, d) /\ SameSent(client, d)
            BY <1>1, <2>1, EnableEffect
      <2> QED
          BY <1>4, <2>2, BookKeepingStep DEF TurnNetworkOn
<1> QED
    BY <1>2, <1>3, <1>4

\* What a relaunch leaves of the books.
LEMMA RelaunchedBooks ==
  ASSUME NEW c \in ClientType, NEW d,
         d.queue = c.queue, d.callbacks = [u \in Users |-> NoBatches],
         d.outcome = [w \in Writes |-> IF c.outcome[w] = "pending" THEN "forgotten" ELSE c.outcome[w]]
  PROVE  CallbacksOK(d)
<1> SUFFICES ASSUME NEW u \in Users
             PROVE  /\ \A id \in DOMAIN d.callbacks[u] :
                         id \in Ids(d, u) /\ d.callbacks[u][id] = d.queue[u][id]
                    /\ \A id \in Ids(d, u) :
                         id \in DOMAIN d.callbacks[u] <=> d.outcome[d.queue[u][id]] = "pending"
    BY DEF CallbacksOK
<1>1. DOMAIN d.callbacks[u] = {}
      BY NoBatchesIsQueue
<1>2. \A id \in Ids(d, u) : d.queue[u][id] \in Writes
      BY QueueOfUser DEF Ids
<1>3. \A w \in Writes : d.outcome[w] # "pending"
      OBVIOUS
<1> QED
    BY <1>1, <1>2, <1>3

LEMMA RelaunchStep ==
  ASSUME WInv, Relaunch
  PROVE  /\ WInv' /\ client'.queue = client.queue /\ UNCHANGED <<issued, cloud>>
         /\ client'.outcome = [w \in Writes |-> IF client.outcome[w] = "pending" THEN "forgotten"
                                                ELSE client.outcome[w]]
<1> DEFINE d == Relaunched(client)
<1>1. client \in ClientType /\ IdsOK(client)
      BY DEF WInv, ClientOK, LinkOK
<1>2. /\ AtRest(d) /\ SameSent(client, d) /\ IdsOK(d) /\ d.queue = client.queue
      /\ d.callbacks = [u \in Users |-> NoBatches]
      /\ d.outcome = [w \in Writes |-> IF client.outcome[w] = "pending" THEN "forgotten"
                                                                        ELSE client.outcome[w]]
      BY <1>1, RelaunchEffect
<1>3. ClientStep(d) /\ UNCHANGED issued
      BY DEF Relaunch
<1> HIDE DEF d
<1>4. CallbacksOK(d)
      BY <1>1, <1>2, RelaunchedBooks
<1>5. \A w \in Writes : client.outcome[w] # "unwritten" => d.outcome[w] # "unwritten"
      BY <1>2
<1> QED
    BY <1>2, <1>3, <1>4, <1>5, QuietStep

\* A result is only read when the handshake is over; it is for the pipeline's first.
LEMMA ResultIsForHead ==
  ASSUME WInv, answers # <<>>, client.handshake \/ Head(answers) # Handshake
  PROVE  /\ client.handshake /\ client.pipeline # <<>> /\ client.session = client.user
         /\ Head(client.pipeline) = client.pipeline[1] /\ Head(client.pipeline) \in BatchType
         /\ client.pipeline[1].id \in Ids(client, client.user)
         /\ Place(Ids(client, client.user), client.pipeline[1].id) = 1
         /\ client.pipeline[1].write = client.queue[client.user][client.pipeline[1].id]
         /\ client.pipeline[1].write = issued[client.user][Done(client.user) + 1]
         /\ client.pipeline[1].write \in committed \ Refused
         /\ Head(answers) = client.pipeline[1].write
<1>1. /\ ClientOK(client) /\ LogOK /\ OpeningOK /\ AnswersOK /\ FaultOK
      /\ client \in ClientType /\ PipelineOK(client)
      BY DEF WInv, ServerOK, ClientOK, LinkOK
<1>2. answers \in Seq(Writes \union {Handshake}) /\ Len(answers) \in Nat /\ 1 <= Len(answers)
      /\ Head(answers) = answers[1]
      BY <1>1 DEF FaultOK
<1>3. client.handshake
      BY <1>1 DEF FaultOK, OpeningOK
<1>4. IsOpen(client.stream) /\ client.session = client.user
      BY <1>1, <1>3 DEF ClientOK
<1>5. client.pipeline \in Seq(BatchType) /\ Len(client.pipeline) \in Nat
      BY <1>1, PipelineLength
<1>6. 1 \in 1 .. Len(client.pipeline) /\ 1 \in 1 .. Len(answers)
      BY <1>1, <1>2, <1>3, <1>5 DEF AnswersOK
<1>7. answers[1] = client.pipeline[1].write /\ answers[1] \in committed \ Refused
      BY <1>1, <1>3, <1>6 DEF AnswersOK
<1>8. /\ client.pipeline # <<>> /\ Head(client.pipeline) = client.pipeline[1]
      /\ client.pipeline[1] \in BatchType
      BY <1>5, <1>6
<1>9. client.pipeline[1].write = issued[client.user][Done(client.user) + 1]
      BY <1>1, <1>6, PipelineIsNext
<1>10. /\ client.pipeline[1].id \in Ids(client, client.user)
       /\ Place(Ids(client, client.user), client.pipeline[1].id) = 1
       /\ client.pipeline[1].write = client.queue[client.user][client.pipeline[1].id]
       BY <1>1, <1>6 DEF PipelineOK
<1> QED
    BY <1>2, <1>3, <1>4, <1>7, <1>8, <1>9, <1>10

\* The app is told and dies: on disk nothing has changed.
LEMMA DieInResultStep ==
  ASSUME WInv, DieInResult
  PROVE  /\ WInv' /\ client'.queue = client.queue /\ UNCHANGED <<issued, cloud>>
         /\ LET told == [client.outcome EXCEPT ![client.pipeline[1].write] =
                           IF @ = "pending" THEN "ok" ELSE @]
            IN  client'.outcome = [w \in Writes |-> IF told[w] = "pending" THEN "forgotten"
                                                                           ELSE told[w]]
<1> DEFINE n == NotifyUser(client, Head(client.pipeline), "ok")
           d == Relaunched(n)
           w1 == client.pipeline[1].write
           v == client.user
<1>1. client \in ClientType /\ IdsOK(client) /\ CallbacksOK(client)
      BY DEF WInv, ClientOK, LinkOK
<1>2. /\ Head(client.pipeline) = client.pipeline[1] /\ Head(client.pipeline) \in BatchType
      /\ client.pipeline[1].id \in Ids(client, v) /\ v \in Users
      /\ w1 = client.queue[v][client.pipeline[1].id]
      BY <1>1, ResultIsForHead DEF DieInResult, ClientType
<1> DEFINE id == client.pipeline[1].id
<1>3. /\ n \in ClientType /\ SameLine(client, n)
      /\ n.user = client.user /\ n.nextId = client.nextId /\ n.queue = client.queue
      /\ n.requests = client.requests
      /\ IF id \in DOMAIN client.callbacks[v]
         THEN n.outcome = [client.outcome EXCEPT ![client.callbacks[v][id]] = "ok"]
         ELSE n.outcome = client.outcome
      <2> DEFINE batch == Head(client.pipeline)
      <2>1. batch \in BatchType /\ batch.id = id /\ "ok" \in Outcomes
            BY <1>2 DEF Outcomes
      <2> HIDE DEF batch, id
      <2>2. LET x == NotifyUser(client, batch, "ok")
            IN  /\ x \in ClientType /\ SameLine(client, x)
                /\ x.user = client.user /\ x.nextId = client.nextId /\ x.queue = client.queue
                /\ x.requests = client.requests
                /\ IF batch.id \in DOMAIN client.callbacks[v]
                   THEN x.outcome = [client.outcome EXCEPT ![client.callbacks[v][batch.id]] = "ok"]
                   ELSE x.outcome = client.outcome
            BY <1>1, <2>1, NotifyEffect
      <2> QED
          BY <2>1, <2>2 DEF batch
<1>4. ClientStep(d) /\ UNCHANGED issued
      BY DEF DieInResult
<1> HIDE DEF n, d, id
<1>5. w1 \in Writes /\ client.outcome \in [Writes -> Outcomes]
      BY <1>1, <1>2, QueueOfUser DEF ClientType
<1>6. /\ id \in DOMAIN client.callbacks[v] => client.callbacks[v][id] = w1
      /\ id \in DOMAIN client.callbacks[v] <=> client.outcome[w1] = "pending"
      BY <1>1, <1>2 DEF CallbacksOK, id
<1>7. n.outcome = [client.outcome EXCEPT ![w1] = IF @ = "pending" THEN "ok" ELSE @]
      <2>1. CASE id \in DOMAIN client.callbacks[v]
            BY <2>1, <1>3, <1>5, <1>6
      <2>2. CASE id \notin DOMAIN client.callbacks[v]
            <3>1. n.outcome = client.outcome /\ client.outcome[w1] # "pending"
                  BY <2>2, <1>3, <1>6
            <3>2. [client.outcome EXCEPT ![w1] = IF @ = "pending" THEN "ok" ELSE @] = client.outcome
                  BY <1>5, <3>1
            <3> QED
                BY <3>1, <3>2
      <2> QED
          BY <2>1, <2>2
<1>8. \A w \in Writes : n.outcome[w] = "unwritten" <=> client.outcome[w] = "unwritten"
      BY <1>5, <1>7
<1>9. IdsOK(n)
      <2>1. Made(n) = Made(client) /\ \A u \in Users : Ids(n, u) = Ids(client, u)
            BY <1>3, <1>8 DEF Made, Ids
      <2> QED
          BY <1>1, <1>2, <1>3, <2>1 DEF IdsOK
<1>10. /\ AtRest(d) /\ SameSent(n, d) /\ IdsOK(d) /\ d.queue = n.queue
       /\ d.callbacks = [u \in Users |-> NoBatches]
       /\ d.outcome = [w \in Writes |-> IF n.outcome[w] = "pending" THEN "forgotten" ELSE n.outcome[w]]
       BY <1>3, <1>9, RelaunchEffect DEF d
<1>11. CallbacksOK(d)
       BY <1>3, <1>10, RelaunchedBooks
<1>12. \A w \in Writes : client.outcome[w] # "unwritten" => d.outcome[w] # "unwritten"
       BY <1>8, <1>10
<1>13. SameSent(client, d) /\ d.queue = client.queue
       BY <1>3, <1>10 DEF SameSent, SameLine
<1>14. WInv'
       BY <1>4, <1>10, <1>11, <1>12, <1>13, QuietStep
<1>15. /\ client'.outcome = d.outcome /\ client'.queue = client.queue
       /\ UNCHANGED <<issued, cloud>>
       BY <1>4, <1>13 DEF ClientStep
<1> DEFINE told == [client.outcome EXCEPT ![w1] = IF @ = "pending" THEN "ok" ELSE @]
<1>16. n.outcome = told
       BY <1>7
<1> HIDE DEF told
<1>17. client'.outcome = [w \in Writes |-> IF told[w] = "pending" THEN "forgotten" ELSE told[w]]
       BY <1>10, <1>15, <1>16
<1> QED
    BY <1>14, <1>15, <1>17 DEF told

LEMMA CredentialsFailStep ==
  ASSUME WInv, CredentialsFail
  PROVE  WInv' /\ Unnoticed
<1> DEFINE s == HardAssert(CredentialsArrived(client.stream, "current"),
                           client.stream.state = "Starting")
           c == [client EXCEPT !.stream = s]
           d == Close(c, "unavailable")
<1>1. /\ client \in ClientType /\ StreamOK(client.stream) /\ client.stream.state = "Starting"
      /\ PipelineOK(client) /\ client.network
      BY DEF CredentialsFail, WInv, ClientOK, LinkOK, StreamOK, IsStarted
<1>2. s \in StreamType /\ s.sound /\ IsStarted(s)
      BY <1>1 DEF StreamOK, StreamType, CredentialsArrived, HardAssert, IsStarted
<1> HIDE DEF s
<1>3. /\ c \in ClientType /\ c.stream = s /\ c.network /\ c.pipeline = client.pipeline
      /\ SameBooks(client, c) /\ SameSent(client, c)
      BY <1>1, <1>2 DEF ClientType, SameBooks, SameSent
<1>4. ClientStep(d) /\ UNCHANGED issued
      BY DEF CredentialsFail, s
<1> HIDE DEF c
<1>5. PipelineOK(c)
      BY <1>1, <1>3 DEF PipelineOK, SameBooks, Ids
<1>6. AtRest(d) /\ SameBooks(c, d) /\ SameSent(c, d)
      BY <1>2, <1>3, <1>5, CloseEffect DEF Faults
<1> HIDE DEF d
<1>7. SameBooks(client, d) /\ SameSent(client, d)
      BY <1>3, <1>6 DEF SameBooks, SameSent
<1> QED
    BY <1>4, <1>6, <1>7, BookKeepingStep

LEMMA IdleTimeoutStep ==
  ASSUME WInv, IdleTimeout
  PROVE  WInv' /\ Unnoticed
<1> DEFINE d == Close(client, "ok")
<1>1. /\ client \in ClientType /\ StreamOK(client.stream) /\ IsStarted(client.stream)
      /\ PipelineOK(client) /\ client.pipeline = <<>>
      BY DEF IdleTimeout, WInv, ClientOK, LinkOK, StreamOK, IsStarted, IsOpen
<1>2. ClientStep(d) /\ UNCHANGED issued
      BY <1>1 DEF IdleTimeout, Stop
<1>3. AtRest(d) /\ SameBooks(client, d) /\ SameSent(client, d)
      BY <1>1, CloseEffect DEF Faults, StreamOK
<1> HIDE DEF d
<1> QED
    BY <1>2, <1>3, BookKeepingStep

LEMMA BackoffEndsStep ==
  ASSUME WInv, BackoffEnds
  PROVE  WInv' /\ Unnoticed
<1> DEFINE s == BackoffElapsed(client.stream)
           d == [client EXCEPT !.stream = s]
<1>1. /\ client \in ClientType /\ StreamOK(client.stream) /\ client.stream.backoff
      /\ client.stream.state = "Backoff"
      BY DEF BackoffEnds, WInv, ClientOK, LinkOK, StreamOK
<1>2. /\ client.network /\ client.pipeline # <<>> /\ ~client.handshake /\ PipelineOK(client)
      BY <1>1 DEF WInv, ClientOK, LinkOK, IsStarted, IsOpen
<1>3. StreamOK(s) /\ ~IsOpen(s)
      BY <1>1, BackoffElapsedOK
<1>4. ClientStep(d) /\ UNCHANGED issued
      BY <1>1 DEF BackoffEnds, ClientType
<1> HIDE DEF s
<1>5. /\ d \in ClientType /\ d.stream = s /\ d.network /\ d.pipeline # <<>> /\ ~d.handshake
      /\ d.pipeline = client.pipeline /\ SameBooks(client, d) /\ SameSent(client, d)
      BY <1>1, <1>2, <1>3 DEF ClientType, SameBooks, SameSent, StreamOK
<1> HIDE DEF d
<1>6. PipelineOK(d)
      BY <1>2, <1>5 DEF PipelineOK, SameBooks, Ids
<1>7. AtRest(d)
      BY <1>3, <1>5, <1>6 DEF AtRest, LinkOK, StreamOK
<1> QED
    BY <1>4, <1>5, <1>7, BookKeepingStep

\* The end of the stream settles a write if it is the server's refusal of it.
Refuses == client.handshake /\ fault = "permanent"

LEMMA StreamEndsStep ==
  ASSUME WInv, StreamEnds, ~Refuses
  PROVE  WInv' /\ Unnoticed
<1> DEFINE d == Close(client, fault)
<1>1. /\ client \in ClientType /\ StreamOK(client.stream) /\ PipelineOK(client)
      /\ fault \in Faults /\ fault # "ok" /\ IsOpen(client.stream)
      BY DEF StreamEnds, WInv, ServerOK, FaultOK, ClientOK, LinkOK
<1>2. IsStarted(client.stream) /\ client.network
      BY <1>1 DEF WInv, ClientOK, LinkOK, IsStarted, IsOpen
<1>3. ClientStep(d) /\ UNCHANGED issued
      BY DEF StreamEnds
<1>4. AtRest(d) /\ SameBooks(client, d) /\ SameSent(client, d)
      BY <1>1, <1>2, CloseEffect DEF StreamOK, Refuses
<1> HIDE DEF d
<1> QED
    BY <1>3, <1>4, BookKeepingStep

LEMMA RefusalStep ==
  ASSUME WInv, StreamEnds, Refuses, NEW v \in Users, v = client.user
  PROVE  /\ WInv' /\ UNCHANGED <<issued, cloud>>
         /\ Done(v)' = Done(v) + 1
         /\ \A u \in Users \ {v} : Done(u)' = Done(u)
         /\ Done(v) + 1 <= Len(issued[v]) /\ issued[v][Done(v) + 1] \in Refused
         /\ Answered(client, client', issued[v][Done(v) + 1], "failed")
<1> DEFINE d == Close(client, "permanent")
           w == issued[v][Done(v) + 1]
           id == client.pipeline[1].id
<1>1. /\ ClientOK(client) /\ LogOK /\ IdsOK(client) /\ CallbacksOK(client)
      /\ client \in ClientType /\ PipelineOK(client) /\ client.handshake /\ fault = "permanent"
      /\ answers = <<>> /\ FaultOK /\ AnswersOK
      BY DEF StreamEnds, WInv, ServerOK, ClientOK, LinkOK, Refuses
<1>2. client.pipeline \in Seq(BatchType) /\ Len(client.pipeline) \in Nat
      BY <1>1, PipelineLength
<1>3. 0 < Len(client.pipeline) /\ client.pipeline[1].write \in Refused
      BY <1>1 DEF AnswersOK
<1>4. /\ client.pipeline # <<>> /\ Head(client.pipeline) = client.pipeline[1]
      /\ 1 \in 1 .. Len(client.pipeline)
      BY <1>2, <1>3
<1>5. /\ Done(v) + Len(client.pipeline) <= Len(issued[v]) /\ client.pipeline[1].write = w
      /\ Done(v) \in Nat /\ Len(issued[v]) \in Nat
      BY <1>1, <1>4, PipelineIsNext, LogTypes
<1>6. /\ id \in Ids(client, v) /\ Place(Ids(client, v), id) = 1
      /\ client.pipeline[1].write = client.queue[v][id]
      BY <1>1, <1>4 DEF PipelineOK
<1>7. ClientStep(d) /\ UNCHANGED issued
      BY <1>1 DEF StreamEnds
<1>8. /\ AtRest(d) /\ SameSent(client, d)
      /\ SettledBooks(client, d, Head(client.pipeline).id, "failed")
      BY <1>1, <1>4, SettlingCloseEffect
<1> HIDE DEF d, id, w
<1>9. client' = d /\ answers' = <<>> /\ fault' = "ok" /\ UNCHANGED cloud
      BY <1>1, <1>7, <1>8, LosesAnswers DEF AtRest
<1>10. Over(client.queue[v][id])
       BY <1>3, <1>6 DEF Over
<1>11. SettledBooks(client, client', id, "failed")
       BY <1>4, <1>8, <1>9 DEF id
<1>12. /\ IdsOK(client') /\ CallbacksOK(client') /\ LogOK'
       /\ Done(v)' = Done(v) + 1
       /\ \A u \in Users \ {v} : Done(u)' = Done(u)
       /\ Answered(client, client', client.queue[v][id], "failed")
       BY <1>1, <1>6, <1>7, <1>9, <1>10, <1>11, SettledLog
<1>13. SentOK'
       <2>1. client.requests # <<>> /\ client.requests[1] = Ended
             BY <1>1 DEF FaultOK
       <2>2. Ended # Handshake
             BY DEF Ended, Handshake
       <2>3. \A i \in 2 .. Len(client.requests) :
               \E j \in 1 .. Len(issued[client.session]) :
                 client.requests[i] = issued[client.session][j]
             <3>1. CASE \E p \in Nat : SentAfter(p)
                   <4>1. PICK p \in Nat : SentAfter(p)
                         BY <3>1
                   <4>2. Len(client.requests) \in Nat /\ client.session \in Users
                         BY <1>1, PipelineLength DEF ClientType
                   <4>3. Len(issued[client.session]) \in Nat
                         BY <1>1, <4>2, LogTypes
                   <4> QED
                       BY <4>1, <4>2, <4>3 DEF SentAfter
             <3> QED
                 BY <2>1, <2>2, <3>1 DEF WInv, ServerOK, SentOK
       <2>4. client'.requests = client.requests /\ client'.session = client.session /\ issued' = issued
             BY <1>7, <1>8, <1>9 DEF SameSent
       <2> QED
           BY <2>1, <2>3, <2>4 DEF SentOK
<1>14. ServerOK' /\ ClientOK(client')
       BY <1>8, <1>9, <1>13, ClosedServer, AtRestIsOK
<1>15. WInv'
       BY <1>12, <1>14 DEF WInv
<1>16. UNCHANGED <<issued, cloud>>
       BY <1>7, <1>9
<1>17. Done(v) + 1 <= Len(issued[v]) /\ w \in Refused
       BY <1>2, <1>3, <1>5
<1>18. Answered(client, client', w, "failed")
       BY <1>5, <1>6, <1>12
<1> QED
    BY <1>12, <1>15, <1>16, <1>17, <1>18 DEF w

-----------------------------------------------------------------------------
(* The steps of a stream that opens or stays open.                         *)

LEMMA StreamOpensStep ==
  ASSUME WInv, StreamOpens
  PROVE  WInv' /\ Unnoticed
<1> DEFINE r == Resumed(CredentialsArrived(client.stream, "current"))
           s == Written(HardAssert(r, ~client.handshake))
           d == [client EXCEPT !.stream = s, !.session = client.user, !.requests = <<Handshake>>]
<1>1. /\ client \in ClientType /\ StreamOK(client.stream) /\ client.stream.state = "Starting"
      /\ PipelineOK(client) /\ client.network /\ client.pipeline # <<>> /\ ~client.handshake
      BY DEF StreamOpens, WInv, ClientOK, LinkOK, StreamOK, IsStarted, IsOpen
<1>2. StreamOK(s) /\ IsOpen(s) /\ ~s.idle
      BY <1>1 DEF StreamOK, StreamType, StreamStates, CredentialsArrived, Resumed, HardAssert,
                  Written, CancelIdleCheck, IsOpen
<1>3. client' = d
      BY <1>1 DEF StreamOpens, ClientType
<1> HIDE DEF s, r
<1>4. <<Handshake>> \in Seq(RequestType)
      BY DEF RequestType
<1>5. /\ d \in ClientType /\ d.stream = s /\ d.network /\ d.pipeline = client.pipeline
      /\ ~d.handshake /\ d.session = d.user /\ d.requests = <<Handshake>> /\ SameBooks(client, d)
      BY <1>1, <1>2, <1>4 DEF ClientType, SameBooks, StreamOK
<1> HIDE DEF d
<1>6. PipelineOK(d)
      BY <1>1, <1>5 DEF PipelineOK, SameBooks, Ids
<1>7. ClientOK(client')
      BY <1>1, <1>2, <1>3, <1>5, <1>6 DEF ClientOK, LinkOK
<1>8. UNCHANGED <<issued, cloud>> /\ answers' = <<>> /\ fault' = "ok"
      BY DEF StreamOpens
<1>9. IdsOK(client') /\ CallbacksOK(client')
      BY <1>1, <1>3, <1>5, SameBooksOK DEF WInv
<1>10. LogOK'
       BY <1>3, <1>5, <1>8, SameLog DEF WInv, SameBooks
<1>11. answers' \in Seq(Writes \union {Handshake})
       BY <1>8, EmptySeq
<1>12. ServerOK'
       BY <1>2, <1>3, <1>5, <1>8, <1>11 DEF ServerOK, SentOK, OpeningOK, AnswersOK, FaultOK, Faults
<1> QED
    BY <1>3, <1>5, <1>7, <1>8, <1>9, <1>10, <1>12 DEF WInv, SameBooks, Unnoticed

LEMMA StaleCredentialsStep ==
  ASSUME WInv, StaleCredentials
  PROVE  WInv' /\ Unnoticed
<1> DEFINE s == CredentialsArrived(client.stream, "stale")
           d == [client EXCEPT !.stream = s]
<1>1. client \in ClientType /\ StreamOK(client.stream) /\ ClientOK(client) /\ PipelineOK(client)
      BY DEF WInv, ClientOK, LinkOK
<1>2. /\ StreamOK(s) /\ (IsOpen(s) <=> IsOpen(client.stream))
      /\ IsStarted(s) <=> IsStarted(client.stream)
      /\ s.idle = client.stream.idle
      BY <1>1 DEF StreamOK, StreamType, CredentialsArrived, IsOpen, IsStarted
<1>3. client' = d /\ UNCHANGED <<issued, cloud>>
      BY <1>1 DEF StaleCredentials, ClientStep, ClientType
<1> HIDE DEF s
<1>4. /\ d \in ClientType /\ d.stream = s /\ d.requests = client.requests
      /\ SameBooks(client, d) /\ SameLine(client, d)
      /\ d.pipeline = client.pipeline
      BY <1>1, <1>2 DEF ClientType, SameBooks, SameLine, StreamOK
<1> HIDE DEF d
<1>5. UNCHANGED <<answers, fault>>
      BY <1>2, <1>3, <1>4 DEF StaleCredentials, ClientStep
<1>6. PipelineOK(d)
      BY <1>1, <1>4 DEF PipelineOK, SameBooks, Ids
<1>7. ClientOK(client')
      BY <1>1, <1>2, <1>3, <1>4, <1>6 DEF ClientOK, LinkOK, SameLine, SameBooks
<1>8. IdsOK(client') /\ CallbacksOK(client')
      BY <1>1, <1>3, <1>4, SameBooksOK DEF WInv
<1>9. LogOK' /\ \A u \in Users : Done(u)' = Done(u)
      BY <1>3, <1>4, SameLog DEF WInv, SameBooks
<1>10. /\ issued' = issued /\ committed' = committed /\ stored' = stored /\ answers' = answers
       /\ fault' = fault /\ client'.requests = client.requests /\ client'.session = client.session
       /\ client'.handshake = client.handshake /\ client'.pipeline = client.pipeline
       /\ client'.user = client.user /\ (IsOpen(client'.stream) <=> IsOpen(client.stream))
       BY <1>2, <1>3, <1>4, <1>5 DEF cloud, SameLine, SameBooks
<1>11. Done(client.user)' = Done(client.user) /\ Done(client.session)' = Done(client.session)
       BY <1>3, <1>4, <1>10 DEF Done, Ids, SameBooks
<1>12. ServerOK'
       <2>1. SentOK /\ OpeningOK /\ AnswersOK /\ FaultOK
             BY DEF WInv, ServerOK
       <2>2. ASSUME NEW p \in Nat, SentAfter(p) PROVE SentAfter(p)'
             BY <2>2, <1>10, <1>11 DEF SentAfter, Over
       <2>3. SentOK'
             BY <2>1, <2>2, <1>10 DEF SentOK
       <2>4. OpeningOK' /\ FaultOK'
             BY <2>1, <1>10 DEF OpeningOK, FaultOK
       <2>5. AnswersOK'
             BY <2>1, <1>10, <1>11 DEF AnswersOK
       <2> QED
           BY <2>3, <2>4, <2>5 DEF ServerOK
<1> QED
    BY <1>3, <1>4, <1>7, <1>8, <1>9, <1>12 DEF WInv, SameBooks, Unnoticed

\* What PipelineIsNext says, for the next state.
PipelineNext ==
  /\ Done(client.user) + Len(client.pipeline) <= Len(issued[client.user])
  /\ \A i \in 1 .. Len(client.pipeline) :
       client.pipeline[i].write = issued[client.user][Done(client.user) + i]

LEMMA PipelineIsNextNow == ClientOK(client) /\ LogOK => PipelineNext
BY PipelineIsNext DEF PipelineNext

LEMMA PipelineIsNextThen == (ClientOK(client) /\ LogOK)' => PipelineNext'
BY PipelineIsNextNow, PTL

\* The issued writes stay what they are, and more may follow.
IssuedGrows ==
  \A u \in Users : /\ Len(issued[u]) <= Len(issued'[u])
                   /\ \A i \in 1 .. Len(issued[u]) : issued'[u][i] = issued[u][i]

LEMMA NoWordIsAWrite == Handshake \notin Writes /\ Ended \notin Writes /\ Ended # Handshake
BY WritesAssumption DEF Handshake, Ended

\* Over an open stream, the pipeline loses the first k batches with their answers,
\* and what is appended is sent.
LEMMA ExtendedServer ==
  ASSUME ClientOK(client), LogOK, ServerOK, client.handshake,
         ClientOK(client'), LogOK', client'.handshake,
         NEW v \in Users, v = client.user, v = client'.user,
         client.session = v, client'.session = v,
         NEW k \in {0, 1}, k <= Len(answers), Extended(client, client', k),
         Done(v)' = Done(v) + k, IssuedGrows, UNCHANGED <<fault, cloud>>,
         answers' \in Seq(Writes \union {Handshake}), Len(answers') = Len(answers) - k,
         \A i \in 1 .. Len(answers') : answers'[i] = answers[i + k]
  PROVE  ServerOK'
<1> DEFINE n == Len(client.pipeline)
           m == Len(client.requests)
           a == Len(answers)
           nn == Len(client'.pipeline)
           mm == Len(client'.requests)
           aa == Len(answers')
           D == Done(v)
           L == Len(issued[v])
           LL == Len(issued'[v])
<1>1. SentOK /\ OpeningOK /\ AnswersOK /\ FaultOK
      BY DEF ServerOK
<1>2. client \in ClientType /\ client' \in ClientType /\ Settling(client) /\ IsOpen(client'.stream)
      BY DEF ClientOK, LinkOK, Settling
<1>3. /\ n \in Nat /\ m \in Nat /\ nn \in Nat /\ mm \in Nat
      /\ client.requests = <<>> <=> m = 0
      /\ client'.requests = <<>> <=> mm = 0
      /\ \A i \in 1 .. n : client.pipeline[i].write \in Writes
      /\ \A i \in 1 .. nn : client'.pipeline[i].write \in Writes
      BY <1>2, PipelineLength DEF BatchType
<1>4. a \in Nat /\ aa \in Nat /\ aa = a - k /\ (answers = <<>> <=> a = 0) /\ (answers' = <<>> <=> aa = 0)
      BY <1>1 DEF FaultOK
<1>5. /\ D \in Nat /\ L \in Nat /\ \A i \in 1 .. L : issued[v][i] \in Writes
      BY <1>2, LogTypes
<1>6. LL \in Nat /\ L <= LL /\ \A i \in 1 .. L : issued'[v][i] = issued[v][i]
      BY DEF LogOK, IssuedGrows
<1>7. D + n <= L /\ \A i \in 1 .. n : client.pipeline[i].write = issued[v][D + i]
      BY PipelineIsNext
<1>8. /\ (D + k) + nn <= LL
      /\ \A i \in 1 .. nn : client'.pipeline[i].write = issued'[v][(D + k) + i]
      <2>1. PipelineNext'
            BY PipelineIsNextThen
      <2>2. Done(client.user)' = Done(v)'
            BY DEF Done
      <2> QED
          BY <2>1, <2>2 DEF PipelineNext
<1>9. /\ n - k <= nn
      /\ \A i \in 1 .. n - k : client'.pipeline[i] = client.pipeline[i + k]
      /\ mm = m + nn - (n - k)
      /\ \A i \in 1 .. m : client'.requests[i] = client.requests[i]
      /\ \A i \in 1 .. nn - (n - k) : client'.requests[m + i] = client'.pipeline[(n - k) + i].write
      BY <1>2 DEF Extended
<1>10. committed' = committed /\ stored' = stored /\ fault' = fault
       BY DEF cloud
<1>11. a <= n /\ k <= n
       BY <1>1, <1>3, <1>4 DEF AnswersOK
<1> DEFINE added == nn - (n - k)
<1> HIDE DEF n, m, a, nn, mm, aa, D, L, LL
<1>12. /\ added \in Nat /\ mm = m + added
       /\ \A i \in 1 .. added : /\ client'.requests[m + i] = issued'[v][(D + n) + i]
                                /\ (D + n) + i <= LL
                                /\ client'.requests[m + i] \in Writes
       <2>1. added \in Nat /\ mm = m + added
             BY <1>3, <1>9, <1>11
       <2>2. ASSUME NEW i \in 1 .. added
             PROVE  /\ client'.requests[m + i] = issued'[v][(D + n) + i]
                    /\ (D + n) + i <= LL
                    /\ client'.requests[m + i] \in Writes
             <3>1. client'.requests[m + i] = client'.pipeline[(n - k) + i].write
                   BY <1>9
             <3>2. (n - k) + i \in 1 .. nn /\ (D + k) + ((n - k) + i) = (D + n) + i
                   BY <1>3, <1>5, <1>11
             <3>3. (D + n) + i <= LL
                   <4>1. \A x \in 1 .. nn : (D + k) + x <= LL
                         BY <1>3, <1>5, <1>6, <1>8
                   <4> QED
                       BY <3>2, <4>1
             <3> QED
                 BY <1>3, <1>8, <3>1, <3>2, <3>3
       <2> HIDE DEF added
       <2> QED
           BY <2>1, <2>2
<1>13. \A i \in 1 .. mm : i \in 1 .. m \/ (i - m \in 1 .. added /\ m + (i - m) = i)
       <2> HIDE DEF added
       <2> QED
           BY <1>3, <1>12
<1>14. fault # "ok" /\ k = 1 => m # 0 /\ client.requests[1] = Ended
      BY <1>1, <1>3, <1>4 DEF FaultOK, Faults, a
<1> HIDE DEF added
<1>15. SentOK'
       <2>1. CASE m # 0 /\ client.requests[1] = Ended
             <3>1. mm # 0 /\ client'.requests[1] = Ended
                   <4>1. 1 \in 1 .. m
                         BY <2>1, <1>3
                   <4> QED
                       BY <2>1, <4>1, <1>3, <1>9, <1>12
             <3>2. ASSUME NEW i \in 2 .. mm
                   PROVE  \E j \in 1 .. LL : client'.requests[i] = issued'[v][j]
                   <4>1. CASE i \in 1 .. m
                         <5>1. client'.requests[i] = client.requests[i]
                               BY <4>1, <1>9
                         <5>2. \E j \in 1 .. L : client.requests[i] = issued[v][j]
                               <6>1. CASE /\ client.requests # <<>> /\ client.requests[1] = Ended
                                          /\ \A x \in 2 .. Len(client.requests) :
                                               \E j \in 1 .. Len(issued[client.session]) :
                                                 client.requests[x] = issued[client.session][j]
                                     <7>1. i \in 2 .. Len(client.requests)
                                           BY <4>1, <1>3 DEF m
                                     <7> QED
                                         BY <6>1, <7>1 DEF L
                               <6>2. CASE \E p \in Nat : SentAfter(p)
                                     <7>1. PICK p \in Nat : SentAfter(p)
                                           BY <6>2
                                     <7>2. /\ p + m <= L
                                           /\ client.requests[i] = issued[v][p + i]
                                           BY <4>1, <7>1 DEF SentAfter, m, L
                                     <7>3. p + i \in 1 .. L
                                           BY <4>1, <7>2, <1>3, <1>5
                                     <7> QED
                                         BY <7>2, <7>3
                               <6>3. ~(client.requests = <<Handshake>> /\ ~client.handshake)
                                     OBVIOUS
                               <6> QED
                                   BY <1>1, <6>1, <6>2, <6>3 DEF SentOK
                         <5>3. PICK j \in 1 .. L : client.requests[i] = issued[v][j]
                               BY <5>2
                         <5>4. j \in 1 .. LL /\ issued'[v][j] = issued[v][j]
                               BY <1>5, <1>6
                         <5> QED
                             BY <5>1, <5>3, <5>4
                   <4>2. CASE i \notin 1 .. m
                         <5>1. i - m \in 1 .. added /\ m + (i - m) = i
                               BY <4>2, <1>3, <1>12, <1>13
                         <5>2. /\ client'.requests[i] = issued'[v][(D + n) + (i - m)]
                               /\ (D + n) + (i - m) <= LL
                               BY <5>1, <1>12
                         <5>3. (D + n) + (i - m) \in 1 .. LL
                               BY <5>1, <5>2, <1>3, <1>5, <1>6, <1>12
                         <5> QED
                             BY <5>2, <5>3
                   <4> QED
                       BY <4>1, <4>2
             <3> QED
                 BY <3>1, <3>2, <1>3 DEF SentOK, mm, LL
       <2>2. CASE ~(m # 0 /\ client.requests[1] = Ended)
             <3>1. PICK p \in Nat : SentAfter(p)
                   BY <2>2, <1>1, <1>3 DEF SentOK
             <3>2. /\ D <= p /\ p + m <= L /\ p + m = D + n
                   /\ \A i \in 1 .. m : client.requests[i] = issued[v][p + i]
                   /\ \A i \in 1 .. p : Over(issued[v][i])
                   BY <3>1 DEF SentAfter, D, m, n, L
             <3>3. D + k <= p
                   <4>1. CASE k = 0
                         BY <4>1, <3>2, <1>5
                   <4>2. CASE k = 1
                         <5>1. fault = "ok"
                               BY <2>2, <4>2, <1>14
                         <5>2. a + m = n
                               BY <5>1, <1>1 DEF AnswersOK, a, m, n
                         <5> QED
                             BY <4>2, <5>2, <3>2, <1>3, <1>4, <1>5 DEF a
                   <4> QED
                       BY <4>1, <4>2
             <3>4. p + mm = (D + k) + nn
                   BY <3>2, <1>3, <1>5, <1>9, <1>11
             <3>5. ASSUME NEW i \in 1 .. mm PROVE client'.requests[i] = issued'[v][p + i]
                   <4>1. CASE i \in 1 .. m
                         <5>1. p + i \in 1 .. L
                               BY <4>1, <3>2, <1>3, <1>5
                         <5> QED
                             BY <4>1, <5>1, <3>2, <1>6, <1>9
                   <4>2. CASE i \notin 1 .. m
                         <5>1. i - m \in 1 .. added /\ m + (i - m) = i
                               BY <4>2, <1>13
                         <5>2. (D + n) + (i - m) = p + i
                               BY <3>2, <1>3, <1>5
                         <5> QED
                             BY <5>1, <5>2, <1>12
                   <4> QED
                       BY <4>1, <4>2
             <3>6. ASSUME NEW i \in 1 .. p PROVE Over(issued[v][i])'
                   <4>1. i \in 1 .. L
                         BY <3>2, <1>3, <1>5
                   <4> QED
                       BY <4>1, <3>2, <1>6, <1>10 DEF Over
             <3>7. SentAfter(p)'
                   <4>1. Done(client.session)' = Done(v)' /\ Done(v)' = D + k
                         BY DEF Done, D
                   <4> HIDE DEF Extended
                   <4>2. /\ D + k <= p /\ p + mm <= LL /\ p + mm = (D + k) + nn
                         BY <3>3, <3>4, <1>8
                   <4> QED
                       BY <4>1, <4>2, <3>5, <3>6 DEF SentAfter, mm, nn, LL, Over
             <3> QED
                 BY <3>7 DEF SentOK
       <2> QED
           BY <2>1, <2>2
<1>16. AnswersOK'
       <2>1. aa <= nn
             BY <1>3, <1>4, <1>9, <1>11
       <2>2. ASSUME NEW i \in 1 .. aa
             PROVE  answers'[i] = client'.pipeline[i].write /\ answers'[i] \in committed' \ Refused
             <3>1. i + k \in 1 .. a /\ i \in 1 .. n - k
                   BY <1>3, <1>4, <1>11
             <3>2. answers[i + k] = client.pipeline[i + k].write /\ answers[i + k] \in committed \ Refused
                   BY <3>1, <1>1 DEF AnswersOK, a
             <3> QED
                 BY <3>1, <3>2, <1>9, <1>10 DEF aa
       <2>3. aa # 0 => \E j \in 1 .. LL : j >= (D + k) + aa /\ stored'[v] = issued'[v][j]
             <3> SUFFICES ASSUME aa # 0 PROVE \E j \in 1 .. LL : j >= (D + k) + aa /\ stored'[v] = issued'[v][j]
                 OBVIOUS
             <3>1. a # 0
                   BY <1>4
             <3>2. PICK j \in 1 .. L : j >= D + a /\ stored[v] = issued[v][j]
                   BY <3>1, <1>1 DEF AnswersOK, a, D, L
             <3>3. j \in 1 .. LL /\ j >= (D + k) + aa
                   BY <3>2, <1>4, <1>5, <1>6
             <3> QED
                 BY <3>2, <3>3, <1>6, <1>10
       <2>4. fault' = "ok" => aa + mm = nn /\ (mm # 0 => client'.requests[1] # Ended)
             <3> SUFFICES ASSUME fault = "ok" PROVE aa + mm = nn /\ (mm # 0 => client'.requests[1] # Ended)
                 BY <1>10
             <3>1. a + m = n /\ (m # 0 => client.requests[1] # Ended)
                   BY <1>1, <1>3 DEF AnswersOK, a, m, n
             <3>2. aa + mm = nn
                   BY <3>1, <1>3, <1>4, <1>9, <1>11
             <3>3. CASE m # 0
                   <4>1. 1 \in 1 .. m
                         BY <3>3, <1>3
                   <4> QED
                       BY <4>1, <3>1, <3>2, <3>3, <1>9
             <3>4. CASE m = 0
                   <4>1. mm # 0 => 1 \in 1 .. added /\ m + 1 = 1
                         BY <3>4, <1>12
                   <4> QED
                       BY <4>1, <3>2, <1>12, NoWordIsAWrite
             <3> QED
                 BY <3>3, <3>4
       <2>5. fault' = "permanent" => aa < nn /\ client'.pipeline[aa + 1].write \in Refused
             <3> SUFFICES ASSUME fault = "permanent"
                          PROVE  aa < nn /\ client'.pipeline[aa + 1].write \in Refused
                 BY <1>10
             <3>1. a < n /\ client.pipeline[a + 1].write \in Refused
                   BY <1>1 DEF AnswersOK, a, n
             <3>2. aa < nn /\ aa + 1 \in 1 .. n - k /\ (aa + 1) + k = a + 1
                   BY <3>1, <1>3, <1>4, <1>9
             <3> QED
                 BY <3>1, <3>2, <1>9
       <2>6. Done(client.user)' = Done(v)' /\ Done(v)' = D + k
             BY DEF Done, D
       <2> QED
           BY <2>1, <2>2, <2>3, <2>4, <2>5, <2>6, <1>3 DEF AnswersOK, aa, nn, mm, LL
<1>17. OpeningOK'
       BY DEF OpeningOK
<1>18. FaultOK'
       <2>1. fault \in {"aborted", "permanent"} => client'.requests # <<>> /\ client'.requests[1] = Ended
             <3> SUFFICES ASSUME fault \in {"aborted", "permanent"}
                          PROVE  mm # 0 /\ client'.requests[1] = Ended
                 BY <1>3
             <3>1. m # 0 /\ client.requests[1] = Ended
                   BY <1>1, <1>3 DEF FaultOK
             <3>2. 1 \in 1 .. m
                   BY <3>1, <1>3
             <3> QED
                 BY <3>1, <3>2, <1>3, <1>9, <1>12
       <2>2. fault = "unavailable" => answers' = <<>>
             BY <1>1, <1>4 DEF FaultOK
       <2> QED
           BY <2>1, <2>2, <1>1, <1>2, <1>10 DEF FaultOK
<1> QED
    BY <1>15, <1>16, <1>17, <1>18 DEF ServerOK

\* While the handshake is not over, what is written is not sent.
LEMMA UnsentServer ==
  ASSUME ServerOK, ~client.handshake, ~client'.handshake, client \in ClientType,
         SameSent(client, client'), IsOpen(client'.stream) <=> IsOpen(client.stream),
         \A u \in Users : Done(u)' = Done(u),
         IssuedGrows, LogOK, LogOK', UNCHANGED <<answers, fault, cloud>>
  PROVE  ServerOK'
<1>1. SentOK /\ OpeningOK /\ AnswersOK /\ FaultOK
      BY DEF ServerOK
<1>2. PICK v \in Users : v = client.session
      BY DEF ClientType
<1>3. /\ client'.requests = client.requests /\ client'.session = v
      /\ answers' = answers /\ fault' = fault /\ committed' = committed
      BY <1>2 DEF SameSent, cloud
<1> DEFINE n == Len(client.requests)
           L == Len(issued[v])
           LL == Len(issued'[v])
<1>4. n \in Nat
      BY PipelineLength
<1>5. L \in Nat /\ LL \in Nat /\ L <= LL /\ \A i \in 1 .. L : issued'[v][i] = issued[v][i]
      BY DEF LogOK, IssuedGrows
<1>6. ASSUME NEW p \in Nat, SentAfter(p) PROVE SentAfter(p)'
      <2>1. /\ Done(v) <= p /\ p + n <= L
            /\ \A i \in 1 .. n : client.requests[i] = issued[v][p + i]
            /\ \A i \in 1 .. p : Over(issued[v][i])
            BY <1>2, <1>6 DEF SentAfter
      <2> HIDE DEF n, L, LL
      <2>2. p + n <= LL /\ p <= L
            BY <1>4, <1>5, <2>1
      <2>3. ASSUME NEW i \in 1 .. n PROVE client.requests[i] = issued'[v][p + i]
            <3>1. p + i \in 1 .. L
                  BY <1>4, <1>5, <2>1
            <3> QED
                BY <1>5, <2>1, <3>1
      <2>4. ASSUME NEW i \in 1 .. p PROVE Over(issued[v][i])'
            <3>1. i \in 1 .. L
                  BY <1>5, <2>2
            <3> QED
                BY <1>3, <1>5, <2>1, <3>1 DEF Over
      <2>5. Done(client.session)' = Done(v)' /\ Done(v)' = Done(v)
            BY <1>3 DEF Done
      <2> QED
          BY <1>3, <2>1, <2>2, <2>3, <2>4, <2>5 DEF SentAfter, n, LL
<1>7. ASSUME NEW i \in 2 .. n, \E j \in 1 .. L : client.requests[i] = issued[v][j]
      PROVE  \E j \in 1 .. LL : client.requests[i] = issued'[v][j]
      <2>1. PICK j \in 1 .. L : client.requests[i] = issued[v][j]
            BY <1>7
      <2> HIDE DEF n, L, LL
      <2>2. j \in 1 .. LL /\ issued'[v][j] = issued[v][j]
            BY <1>5
      <2> QED
          BY <2>1, <2>2
<1>8. SentOK'
      <2>1. CASE client.requests = <<Handshake>>
            BY <2>1, <1>3 DEF SentOK
      <2>2. CASE /\ client.requests # <<>> /\ client.requests[1] = Ended
                 /\ \A i \in 2 .. n : \E j \in 1 .. L : client.requests[i] = issued[v][j]
            <3>1. \A i \in 2 .. n : \E j \in 1 .. LL : client.requests[i] = issued'[v][j]
                  BY <2>2, <1>7
            <3> QED
                BY <2>2, <3>1, <1>3 DEF SentOK
      <2>3. CASE \E p \in Nat : SentAfter(p)
            BY <2>3, <1>6 DEF SentOK
      <2> QED
          BY <2>1, <2>2, <2>3, <1>1, <1>2 DEF SentOK
<1>9. OpeningOK' /\ FaultOK' /\ AnswersOK'
      BY <1>1, <1>3 DEF OpeningOK, FaultOK, AnswersOK
<1> QED
    BY <1>8, <1>9 DEF ServerOK

LEMMA WriteStep ==
  ASSUME WInv, NEW w \in Writes, Write(w)
  PROVE  WInv' /\ WrittenBooks(client, client', w) /\ \A u \in Users : Done(u)' = Done(u)
<1> DEFINE d == WriteMutations(client, w)
<1>1. /\ ClientOK(client) /\ IdsOK(client) /\ CallbacksOK(client) /\ LogOK /\ ServerOK
      /\ client \in ClientType
      BY DEF WInv, ClientOK, LinkOK
<1>2. client.outcome[w] = "unwritten" /\ ClientStep(d)
      BY DEF Write
<1>3. /\ ClientOK(d) /\ IdsOK(d) /\ WrittenBooks(client, d, w) /\ SameLine(client, d)
      /\ IsOpen(d.stream) <=> IsOpen(client.stream)
      /\ Extended(client, d, 0)
      BY <1>1, <1>2, WriteEffect
<1> HIDE DEF d
<1>4. client' = d /\ UNCHANGED cloud /\ UNCHANGED <<answers, fault>>
      BY <1>2, <1>3 DEF ClientStep
<1>5. issued' = [issued EXCEPT ![client.user] = Append(@, w)]
      BY DEF Write
<1>6. CallbacksOK(client') /\ LogOK' /\ \A u \in Users : Done(u)' = Done(u)
      BY <1>1, <1>2, <1>3, <1>4, <1>5, WrittenLog
<1>7. IssuedGrows
      <2>1. ASSUME NEW u \in Users
            PROVE  /\ Len(issued[u]) <= Len(issued'[u])
                   /\ \A i \in 1 .. Len(issued[u]) : issued'[u][i] = issued[u][i]
            <3>1. issued[u] \in Seq(Writes) /\ issued \in [Users -> Seq(Writes)]
                  BY <1>1 DEF LogOK
            <3>2. CASE u = client.user
                  BY <3>1, <3>2, <1>5
            <3>3. CASE u # client.user
                  BY <3>1, <3>3, <1>5
            <3> QED
                BY <3>2, <3>3
      <2> QED
          BY <2>1 DEF IssuedGrows
<1>8. ServerOK'
      <2>1. CASE client.handshake
            <3>1. PICK v \in Users : v = client.user
                  BY <1>1 DEF ClientType
            <3>2. /\ v = client'.user /\ client.session = v /\ client'.session = v
                  /\ client'.handshake /\ Extended(client, client', 0)
                  BY <1>1, <1>3, <1>4, <2>1, <3>1 DEF WrittenBooks, SameLine, ClientOK
            <3>3. /\ answers \in Seq(Writes \union {Handshake}) /\ Len(answers) \in Nat
                  /\ answers' = answers /\ fault' = fault
                  BY <1>1, <1>4 DEF ServerOK, FaultOK
            <3>4. PICK k \in {0, 1} : k = 0
                  OBVIOUS
            <3>5. /\ answers' \in Seq(Writes \union {Handshake}) /\ k <= Len(answers)
                  /\ Len(answers') = Len(answers) - k
                  /\ \A i \in 1 .. Len(answers') : answers'[i] = answers[i + k]
                  BY <3>3, <3>4
            <3>6. Done(v)' = Done(v) + k
                  BY <1>1, <1>6, <3>4, LogTypes
            <3>7. ClientOK(client') /\ Extended(client, client', k) /\ UNCHANGED <<fault, cloud>>
                  BY <1>3, <1>4, <3>2, <3>4
            <3> QED
                BY <1>1, <1>6, <1>7, <2>1, <3>1, <3>2, <3>5, <3>6, <3>7, ExtendedServer
      <2>2. CASE ~client.handshake
            <3>1. ~Settling(client)
                  BY <2>2 DEF Settling
            <3>2. SameSent(client, client') /\ ~client'.handshake
                  BY <1>3, <1>4, <2>2, <3>1 DEF SameSent, SameLine, Extended
            <3> QED
                BY <1>1, <1>3, <1>4, <1>6, <1>7, <2>2, <3>2, UnsentServer
      <2> QED
          BY <2>1, <2>2
<1>9. WInv'
      BY <1>3, <1>4, <1>6, <1>8 DEF WInv
<1> QED
    BY <1>3, <1>4, <1>6, <1>9

\* The answer to the handshake: the whole pipeline is sent.
LEMMA HandshakeStep ==
  ASSUME WInv, ReadAnswer, ~client.handshake
  PROVE  WInv' /\ Unnoticed
<1> DEFINE d == HandshakeComplete(client)
           n == Len(client.pipeline)
<1>1. /\ ClientOK(client) /\ IdsOK(client) /\ CallbacksOK(client) /\ LogOK /\ FaultOK /\ OpeningOK
      /\ client \in ClientType
      BY DEF WInv, ServerOK, ClientOK, LinkOK
<1>2. /\ answers = <<Handshake>> /\ client.requests = <<>> /\ fault = "ok"
      /\ IsOpen(client.stream)
      BY <1>1 DEF ReadAnswer, FaultOK, OpeningOK
<1>3. /\ client' = d /\ answers' = <<>> /\ fault' = "ok" /\ UNCHANGED <<cloud, issued>>
      BY <1>2 DEF ReadAnswer
<1>4. /\ ClientOK(d) /\ SameBooks(client, d) /\ d.handshake /\ d.session = client.session
      /\ d.pipeline = client.pipeline /\ IsOpen(d.stream)
      /\ Len(d.requests) = Len(client.requests) + n
      /\ \A i \in 1 .. n : d.requests[Len(client.requests) + i] = client.pipeline[i].write
      BY <1>1, <1>2, HandshakeEffect
<1>5. n \in Nat /\ \A i \in 1 .. n : client.pipeline[i].write \in Writes
      BY <1>1, PipelineLength DEF BatchType
<1> HIDE DEF d, n
<1>6. Len(d.requests) = n /\ \A i \in 1 .. n : d.requests[i] = client.pipeline[i].write
      BY <1>2, <1>4, <1>5
<1>7. IdsOK(client') /\ CallbacksOK(client')
      BY <1>1, <1>3, <1>4, SameBooksOK
<1>8. LogOK' /\ \A u \in Users : Done(u)' = Done(u)
      BY <1>1, <1>3, <1>4, SameLog DEF SameBooks
<1>9. PICK v \in Users : v = client.user
      BY <1>1 DEF ClientType
<1>10. client.session = v /\ client'.session = v /\ client'.user = v
       BY <1>1, <1>2, <1>3, <1>4, <1>9 DEF ClientOK, SameBooks
<1>11. /\ Done(v) \in Nat /\ Done(v) + n <= Len(issued[v])
       /\ \A i \in 1 .. n : client.pipeline[i].write = issued[v][Done(v) + i]
       BY <1>1, <1>9, PipelineIsNext, LogTypes DEF n
<1>12. SentAfter(Done(v))'
       <2>1. /\ \A i \in 1 .. n : d.requests[i] = issued[v][Done(v) + i]
             /\ \A i \in 1 .. Done(v) : Over(issued[v][i])
             BY <1>1, <1>6, <1>11 DEF LogOK
       <2>2. issued' = issued /\ committed' = committed
             BY <1>3 DEF cloud
       <2>3. /\ Done(client.session)' = Done(v) /\ Done(v)' = Done(v)
             /\ client'.session = v /\ client'.handshake /\ client'.requests = d.requests
             /\ client'.pipeline = client.pipeline
             <3>1. Done(client.session)' = Done(v)'
                   BY <1>10 DEF Done
             <3> QED
                 BY <1>3, <1>4, <1>8, <1>10, <3>1
       <2>4. /\ Done(client.session)' <= Done(v)' /\ Done(v)' + n <= Len(issued'[v])
             /\ Done(v)' + n = Done(client.session)' + n
             BY <1>11, <2>2, <2>3
       <2> QED
           BY <1>6, <2>1, <2>2, <2>3, <2>4 DEF SentAfter, Over, n
<1>13. SentOK'
       <2>1. Done(v)' \in Nat
             BY <1>8, <1>11
       <2> QED
           BY <1>8, <1>11, <1>12, <2>1 DEF SentOK
<1>14. answers' \in Seq(Writes \union {Handshake}) /\ Len(answers') = 0
       BY <1>3, EmptySeq
<1>15. AnswersOK'
       <2>1. d.requests # <<>> => d.requests[1] # Ended
             <3>1. d.requests # <<>> => 1 \in 1 .. n
                   <4>1. d \in ClientType
                         BY <1>4 DEF ClientOK, LinkOK
                   <4>2. d.requests = <<>> <=> Len(d.requests) = 0
                         BY <4>1, PipelineLength
                   <4> QED
                       BY <1>5, <1>6, <4>2
             <3> QED
                 BY <1>5, <1>6, <3>1, NoWordIsAWrite
       <2>2. /\ client'.requests = d.requests /\ client'.pipeline = client.pipeline
             /\ answers' = <<>> /\ fault' = "ok" /\ \A i \in 1 .. 0 : FALSE
             /\ 0 <= n /\ 0 + n = n
             BY <1>3, <1>4, <1>5
       <2> QED
           BY <1>6, <1>14, <2>1, <2>2 DEF AnswersOK, n
<1>16. OpeningOK' /\ FaultOK'
       BY <1>3, <1>4, <1>14 DEF OpeningOK, FaultOK, Faults
<1> QED
    BY <1>3, <1>4, <1>7, <1>8, <1>13, <1>15, <1>16
    DEF WInv, ServerOK, SameBooks, Unnoticed

\* The answer to a write: it is the next one not settled, and stored.
LEMMA ResultStep ==
  ASSUME WInv, ReadAnswer, client.handshake, NEW v \in Users, v = client.user
  PROVE  /\ WInv' /\ Done(v)' = Done(v) + 1
         /\ \A u \in Users \ {v} : Done(u)' = Done(u)
         /\ Done(v) + 1 <= Len(issued[v]) /\ issued[v][Done(v) + 1] \in committed \ Refused
         /\ Answered(client, client', issued[v][Done(v) + 1], "ok")
<1> DEFINE d == MutationResult(client)
           w == issued[v][Done(v) + 1]
           id == client.pipeline[1].id
<1>1. /\ ClientOK(client) /\ LogOK /\ IdsOK(client) /\ CallbacksOK(client) /\ ServerOK
      /\ client \in ClientType /\ answers \in Seq(Writes \union {Handshake}) /\ answers # <<>>
      BY DEF WInv, ServerOK, FaultOK, ClientOK, LinkOK, ReadAnswer
<1>2. /\ client.pipeline # <<>> /\ client.session = v /\ Head(client.pipeline) = client.pipeline[1]
      /\ id \in Ids(client, v) /\ Place(Ids(client, v), id) = 1
      /\ client.queue[v][id] = w /\ w \in committed \ Refused
      BY <1>1, ResultIsForHead
<1>3. client' = d /\ answers' = Tail(answers) /\ UNCHANGED <<fault, cloud, issued>>
      BY DEF ReadAnswer
<1>4. /\ ClientOK(d) /\ d.handshake /\ d.session = client.session
      /\ SettledBooks(client, d, Head(client.pipeline).id, "ok")
      /\ Extended(client, d, 1)
      BY <1>1, <1>2, ResultEffect
<1> HIDE DEF d, id, w
<1>5. SettledBooks(client, client', id, "ok")
      BY <1>2, <1>3, <1>4 DEF id
<1>6. Over(client.queue[v][id])
      BY <1>2 DEF Over
<1>7. /\ IdsOK(client') /\ CallbacksOK(client') /\ LogOK'
      /\ Done(v)' = Done(v) + 1
      /\ \A u \in Users \ {v} : Done(u)' = Done(u)
      /\ Answered(client, client', client.queue[v][id], "ok")
      BY <1>1, <1>2, <1>3, <1>5, <1>6, SettledLog
<1>8. ServerOK'
      <2>1. PICK k \in {0, 1} : k = 1
            OBVIOUS
      <2>2. /\ answers' \in Seq(Writes \union {Handshake}) /\ k <= Len(answers)
            /\ Len(answers') = Len(answers) - k
            /\ \A i \in 1 .. Len(answers') : answers'[i] = answers[i + k]
            BY <1>1, <1>3, <2>1, HeadTailProperties
      <2>3. Done(v)' = Done(v) + k /\ Extended(client, client', k)
            BY <1>3, <1>4, <1>7, <2>1
      <2>4. /\ v = client'.user /\ client.session = v /\ client'.session = v
            /\ client'.handshake /\ ClientOK(client')
            BY <1>2, <1>3, <1>4, <1>5 DEF SettledBooks
      <2>5. IssuedGrows
            <3>1. issued' = issued /\ \A u \in Users : issued[u] \in Seq(Writes)
                  BY <1>1, <1>3 DEF LogOK
            <3> QED
                BY <3>1 DEF IssuedGrows
      <2> QED
          BY <1>1, <1>3, <1>7, <2>2, <2>3, <2>4, <2>5, ExtendedServer
<1>9. WInv'
      BY <1>3, <1>4, <1>7, <1>8 DEF WInv
<1>10. Done(v) + 1 <= Len(issued[v])
       <2>1. /\ Done(v) \in Nat /\ Done(v) + Cardinality(Ids(client, v)) = Len(issued[v])
             BY <1>1, LogTypes
       <2>2. 1 \in 1 .. Cardinality(Ids(client, v)) /\ Cardinality(Ids(client, v)) \in Nat
             <3>1. Ids(client, v) \in FiniteIds /\ Cardinality(Ids(client, v)) \in Nat
                   BY <1>1, QueueOfUser
             <3> QED
                 BY <1>2, <3>1, PlaceInRange
       <2> QED
           BY <2>1, <2>2
<1> QED
    BY <1>2, <1>7, <1>9, <1>10 DEF w

-----------------------------------------------------------------------------
(* The steps of the server.                                                *)

\* They take requests away, and may store a write.
LEMMA ServerTakes ==
  ASSUME WInv, NEW r \in Seq(RequestType), client' = [client EXCEPT !.requests = r],
         issued' = issued, committed \subseteq committed', committed' \subseteq Writes,
         stored' \in [Users -> Writes \union {Nothing}],
         \A u \in Users : \/ stored'[u] = stored[u]
                          \/ \E j \in 1 .. Len(issued[u]) : stored'[u] = issued[u][j]
  PROVE  /\ ClientOK(client') /\ IdsOK(client') /\ CallbacksOK(client') /\ LogOK'
         /\ \A u \in Users : Done(u)' = Done(u)
         /\ client'.requests = r /\ client'.stream = client.stream
         /\ client'.pipeline = client.pipeline
         /\ SameBooks(client, client') /\ SameLine(client, client')
<1>1. /\ ClientOK(client) /\ IdsOK(client) /\ CallbacksOK(client) /\ LogOK
      /\ client \in ClientType /\ PipelineOK(client)
      BY DEF WInv, ClientOK, LinkOK
<1>2. /\ client' \in ClientType /\ client'.requests = r /\ client'.stream = client.stream
      /\ client'.pipeline = client.pipeline
      /\ SameBooks(client, client') /\ SameLine(client, client')
      BY <1>1 DEF ClientType, SameBooks, SameLine
<1>3. IdsOK(client') /\ CallbacksOK(client')
      BY <1>1, <1>2, SameBooksOK
<1>4. PipelineOK(client')
      BY <1>1, <1>2 DEF PipelineOK, SameBooks, Ids
<1>5. ClientOK(client')
      BY <1>1, <1>2, <1>4 DEF ClientOK, LinkOK, SameLine, SameBooks
<1>6. \A u \in Users : Done(u)' = Done(u) /\ Ids(client', u) = Ids(client, u)
      BY <1>2 DEF Done, Ids, SameBooks
<1>7. client'.queue = client.queue /\ client'.outcome = client.outcome
      BY <1>2 DEF SameBooks
<1>8. ASSUME NEW u \in Users
      PROVE  /\ Done(u)' >= 0
             /\ \A id \in Ids(client', u) :
                  client'.queue[u][id] = issued'[u][Done(u)' + Place(Ids(client', u), id)]
             /\ \A i \in 1 .. Done(u)' : Over(issued[u][i])'
             /\ stored'[u] # Nothing => \E j \in 1 .. Len(issued'[u]) : stored'[u] = issued'[u][j]
      <2>1. /\ Done(u) >= 0
            /\ \A id \in Ids(client, u) :
                 client.queue[u][id] = issued[u][Done(u) + Place(Ids(client, u), id)]
            /\ \A i \in 1 .. Done(u) : Over(issued[u][i])
            /\ stored[u] # Nothing => \E j \in 1 .. Len(issued[u]) : stored[u] = issued[u][j]
            BY <1>1 DEF LogOK
      <2>2. \A i \in 1 .. Done(u) : Over(issued[u][i])'
            BY <2>1 DEF Over
      <2> QED
          BY <1>6, <1>7, <2>1, <2>2
<1>9. /\ issued' \in [Users -> Seq(Writes)]
      /\ \A u \in Users : \A i \in 1 .. Len(issued'[u]) : client'.outcome[issued'[u][i]] # "unwritten"
      /\ \A u, v \in Users : \A i \in 1 .. Len(issued'[u]), j \in 1 .. Len(issued'[v]) :
           issued'[u][i] = issued'[v][j] => u = v /\ i = j
      BY <1>1, <1>7 DEF LogOK
<1>10. LogOK'
       BY <1>8, <1>9 DEF LogOK
<1> QED
    BY <1>2, <1>3, <1>5, <1>6, <1>10

\* A write the server comes to is the next one of the session after those that are
\* over; the client waits for the answer, unless it has lost the stream.
LEMMA HeadIsWrite ==
  ASSUME WInv, client.requests # <<>>, Head(client.requests) \in Writes,
         NEW v \in Users, v = client.session
  PROVE  \E p \in Nat :
           /\ SentAfter(p) /\ p + 1 <= Len(issued[v]) /\ Head(client.requests) = issued[v][p + 1]
           /\ Listening =>
                /\ client.handshake /\ v = client.user
                /\ Len(answers) < Len(client.pipeline) /\ p = Done(v) + Len(answers)
                /\ client.pipeline[Len(answers) + 1].write = Head(client.requests)
           /\ ~Listening /\ IsOpen(client.stream) => fault = "unavailable" /\ answers = <<>>
<1> DEFINE m == Len(client.requests)
           n == Len(client.pipeline)
           a == Len(answers)
           L == Len(issued[v])
           D == Done(v)
<1>1. /\ ClientOK(client) /\ client \in ClientType /\ LogOK
      /\ SentOK /\ OpeningOK /\ AnswersOK /\ FaultOK
      BY DEF WInv, ServerOK, ClientOK, LinkOK
<1>2. /\ client.requests \in Seq(RequestType) /\ m \in Nat /\ n \in Nat /\ 1 <= m
      /\ Head(client.requests) = client.requests[1]
      BY <1>1, PipelineLength
<1>3. L \in Nat /\ D \in Nat /\ a \in Nat
      BY <1>1, LogTypes DEF FaultOK
<1>4. client.requests[1] # Handshake /\ client.requests[1] # Ended
      BY <1>2, NoWordIsAWrite
<1>5. PICK p \in Nat : SentAfter(p)
      BY <1>1, <1>2, <1>4 DEF SentOK
<1>6. /\ p + m <= L /\ \A i \in 1 .. m : client.requests[i] = issued[v][p + i]
      /\ client.handshake => p + m = D + n
      BY <1>5 DEF SentAfter
<1>7. p + 1 <= L /\ client.requests[1] = issued[v][p + 1]
      <2> HIDE DEF m, n, a, L, D
      <2> QED
          BY <1>2, <1>3, <1>6
<1>8. ASSUME Listening
      PROVE  /\ client.handshake /\ v = client.user /\ a < n /\ p = D + a
             /\ client.pipeline[a + 1].write = client.requests[1]
      <2>1. client.handshake
            BY <1>1, <1>2, <1>4, <1>8 DEF OpeningOK, Listening
      <2>2. v = client.user
            BY <1>1, <1>8 DEF ClientOK, Listening
      <2>3. a + m = n
            BY <1>1, <1>8, <2>1 DEF AnswersOK, Listening
      <2> HIDE DEF m, n, a, L, D
      <2>4. a < n /\ p = D + a
            BY <1>2, <1>3, <1>6, <2>1, <2>3
      <2>5. client.pipeline[a + 1].write = issued[v][D + (a + 1)]
            <3>1. a + 1 \in 1 .. n
                  BY <1>2, <1>3, <2>4
            <3> QED
                BY <1>1, <2>2, <3>1, PipelineIsNext DEF D, n
      <2>6. D + (a + 1) = p + 1
            BY <1>3, <2>4
      <2> QED
          BY <1>7, <2>1, <2>2, <2>4, <2>5, <2>6
<1>9. ~Listening /\ IsOpen(client.stream) => fault = "unavailable" /\ answers = <<>>
      BY <1>1, <1>4 DEF FaultOK, Faults, Listening
<1> QED
    BY <1>2, <1>5, <1>7, <1>8, <1>9

\* The handshake comes alone.
LEMMA HeadIsHandshake ==
  ASSUME WInv, client.requests # <<>>, Head(client.requests) = Handshake
  PROVE  client.requests = <<Handshake>> /\ ~client.handshake
<1>1. SentOK /\ LogOK /\ client \in ClientType
      BY DEF WInv, ServerOK, ClientOK, LinkOK
<1>2. PICK v \in Users : v = client.session
      BY <1>1 DEF ClientType
<1>3. /\ Len(client.requests) \in Nat /\ 1 <= Len(client.requests) /\ client.requests[1] = Handshake
      BY <1>1, PipelineLength
<1>4. ASSUME NEW p \in Nat, SentAfter(p) PROVE FALSE
      <2>1. /\ p + Len(client.requests) <= Len(issued[v]) /\ client.requests[1] = issued[v][p + 1]
            BY <1>2, <1>3, <1>4 DEF SentAfter
      <2>2. Len(issued[v]) \in Nat /\ \A i \in 1 .. Len(issued[v]) : issued[v][i] \in Writes
            BY <1>1, LogTypes
      <2>3. p + 1 \in 1 .. Len(issued[v])
            BY <1>3, <2>1, <2>2
      <2> QED
          BY <1>3, <2>1, <2>2, <2>3, NoWordIsAWrite
<1> QED
    BY <1>1, <1>3, <1>4, NoWordIsAWrite DEF SentOK

LEMMA ServeHandshakeStep ==
  ASSUME WInv, ServeHandshake
  PROVE  WInv' /\ Unnoticed
<1>1. /\ client.requests = <<Handshake>> /\ ~client.handshake
      /\ OpeningOK /\ FaultOK /\ client \in ClientType /\ LogOK
      BY HeadIsHandshake DEF ServeHandshake, WInv, ServerOK, ClientOK, LinkOK
<1>2. /\ client' = [client EXCEPT !.requests = <<>>]
      /\ answers' = IF Listening THEN Append(answers, Handshake) ELSE answers
      /\ UNCHANGED <<fault, cloud, issued>>
      BY <1>1 DEF ServeHandshake, Served
<1>3. <<>> \in Seq(RequestType) /\ Len(<<>>) = 0
      BY EmptySeq
<1>4. /\ committed' = committed /\ stored' = stored /\ issued' = issued /\ fault' = fault
      /\ committed \subseteq Writes /\ stored \in [Users -> Writes \union {Nothing}]
      BY <1>1, <1>2 DEF cloud, LogOK
<1>5. /\ ClientOK(client') /\ IdsOK(client') /\ CallbacksOK(client') /\ LogOK'
      /\ \A u \in Users : Done(u)' = Done(u)
      /\ client'.requests = <<>> /\ client'.stream = client.stream
      /\ SameBooks(client, client') /\ SameLine(client, client')
      BY <1>2, <1>3, <1>4, ServerTakes
<1>6. /\ answers' \in Seq(Writes \union {Handshake})
      /\ IsOpen(client.stream) => answers' = IF fault = "ok" THEN <<Handshake>> ELSE <<>>
      /\ ~IsOpen(client.stream) => answers' = <<>>
      <2>1. answers = <<>>
            BY <1>1 DEF OpeningOK, FaultOK
      <2>2. answers' = IF Listening THEN <<Handshake>> ELSE <<>>
            BY <1>2, <2>1
      <2>3. answers' \in Seq(Writes \union {Handshake})
            <3>1. <<Handshake>> \in Seq(Writes \union {Handshake})
                  OBVIOUS
            <3> QED
                BY <1>1, <2>1, <2>2, <3>1 DEF FaultOK
      <2> QED
          BY <2>1, <2>2, <2>3 DEF Listening
<1>7. SentOK'
      <2>1. PICK v \in Users : v = client.session
            BY <1>1 DEF ClientType
      <2>2. /\ Done(v) \in Nat /\ Done(v) <= Len(issued[v])
            /\ \A i \in 1 .. Done(v) : Over(issued[v][i])
            <3>1. Done(v) \in Nat /\ Done(v) + Cardinality(Ids(client, v)) = Len(issued[v])
                  BY <1>1, LogTypes
            <3>2. Cardinality(Ids(client, v)) \in Nat
                  BY <1>1, QueueOfUser
            <3>3. Done(v) <= Len(issued[v])
                  BY <3>1, <3>2
            <3> QED
                BY <1>1, <3>1, <3>3 DEF LogOK
      <2>3. client'.session = v /\ ~client'.handshake
            BY <1>1, <1>5, <2>1 DEF SameLine
      <2>4. Done(client.session)' = Done(v)' /\ Done(v)' = Done(v)
            BY <1>5, <2>3 DEF Done
      <2>5. SentAfter(Done(v))'
            <3>1. /\ Done(v) + 0 <= Len(issued[v]) /\ Done(client.session)' <= Done(v)
                  BY <2>2, <2>4
            <3> QED
                BY <1>3, <1>4, <1>5, <2>2, <2>3, <2>4, <3>1 DEF SentAfter, Over
      <2> QED
          BY <2>2, <2>4, <2>5 DEF SentOK
<1>8. OpeningOK' /\ AnswersOK'
      BY <1>1, <1>4, <1>5, <1>6 DEF OpeningOK, AnswersOK, SameLine
<1>9. FaultOK'
      <2>1. fault \notin {"aborted", "permanent"}
            BY <1>1, NoWordIsAWrite DEF FaultOK
      <2> QED
          BY <1>1, <1>4, <1>5, <1>6, <2>1 DEF FaultOK
<1> QED
    BY <1>2, <1>5, <1>7, <1>8, <1>9 DEF WInv, ServerOK, SameBooks, Unnoticed

\* The server stores the write it comes to, which is then over.
LEMMA ServeWriteStep ==
  ASSUME WInv, ServeWrite, NEW v \in Users, v = client.session
  PROVE  /\ WInv' /\ SameBooks(client, client')
         /\ \E p \in Nat :
              /\ Done(v) <= p /\ p + 1 <= Len(issued[v]) /\ issued[v][p + 1] \notin Refused
              /\ \A i \in 1 .. p : Over(issued[v][i])
              /\ stored' = [stored EXCEPT ![v] = issued[v][p + 1]]
              /\ committed' = committed \union {issued[v][p + 1]}
<1> DEFINE m == Len(client.requests)
           n == Len(client.pipeline)
           a == Len(answers)
           L == Len(issued[v])
           D == Done(v)
           r == Tail(client.requests)
           w == Head(client.requests)
<1>1. /\ ClientOK(client) /\ client \in ClientType /\ LogOK
      /\ OpeningOK /\ AnswersOK /\ FaultOK
      BY DEF WInv, ServerOK, ClientOK, LinkOK
<1>2. /\ client.requests # <<>> /\ w \in Writes \ Refused
      /\ client' = [client EXCEPT !.requests = r]
      /\ answers' = IF Listening THEN Append(answers, w) ELSE answers
      /\ stored' = [stored EXCEPT ![v] = w] /\ committed' = committed \union {w}
      /\ fault' = fault /\ issued' = issued
      BY DEF ServeWrite, Served
<1>3. /\ client.requests \in Seq(RequestType) /\ m \in Nat /\ n \in Nat /\ 1 <= m
      /\ w = client.requests[1] /\ r \in Seq(RequestType) /\ Len(r) = m - 1
      /\ \A i \in 1 .. m - 1 : r[i] = client.requests[i + 1]
      BY <1>1, <1>2, PipelineLength, HeadTailProperties
<1>4. L \in Nat /\ D \in Nat /\ a \in Nat /\ \A i \in 1 .. L : issued[v][i] \in Writes
      BY <1>1, LogTypes DEF FaultOK
<1>5. PICK p \in Nat :
        /\ SentAfter(p) /\ p + 1 <= L /\ w = issued[v][p + 1]
        /\ Listening =>
             /\ client.handshake /\ v = client.user
             /\ a < n /\ p = D + a /\ client.pipeline[a + 1].write = w
        /\ ~Listening /\ IsOpen(client.stream) => fault = "unavailable" /\ answers = <<>>
      BY <1>2, HeadIsWrite
<1>6. /\ D <= p /\ p + m <= L /\ \A i \in 1 .. m : client.requests[i] = issued[v][p + i]
      /\ \A i \in 1 .. p : Over(issued[v][i])
      /\ client.handshake => p + m = D + n
      BY <1>5 DEF SentAfter
<1> HIDE DEF m, n, a, L, D, r, w
<1>7. /\ stored' \in [Users -> Writes \union {Nothing}] /\ committed' \subseteq Writes
      /\ \A u \in Users : \/ stored'[u] = stored[u]
                          \/ \E j \in 1 .. Len(issued[u]) : stored'[u] = issued[u][j]
      <2>1. stored \in [Users -> Writes \union {Nothing}] /\ committed \subseteq Writes
            BY <1>1 DEF LogOK
      <2>2. p + 1 \in 1 .. Len(issued[v])
            BY <1>4, <1>5 DEF L
      <2>3. stored'[v] = issued[v][p + 1] /\ \A u \in Users \ {v} : stored'[u] = stored[u]
            BY <1>2, <1>5, <2>1
      <2> QED
          BY <1>2, <2>1, <2>2, <2>3
<1>8. /\ ClientOK(client') /\ IdsOK(client') /\ CallbacksOK(client') /\ LogOK'
      /\ \A u \in Users : Done(u)' = Done(u)
      /\ client'.requests = r /\ client'.stream = client.stream
      /\ client'.pipeline = client.pipeline
      /\ SameBooks(client, client') /\ SameLine(client, client')
      <2>1. committed \subseteq committed'
            BY <1>2
      <2> QED
          BY <1>2, <1>3, <1>7, <2>1, ServerTakes
<1>9. /\ client'.session = v /\ client'.user = client.user /\ client'.handshake = client.handshake
      /\ Done(v)' = D
      BY <1>8 DEF SameLine, SameBooks, D
<1>10. SentOK'
       <2>1. \A i \in 1 .. m - 1 : r[i] = issued[v][(p + 1) + i]
             <3> TAKE i \in 1 .. m - 1
             <3>1. i + 1 \in 1 .. m /\ p + (i + 1) = (p + 1) + i
                   BY <1>3
             <3> QED
                 BY <1>3, <1>6, <3>1
       <2>2. \A i \in 1 .. p + 1 : Over(issued[v][i])'
             <3> TAKE i \in 1 .. p + 1
             <3>1. i \in 1 .. p \/ i = p + 1
                   OBVIOUS
             <3> QED
                 BY <1>2, <1>5, <1>6, <3>1 DEF Over
       <2>3. /\ D <= p + 1 /\ (p + 1) + (m - 1) <= L
             /\ client.handshake => (p + 1) + (m - 1) = D + n
             BY <1>3, <1>4, <1>6
       <2>4. Done(client.session)' = D
             BY <1>9 DEF Done
       <2>5. SentAfter(p + 1)'
             BY <1>2, <1>3, <1>8, <1>9, <2>1, <2>2, <2>3, <2>4 DEF SentAfter, Over, L, n
       <2> QED
           BY <2>5 DEF SentOK
<1>11. OpeningOK'
       BY <1>2, <1>5, <1>8, <1>9 DEF OpeningOK, Listening
<1>12. answers' \in Seq(Writes \union {Handshake})
       BY <1>1, <1>2 DEF FaultOK
<1>13. AnswersOK'
       <2>1. CASE Listening
             <3>1. /\ client.handshake /\ v = client.user /\ a < n /\ p = D + a
                   /\ client.pipeline[a + 1].write = w /\ fault = "ok"
                   BY <1>5, <2>1 DEF Listening
             <3>2. /\ Len(answers') = a + 1 /\ answers'[a + 1] = w
                   /\ \A i \in 1 .. a : answers'[i] = answers[i]
                   <4>1. answers \in Seq(Writes \union {Handshake}) /\ a = Len(answers)
                         BY <1>1 DEF FaultOK, a
                   <4>2. answers' = Append(answers, w) /\ w \in Writes \union {Handshake}
                         BY <1>2, <2>1
                   <4> QED
                       BY <4>1, <4>2
             <3>3. ASSUME NEW i \in 1 .. a + 1
                   PROVE  /\ answers'[i] = client.pipeline[i].write
                          /\ answers'[i] \in committed' \ Refused
                   <4>1. i \in 1 .. a \/ i = a + 1
                         BY <1>4
                   <4>2. CASE i \in 1 .. a
                         <5>1. answers[i] = client.pipeline[i].write /\ answers[i] \in committed \ Refused
                               BY <1>1, <3>1, <4>2 DEF AnswersOK, a
                         <5> QED
                             BY <1>2, <3>2, <4>2, <5>1
                   <4> QED
                       BY <1>2, <3>1, <3>2, <4>1, <4>2
             <3>4. \E j \in 1 .. L : j >= D + (a + 1) /\ stored'[v] = issued[v][j]
                   <4>1. p + 1 \in 1 .. L /\ p + 1 >= D + (a + 1)
                         BY <1>4, <1>5, <3>1
                   <4>2. stored'[v] = w
                         BY <1>1, <1>2 DEF LogOK
                   <4> QED
                       BY <1>5, <4>1, <4>2
             <3>5. (a + 1) + (m - 1) = n /\ a + 1 <= n
                   <4>1. p + m = D + n /\ p = D + a /\ a < n
                         BY <1>6, <3>1
                   <4>2. m \in Nat /\ n \in Nat /\ a \in Nat /\ D \in Nat /\ p \in Nat
                         BY <1>3, <1>4
                   <4> QED
                       BY <4>1, <4>2
             <3>6. r # <<>> => r[1] # Ended
                   <4> SUFFICES ASSUME r # <<>> PROVE r[1] \in Writes
                       BY NoWordIsAWrite
                   <4>1. 1 \in 1 .. m - 1
                         BY <1>3
                   <4>2. r[1] = client.requests[1 + 1] /\ 1 + 1 \in 1 .. m
                         BY <1>3, <4>1
                   <4>3. client.requests[1 + 1] = issued[v][p + (1 + 1)] /\ p + (1 + 1) \in 1 .. L
                         BY <1>3, <1>4, <1>6, <4>2
                   <4> QED
                       BY <1>4, <4>2, <4>3
             <3>7. Done(client.user)' = D /\ client'.user = v
                   BY <1>9, <3>1 DEF Done
             <3>8. /\ client'.requests = r /\ client'.pipeline = client.pipeline
                   /\ fault' = "ok" /\ issued' = issued /\ Len(r) = m - 1
                   BY <1>2, <1>3, <1>8, <3>1
             <3> QED
                 BY <3>2, <3>3, <3>4, <3>5, <3>6, <3>7, <3>8 DEF AnswersOK, L, n
       <2>2. CASE ~Listening
             <3>1. client'.handshake => fault' = "unavailable" /\ answers' = <<>>
                   BY <1>1, <1>2, <1>5, <1>9, <2>2 DEF ClientOK
             <3>2. client' \in ClientType
                   BY <1>8 DEF ClientOK, LinkOK
             <3>3. 0 <= Len(client'.pipeline)
                   BY <3>2, PipelineLength
             <3>4. answers' = <<>> => Len(answers') = 0 /\ \A i \in 1 .. Len(answers') : FALSE
                   OBVIOUS
             <3> QED
                 BY <3>1, <3>3, <3>4 DEF AnswersOK
       <2> QED
           BY <2>1, <2>2
<1>14. FaultOK'
       <2>1. client.requests[1] # Ended
             BY <1>2, <1>3, NoWordIsAWrite
       <2> QED
           BY <1>1, <1>2, <1>5, <1>8, <1>12, <2>1 DEF FaultOK, Listening
<1>15. WInv'
       BY <1>8, <1>10, <1>11, <1>13, <1>14 DEF WInv, ServerOK
<1> QED
    BY <1>2, <1>5, <1>6, <1>8, <1>15 DEF D, L

\* The server ends the stream, for good over a write only if it refuses that one.
LEMMA EndStreamStep ==
  ASSUME WInv, NEW status \in {"aborted", "permanent"}, EndStream(status),
         UNCHANGED answers, client.requests # <<>>,
         Listening /\ client.handshake /\ status = "permanent" =>
           /\ Len(answers) < Len(client.pipeline)
           /\ client.pipeline[Len(answers) + 1].write \in Refused
  PROVE  WInv' /\ Unnoticed
<1>1. /\ ClientOK(client) /\ client \in ClientType /\ LogOK
      /\ OpeningOK /\ AnswersOK /\ FaultOK
      BY DEF WInv, ServerOK, ClientOK, LinkOK
<1>2. /\ client' = [client EXCEPT !.requests = <<Ended>>] /\ answers' = answers
      /\ fault' = IF Listening THEN status ELSE fault
      /\ issued' = issued /\ stored' = stored /\ committed' = committed
      BY DEF EndStream, cloud
<1>3. <<Ended>> \in Seq(RequestType)
      BY DEF RequestType
<1>4. stored' \in [Users -> Writes \union {Nothing}] /\ committed' \subseteq Writes
      BY <1>1, <1>2 DEF LogOK
<1>5. /\ ClientOK(client') /\ IdsOK(client') /\ CallbacksOK(client') /\ LogOK'
      /\ \A u \in Users : Done(u)' = Done(u)
      /\ client'.requests = <<Ended>> /\ client'.stream = client.stream
      /\ client'.pipeline = client.pipeline
      /\ SameBooks(client, client') /\ SameLine(client, client')
      BY <1>2, <1>3, <1>4, ServerTakes
<1>6. SentOK'
      BY <1>5 DEF SentOK
<1>7. OpeningOK'
      BY <1>1, <1>2, <1>5 DEF OpeningOK, Listening, SameLine
<1>8. AnswersOK'
      <2> SUFFICES ASSUME client.handshake PROVE AnswersOK'
          BY <1>5 DEF AnswersOK, SameLine
      <2>1. PICK v \in Users : v = client.user
            BY <1>1 DEF ClientType
      <2>2. client'.user = v /\ Done(client.user)' = Done(v)' /\ Done(v)' = Done(v)
            BY <1>5, <2>1 DEF Done, SameBooks
      <2>3. fault' # "ok"
            BY <1>1, <1>2 DEF ClientOK, Listening
      <2>4. fault' = "permanent" =>
              /\ Len(answers) < Len(client.pipeline)
              /\ client.pipeline[Len(answers) + 1].write \in Refused
            BY <1>1, <1>2 DEF AnswersOK
      <2> QED
          BY <1>1, <1>2, <1>5, <2>1, <2>2, <2>3, <2>4 DEF AnswersOK
<1>9. FaultOK'
      BY <1>1, <1>2, <1>5 DEF FaultOK, Listening, Faults
<1> QED
    BY <1>2, <1>5, <1>6, <1>7, <1>8, <1>9 DEF WInv, ServerOK, SameBooks, Unnoticed, cloud

LEMMA RefuseWriteStep ==
  ASSUME WInv, RefuseWrite
  PROVE  WInv' /\ Unnoticed
<1>1. /\ client.requests # <<>> /\ Head(client.requests) \in Writes
      /\ Head(client.requests) \in Refused /\ EndStream("permanent") /\ UNCHANGED answers
      BY WritesAssumption DEF RefuseWrite
<1>2. PICK v \in Users : v = client.session
      BY DEF WInv, ClientOK, LinkOK, ClientType
<1>3. Listening => /\ Len(answers) < Len(client.pipeline)
                   /\ client.pipeline[Len(answers) + 1].write \in Refused
      BY <1>1, <1>2, HeadIsWrite
<1> QED
    BY <1>1, <1>3, EndStreamStep

LEMMA RefuseHandshakeStep ==
  ASSUME WInv, RefuseHandshake
  PROVE  WInv' /\ Unnoticed
<1>1. /\ client.requests # <<>> /\ Head(client.requests) = Handshake
      /\ EndStream("permanent") /\ UNCHANGED answers
      BY DEF RefuseHandshake
<1>2. ~client.handshake
      BY <1>1, HeadIsHandshake
<1> QED
    BY <1>1, <1>2, EndStreamStep

LEMMA AbortWriteStep ==
  ASSUME WInv, AbortWrite
  PROVE  WInv' /\ Unnoticed
BY EndStreamStep DEF AbortWrite

\* The connection breaks: only the answers on their way are lost.
LEMMA BreakStep ==
  ASSUME WInv, Break
  PROVE  WInv' /\ Unnoticed
<1>1. /\ client' = client /\ answers' = <<>> /\ fault' = "unavailable"
      /\ issued' = issued /\ committed' = committed /\ stored' = stored
      /\ IsOpen(client.stream)
      BY DEF Break, cloud, Listening
<1>2. /\ ClientOK(client) /\ IdsOK(client) /\ CallbacksOK(client) /\ LogOK /\ SentOK
      /\ client \in ClientType
      BY DEF WInv, ServerOK, ClientOK, LinkOK
<1>3. ClientOK(client') /\ IdsOK(client') /\ CallbacksOK(client')
      BY <1>1, <1>2
<1>4. LogOK' /\ \A u \in Users : Done(u)' = Done(u)
      BY <1>1, <1>2, SameLog DEF cloud
<1>5. ASSUME NEW p \in Nat, SentAfter(p) PROVE SentAfter(p)'
      BY <1>1, <1>5 DEF SentAfter, Over, Done
<1>6. SentOK'
      BY <1>1, <1>2, <1>5 DEF SentOK
<1>7. answers' \in Seq(Writes \union {Handshake}) /\ Len(answers') = 0
      BY <1>1, EmptySeq
<1>8. 0 <= Len(client'.pipeline)
      BY <1>1, <1>2, PipelineLength
<1>9. OpeningOK' /\ AnswersOK' /\ FaultOK'
      BY <1>1, <1>7, <1>8 DEF OpeningOK, AnswersOK, FaultOK, Faults
<1>10. WInv'
       BY <1>3, <1>4, <1>6, <1>9 DEF WInv, ServerOK
<1> QED
    BY <1>1, <1>10 DEF cloud, Unnoticed

-----------------------------------------------------------------------------
(* The invariant.                                                          *)

LEMMA WInvInit == Init => WInv
<1> SUFFICES ASSUME Init PROVE WInv
    OBVIOUS
<1> DEFINE empty == [v \in Users |-> NoBatches]
<1>1. PICK u \in Users :
        client = [queue |-> empty, tokens |-> {},
                  user |-> u, nextId |-> 1, callbacks |-> empty,
                  network |-> TRUE, pipeline |-> <<>>,
                  stream |-> NewStream, handshake |-> FALSE, token |-> Nothing,
                  session |-> u, requests |-> <<>>,
                  outcome |-> [w \in Writes |-> "unwritten"]]
      BY DEF Init
<1>2. /\ answers = <<>> /\ fault = "ok" /\ stored = [v \in Users |-> Nothing] /\ committed = {}
      /\ issued = [v \in Users |-> <<>>]
      BY DEF Init
<1>3. /\ StreamOK(NewStream) /\ ~IsStarted(NewStream) /\ ~IsOpen(NewStream) /\ ~NewStream.idle
      BY NewStreamOK DEF NewStream
<1>4. NoBatches \in Queues /\ DOMAIN NoBatches = {} /\ Cardinality({}) = 0
      BY NoBatchesIsQueue, FS_EmptySet
<1>5. /\ <<>> \in Seq(BatchType) /\ <<>> \in Seq(RequestType) /\ <<>> \in Seq(Writes)
      /\ <<>> \in Seq(Writes \union {Handshake}) /\ Len(<<>>) = 0
      BY EmptySeq
<1>6. empty \in [Users -> Queues] /\ \A v \in Users : DOMAIN empty[v] = {}
      BY <1>4
<1> HIDE DEF empty
<1>7. client \in ClientType
      BY <1>1, <1>3, <1>5, <1>6 DEF ClientType, StreamOK, Outcomes
<1>8. \A v \in Users : Ids(client, v) = {} /\ DOMAIN client.callbacks[v] = {}
      BY <1>1, <1>6 DEF Ids
<1>9. ClientOK(client)
      BY <1>1, <1>3, <1>5, <1>7, PipelineAssumption DEF ClientOK, LinkOK, PipelineOK
<1>10. Made(client) = {}
       BY <1>1 DEF Made
<1>11. IdsOK(client)
       <2>1. Cardinality(Made(client)) = 0
             BY <1>4, <1>10
       <2>2. client.user = u /\ client.nextId = 1 /\ 1 \in 1 .. 0 + 1
             BY <1>1
       <2> QED
           BY <1>8, <2>1, <2>2 DEF IdsOK
<1>12. CallbacksOK(client)
       BY <1>8 DEF CallbacksOK
<1>13. \A v \in Users : issued[v] = <<>> /\ Done(v) = 0
       <2> TAKE v \in Users
       <2>1. issued[v] = <<>> /\ Len(issued[v]) = 0
             BY <1>2, <1>5
       <2>2. Cardinality(Ids(client, v)) = 0
             BY <1>4, <1>8
       <2> QED
           BY <2>1, <2>2 DEF Done
<1>14. LogOK
       <2>1. issued \in [Users -> Seq(Writes)] /\ stored \in [Users -> Writes \union {Nothing}]
             BY <1>2, <1>5
       <2>2. \A v \in Users : \A i \in 1 .. Len(issued[v]) : FALSE
             BY <1>5, <1>13
       <2> QED
           BY <1>2, <1>8, <1>13, <2>1, <2>2 DEF LogOK
<1>15. SentAfter(0)
       BY <1>1, <1>5, <1>13 DEF SentAfter
<1>16. ServerOK
       BY <1>1, <1>2, <1>3, <1>5, <1>15 DEF ServerOK, SentOK, OpeningOK, AnswersOK, FaultOK, Faults
<1> QED
    BY <1>9, <1>11, <1>12, <1>14, <1>16 DEF WInv

LEMMA WInvStep == WInv /\ [Next]_vars => WInv'
<1> SUFFICES ASSUME WInv, [Next]_vars PROVE WInv'
    OBVIOUS
<1>1. CASE \E w \in Writes : Write(w)
      BY <1>1, WriteStep
<1>2. CASE \E u \in Users : ChangeCredentials(u)
      BY <1>2, ChangeCredentialsStep
<1>3. CASE TurnNetworkOff \/ TurnNetworkOn \/ ConnectivityChanged
      BY <1>3, NetworkStep
<1>4. CASE Relaunch
      BY <1>4, RelaunchStep
<1>5. CASE DieInResult
      BY <1>5, DieInResultStep
<1>6. CASE StreamOpens
      BY <1>6, StreamOpensStep
<1>7. CASE CredentialsFail
      BY <1>7, CredentialsFailStep
<1>8. CASE StaleCredentials
      BY <1>8, StaleCredentialsStep
<1>9. CASE BackoffEnds
      BY <1>9, BackoffEndsStep
<1>10. CASE IdleTimeout
       BY <1>10, IdleTimeoutStep
<1>11. CASE ReadAnswer
       <2>1. PICK v \in Users : v = client.user
             BY DEF WInv, ClientOK, LinkOK, ClientType
       <2> QED
           BY <1>11, <2>1, HandshakeStep, ResultStep
<1>12. CASE StreamEnds
       <2>1. PICK v \in Users : v = client.user
             BY DEF WInv, ClientOK, LinkOK, ClientType
       <2> QED
           BY <1>12, <2>1, StreamEndsStep, RefusalStep
<1>13. CASE ServeHandshake
       BY <1>13, ServeHandshakeStep
<1>14. CASE ServeWrite
       <2>1. PICK v \in Users : v = client.session
             BY DEF WInv, ClientOK, LinkOK, ClientType
       <2> QED
           BY <1>14, <2>1, ServeWriteStep
<1>15. CASE RefuseWrite
       BY <1>15, RefuseWriteStep
<1>16. CASE RefuseHandshake
       BY <1>16, RefuseHandshakeStep
<1>17. CASE AbortWrite
       BY <1>17, AbortWriteStep
<1>18. CASE Break
       BY <1>18, BreakStep
<1>19. CASE UNCHANGED vars
       <2>1. /\ client' = client /\ answers' = answers /\ fault' = fault /\ stored' = stored
             /\ committed' = committed /\ issued' = issued
             BY <1>19 DEF vars, cloud
       <2> QED
           BY <2>1 DEF WInv, LogOK, ServerOK, SentOK, SentAfter, OpeningOK, AnswersOK, FaultOK,
                       Done, Over
<1> QED
    BY <1>1, <1>2, <1>3, <1>4, <1>5, <1>6, <1>7, <1>8, <1>9, <1>10, <1>11, <1>12, <1>13, <1>14,
       <1>15, <1>16, <1>17, <1>18, <1>19 DEF Next

\* What the model says of every state it can come to.
THEOREM WInvHolds == Spec => []WInv
BY WInvInit, WInvStep, PTL DEF Spec

-----------------------------------------------------------------------------
(* The safety properties.                                                  *)

LEMMA TypesFollow == WInv => TypeOK
<1> SUFFICES ASSUME WInv PROVE TypeOK
    OBVIOUS
<1>1. /\ client \in ClientType /\ StreamOK(client.stream) /\ PipelineOK(client)
      /\ IdsOK(client) /\ LogOK /\ FaultOK
      BY DEF WInv, ServerOK, ClientOK, LinkOK
<1>2. ASSUME NEW u \in Users
      PROVE  /\ DOMAIN client.queue[u] \subseteq 1 .. Cardinality(Writes)
             /\ Range(client.queue[u]) \union Range(client.callbacks[u]) \subseteq Writes
      <2>1. client.queue[u] \in Queues /\ client.callbacks[u] \in Queues
            BY <1>1 DEF ClientType
      <2>2. \A q \in Queues : Range(q) \subseteq Writes
            BY QueueHasDomain DEF Range
      <2>3. Ids(client, u) \subseteq 1 .. Cardinality(Made(client))
            BY <1>1 DEF IdsOK
      <2>4. /\ Cardinality(Made(client)) \in Nat /\ Cardinality(Writes) \in Nat
            /\ Cardinality(Made(client)) <= Cardinality(Writes)
            BY MadeIsFinite
      <2>5. Ids(client, u) \subseteq 1 .. Cardinality(Writes)
            BY <2>3, <2>4
      <2> QED
          BY <2>1, <2>2, <2>5 DEF Ids
<1>3. /\ DOMAIN client = {"queue", "tokens", "user", "nextId", "callbacks", "network",
            "pipeline", "stream", "handshake", "token", "session", "requests", "outcome"}
      /\ client.tokens \subseteq Users /\ client.user \in Users /\ client.session \in Users
      /\ client.token \in Users \union {Nothing}
      /\ client.nextId \in Nat /\ client.network \in BOOLEAN /\ client.handshake \in BOOLEAN
      /\ client.pipeline \in Seq(BatchType)
      /\ client.stream \in StreamType
      /\ client.requests \in Seq(RequestType)
      /\ client.outcome \in [Writes -> Outcomes]
      BY <1>1 DEF ClientType
<1>4. /\ answers \in Seq(Writes \union {Handshake}) /\ fault \in Faults
      /\ stored \in [Users -> Writes \union {Nothing}]
      /\ Len(client.pipeline) <= MaxPendingWrites
      BY <1>1 DEF FaultOK, LogOK, PipelineOK
<1> QED
    BY <1>2, <1>3, <1>4 DEF TypeOK

\* The shape of the client's state; in particular the write pipeline never holds more
\* than kMaxPendingWrites batches, and no batch id is above the number of writes.
THEOREM TypeCorrect == Spec => []TypeOK
BY WInvHolds, TypesFollow, PTL

\* No HARD_ASSERT of the stream, the remote store or the mutation queue ever fails,
\* though closing a stream may start the next one and the queue is the disk's.
THEOREM NoAssertEverFails == Spec => []NoAssertFails
<1>1. WInv => NoAssertFails
      BY DEF WInv, ClientOK, LinkOK, StreamOK, NoAssertFails
<1> QED
    BY <1>1, WInvHolds, PTL

\* Refilled, cut off or rebuilt for another user, the pipeline holds the oldest
\* batches of the current user's queue, in their order.
THEOREM PipelineAlwaysOldest == Spec => []PipelineIsOldest
<1>1. WInv => PipelineIsOldest
      <2> SUFFICES ASSUME WInv PROVE PipelineIsOldest
          OBVIOUS
      <2>1. client \in ClientType /\ PipelineOK(client)
            BY DEF WInv, ClientOK, LinkOK
      <2>2. DOMAIN client.pipeline = 1 .. Len(client.pipeline)
            BY <2>1, PipelineLength
      <2> QED
          BY <2>1, <2>2 DEF PipelineOK, PipelineIsOldest, Ids
<1> QED
    BY <1>1, WInvHolds, PTL

\* OnMutationResult takes an answer to be for the first batch of the pipeline, and
\* that is the write the server has answered.
THEOREM AnswersAlwaysCorrelate == Spec => []AnswersCorrelate
<1>1. WInv => AnswersCorrelate
      <2> SUFFICES ASSUME WInv, answers # <<>>
                   PROVE  IF client.handshake
                          THEN client.pipeline # <<>> /\ Head(answers) = Head(client.pipeline).write
                          ELSE Head(answers) = Handshake
          BY DEF AnswersCorrelate
      <2> QED
          BY ResultIsForHead
<1> QED
    BY <1>1, WInvHolds, PTL

\* mutation_callbacks_ is kept by batch id, and ids are handed out again after a change
\* of user: a callback still waits for the write it was filed with.
THEOREM CallbacksAlwaysMatch == Spec => []CallbacksMatchQueue
<1>1. WInv => CallbacksMatchQueue
      BY DEF WInv, CallbacksOK, CallbacksMatchQueue, Ids
<1> QED
    BY <1>1, WInvHolds, PTL

LEMMA SessionFollows == WInv => OwnSession
<1> SUFFICES ASSUME WInv PROVE OwnSession
    OBVIOUS
<1>1. ClientOK(client) /\ client \in ClientType /\ LogOK /\ SentOK
      BY DEF WInv, ServerOK, ClientOK, LinkOK
<1>2. PICK v \in Users : v = client.session
      BY <1>1 DEF ClientType
<1>3. \A u \in Users : Range(issued[u]) = {issued[u][j] : j \in 1 .. Len(issued[u])}
      BY <1>1 DEF LogOK, Range
<1>4. /\ Range(client.requests) = {client.requests[i] : i \in 1 .. Len(client.requests)}
      /\ Len(client.requests) \in Nat
      BY <1>1, PipelineLength DEF Range
<1>5. ASSUME NEW i \in 1 .. Len(client.requests), client.requests[i] \in Writes
      PROVE  \E j \in 1 .. Len(issued[v]) : client.requests[i] = issued[v][j]
      <2>1. CASE client.requests = <<Handshake>>
            BY <1>5, <2>1, NoWordIsAWrite
      <2>2. CASE /\ client.requests[1] = Ended
                 /\ \A x \in 2 .. Len(client.requests) :
                      \E j \in 1 .. Len(issued[client.session]) :
                        client.requests[x] = issued[client.session][j]
            <3>1. i # 1
                  BY <1>5, <2>2, NoWordIsAWrite
            <3>2. i \in 2 .. Len(client.requests)
                  BY <3>1, <1>4
            <3> QED
                BY <1>2, <2>2, <3>2
      <2>3. CASE \E p \in Nat : SentAfter(p)
            <3>1. PICK p \in Nat : SentAfter(p)
                  BY <2>3
            <3>2. /\ p + Len(client.requests) <= Len(issued[v])
                  /\ client.requests[i] = issued[v][p + i]
                  BY <1>2, <3>1 DEF SentAfter
            <3>3. Len(issued[v]) \in Nat
                  BY <1>1, LogTypes
            <3>4. p + i \in 1 .. Len(issued[v])
                  BY <1>4, <3>2, <3>3
            <3> QED
                BY <3>2, <3>4
      <2> QED
          BY <1>1, <2>1, <2>2, <2>3 DEF SentOK
<1>6. Range(client.requests) \intersect Writes \subseteq Range(issued[client.session])
      <2>1. ASSUME NEW w \in Range(client.requests), w \in Writes PROVE w \in Range(issued[v])
            <3>1. PICK i \in 1 .. Len(client.requests) : w = client.requests[i]
                  BY <1>4
            <3>2. PICK j \in 1 .. Len(issued[v]) : w = issued[v][j]
                  BY <1>5, <2>1, <3>1
            <3> QED
                BY <1>3, <3>2
      <2> QED
          BY <1>2, <2>1
<1>7. \A u \in Users : stored[u] \in Range(issued[u]) \union {Nothing}
      BY <1>1, <1>3 DEF LogOK
<1> QED
    BY <1>1, <1>6, <1>7 DEF ClientOK, OwnSession

\* After a change of credentials the old stream may still be served, and the stream token
\* on disk is another's: nothing is sent or stored in the session of somebody else.
THEOREM AlwaysOwnSession == Spec => []OwnSession
BY SessionFollows, WInvHolds, PTL

LEMMA RestFollows == WInv => QueueIsTheRest
<1> SUFFICES ASSUME WInv, NEW u \in Users
             PROVE  LET ids == InOrder(DOMAIN client.queue[u])
                        over == Len(issued[u]) - Len(ids)
                    IN  /\ [i \in DOMAIN ids |-> client.queue[u][ids[i]]]
                             = SubSeq(issued[u], over + 1, Len(issued[u]))
                        /\ \A i \in 1 .. over : issued[u][i] \in Refused \union committed
    BY DEF QueueIsTheRest
<1> DEFINE ids == InOrder(DOMAIN client.queue[u])
           over == Len(issued[u]) - Len(ids)
           k == Cardinality(Ids(client, u))
           L == Len(issued[u])
           rest == SubSeq(issued[u], Done(u) + 1, L)
           left == [i \in 1 .. k |-> client.queue[u][ids[i]]]
<1>1. client \in ClientType /\ LogOK
      BY DEF WInv, ClientOK, LinkOK
<1>2. Ids(client, u) \in FiniteIds /\ \A id \in Ids(client, u) : client.queue[u][id] \in Writes
      BY <1>1, QueueOfUser
<1>3. /\ DOMAIN ids = 1 .. k /\ Len(ids) = k /\ k \in Nat
      /\ \A i \in 1 .. k : ids[i] \in Ids(client, u) /\ Place(Ids(client, u), ids[i]) = i
      BY <1>2, InOrderIsOrder, FS_CardinalityType DEF Ids, FiniteIds
<1>4. /\ Done(u) \in Nat /\ Done(u) + k = L /\ L \in Nat
      /\ \A i \in 1 .. L : issued[u][i] \in Writes
      BY <1>1, LogTypes
<1>5. over = Done(u)
      BY <1>3 DEF Done
<1>6. \A i \in 1 .. k : client.queue[u][ids[i]] = issued[u][Done(u) + i]
      BY <1>1, <1>3 DEF LogOK
<1> HIDE DEF ids, over, k, L
<1>7. left \in Seq(Writes) /\ Len(left) = k
      <2>1. \A i \in 1 .. k : client.queue[u][ids[i]] \in Writes
            BY <1>2, <1>3
      <2> QED
          BY <1>3, <2>1
<1>8. /\ rest \in Seq(Writes) /\ Len(rest) = k
      /\ \A i \in 1 .. k : rest[i] = issued[u][Done(u) + i]
      <2>1. \A i \in Done(u) + 1 .. L : issued[u][i] \in Writes
            BY <1>4
      <2>2. Done(u) + 1 \in Int /\ L \in Int
            BY <1>4
      <2>3. /\ rest \in Seq(Writes)
            /\ Len(rest) = IF Done(u) + 1 <= L THEN L - (Done(u) + 1) + 1 ELSE 0
            /\ \A i \in 1 .. L - (Done(u) + 1) + 1 : rest[i] = issued[u][Done(u) + 1 + i - 1]
            BY <2>1, <2>2, SubSeqProperties
      <2>4. /\ L - (Done(u) + 1) + 1 = k
            /\ (IF Done(u) + 1 <= L THEN L - (Done(u) + 1) + 1 ELSE 0) = k
            /\ \A i \in 1 .. k : Done(u) + 1 + i - 1 = Done(u) + i
            BY <1>3, <1>4
      <2> HIDE DEF rest
      <2> QED
          BY <2>3, <2>4
<1>9. left = rest
      <2>1. \A i \in 1 .. k : left[i] = client.queue[u][ids[i]]
            OBVIOUS
      <2> HIDE DEF left, rest
      <2>2. \A i \in 1 .. Len(left) : left[i] = rest[i]
            BY <1>6, <1>7, <1>8, <2>1
      <2> QED
          BY <1>7, <1>8, <2>2, SeqEqual
<1>10. \A i \in 1 .. over : issued[u][i] \in Refused \union committed
       BY <1>1, <1>5 DEF LogOK, Over
<1> QED
    BY <1>3, <1>5, <1>9, <1>10 DEF ids, over, L, left, rest

\* Whatever is resent, forgotten by a restart or filed by several users in turn: the
\* batches on disk are a user's last writes in the order of the calls, none lost and
\* none twice, and the writes before them are stored or refused.
THEOREM QueueAlwaysTheRest == Spec => []QueueIsTheRest
BY RestFollows, WInvHolds, PTL

-----------------------------------------------------------------------------
(* The refinement: every task of the client and every step of the server is  *)
(* a step of the contract of setData, or none at all.                      *)

LEMMA SettledIsDone ==
  /\ Settled = [u \in Users |-> Done(u)]
  /\ Settled' = [u \in Users |-> Done(u)']
BY DEF Settled, Done, Ids

LEMMA ContractInit == Init => Contract!Init
<1> SUFFICES ASSUME Init PROVE Contract!Init
    OBVIOUS
<1>1. ASSUME NEW u \in Users
      PROVE  Len(issued[u]) - Cardinality(DOMAIN client.queue[u]) = 0
      <2>1. issued[u] = <<>> /\ client.queue[u] = NoBatches
            BY DEF Init
      <2>2. Len(issued[u]) = 0
            BY <2>1, EmptySeq
      <2>3. Cardinality(DOMAIN client.queue[u]) = 0
            BY <2>1, NoBatchesIsQueue, FS_EmptySet
      <2> QED
          BY <2>2, <2>3
<1>2. Settled = [u \in Users |-> 0]
      BY <1>1 DEF Settled
<1> QED
    BY <1>2 DEF Init, Contract!Init, Told

LEMMA ContractStutters ==
  ASSUME Unnoticed
  PROVE  UNCHANGED Contract!vars
BY DEF Unnoticed, Contract!vars, Settled, Told, cloud

LEMMA ContractIssues ==
  ASSUME WInv, NEW w \in Writes, Write(w), NEW v \in Users, v = client.user
  PROVE  Contract!Issue(v, w)
<1>1. WrittenBooks(client, client', w) /\ \A u \in Users : Done(u)' = Done(u)
      BY WriteStep
<1>2. Settled' = Settled
      BY <1>1, SettledIsDone
<1>3. Told' = [Told EXCEPT ![w] = "pending"]
      BY <1>1 DEF WrittenBooks, Told
<1>4. /\ Told[w] = "unwritten" /\ issued' = [issued EXCEPT ![v] = Append(@, w)]
      /\ stored' = stored /\ committed' = committed
      BY DEF Write, ClientStep, Told, cloud
<1> QED
    BY <1>2, <1>3, <1>4 DEF Contract!Issue

LEMMA ContractStores ==
  ASSUME WInv, ServeWrite, NEW v \in Users, v = client.session
  PROVE  \E i \in DOMAIN issued[v] : Contract!Store(v, i)
<1>1. SameBooks(client, client') /\ issued' = issued
      BY ServeWriteStep DEF ServeWrite
<1>2. PICK p \in Nat :
        /\ Done(v) <= p /\ p + 1 <= Len(issued[v]) /\ issued[v][p + 1] \notin Refused
        /\ \A i \in 1 .. p : Over(issued[v][i])
        /\ stored' = [stored EXCEPT ![v] = issued[v][p + 1]]
        /\ committed' = committed \union {issued[v][p + 1]}
      BY ServeWriteStep
<1>3. client \in ClientType /\ LogOK /\ issued[v] \in Seq(Writes) /\ Done(v) \in Nat
      BY LogTypes DEF WInv, ClientOK, LinkOK
<1>4. p + 1 \in DOMAIN issued[v]
      BY <1>2, <1>3
<1>5. Settled' = Settled /\ Told' = Told
      BY <1>1 DEF SameBooks, Settled, Told
<1>6. Settled[v] = Done(v)
      BY SettledIsDone
<1>7. p + 1 > Settled[v] /\ (p + 1) - 1 = p
      BY <1>2, <1>3, <1>6
<1>8. \A j \in 1 .. p : Contract!Over(issued[v][j])
      BY <1>2 DEF Over, Contract!Over
<1>9. Contract!Store(v, p + 1)
      BY <1>1, <1>2, <1>5, <1>7, <1>8 DEF Contract!Store
<1> QED
    BY <1>4, <1>9

\* What is common to an answer and a refusal.
LEMMA ContractSettlesOne ==
  ASSUME WInv, NEW v \in Users, Done(v) + 1 <= Len(issued[v]),
         NEW answer, answer = IF issued[v][Done(v) + 1] \in Refused THEN "failed" ELSE "ok",
         issued[v][Done(v) + 1] \in Refused \/ Contract!HasReached(v, Done(v) + 1),
         Answered(client, client', issued[v][Done(v) + 1], answer),
         Done(v)' = Done(v) + 1, \A u \in Users \ {v} : Done(u)' = Done(u),
         UNCHANGED <<issued, cloud>>
  PROVE  Contract!Settle(v)
<1>1. Settled[v] = Done(v)
      BY SettledIsDone
<1>2. Settled' = [Settled EXCEPT ![v] = @ + 1]
      BY SettledIsDone
<1>3. Contract!CanSettle(v)
      BY <1>1 DEF Contract!CanSettle
<1>4. Told' = [Told EXCEPT ![issued[v][Done(v) + 1]] = IF @ = "pending" THEN answer ELSE @]
      BY DEF Answered, Told
<1>5. answer = Contract!Answer(issued[v][Done(v) + 1])
      BY DEF Contract!Answer
<1>6. UNCHANGED <<issued, committed, stored>>
      BY DEF cloud
<1> QED
    BY <1>1, <1>2, <1>3, <1>4, <1>5, <1>6 DEF Contract!Settle

\* What the server has answered, or a later write, is what it has stored.
LEMMA AnsweredIsReached ==
  ASSUME WInv, answers # <<>>, client.handshake, NEW v \in Users, v = client.user
  PROVE  Contract!HasReached(v, Done(v) + 1)
<1>1. client \in ClientType /\ LogOK /\ AnswersOK /\ FaultOK
      BY DEF WInv, ServerOK, ClientOK, LinkOK
<1>2. answers \in Seq(Writes \union {Handshake}) /\ Len(answers) \in Nat /\ 1 <= Len(answers)
      BY <1>1 DEF FaultOK
<1>3. PICK j \in 1 .. Len(issued[v]) : j >= Done(v) + Len(answers) /\ stored[v] = issued[v][j]
      BY <1>1, <1>2 DEF AnswersOK
<1>4. Done(v) \in Nat /\ Len(issued[v]) \in Nat
      BY <1>1, LogTypes
<1>5. j \in Done(v) + 1 .. Len(issued[v])
      BY <1>2, <1>3, <1>4
<1> QED
    BY <1>3, <1>5 DEF Contract!HasReached

LEMMA ContractSettlesResult ==
  ASSUME WInv, ReadAnswer, client.handshake, NEW v \in Users, v = client.user
  PROVE  Contract!Settle(v)
<1>1. /\ Done(v)' = Done(v) + 1 /\ \A u \in Users \ {v} : Done(u)' = Done(u)
      /\ Done(v) + 1 <= Len(issued[v]) /\ issued[v][Done(v) + 1] \notin Refused
      /\ Answered(client, client', issued[v][Done(v) + 1], "ok")
      BY ResultStep
<1>2. answers # <<>> /\ UNCHANGED <<issued, cloud>>
      BY DEF ReadAnswer
<1>3. Contract!HasReached(v, Done(v) + 1)
      BY <1>2, AnsweredIsReached
<1> QED
    BY <1>1, <1>2, <1>3, ContractSettlesOne

LEMMA ContractSettlesRefusal ==
  ASSUME WInv, StreamEnds, Refuses, NEW v \in Users, v = client.user
  PROVE  Contract!Settle(v)
<1>1. /\ Done(v)' = Done(v) + 1 /\ \A u \in Users \ {v} : Done(u)' = Done(u)
      /\ Done(v) + 1 <= Len(issued[v]) /\ issued[v][Done(v) + 1] \in Refused
      /\ Answered(client, client', issued[v][Done(v) + 1], "failed")
      /\ UNCHANGED <<issued, cloud>>
      BY RefusalStep
<1> QED
    BY <1>1, ContractSettlesOne

LEMMA ContractDies ==
  ASSUME WInv, Relaunch
  PROVE  Contract!Die
<1>1. /\ client'.queue = client.queue /\ UNCHANGED <<issued, cloud>>
      /\ client'.outcome = [w \in Writes |-> IF client.outcome[w] = "pending" THEN "forgotten"
                                                                              ELSE client.outcome[w]]
      BY RelaunchStep
<1>2. Settled' = Settled
      BY <1>1 DEF Settled
<1> QED
    BY <1>1, <1>2 DEF Contract!Die, Contract!Forgotten, Told, cloud

LEMMA ContractDiesTold ==
  ASSUME WInv, DieInResult, NEW v \in Users, v = client.user
  PROVE  Contract!DieTold(v)
<1> DEFINE w == issued[v][Done(v) + 1]
<1>1. /\ client'.queue = client.queue /\ UNCHANGED <<issued, cloud>>
      /\ LET told == [client.outcome EXCEPT ![client.pipeline[1].write] =
                        IF @ = "pending" THEN "ok" ELSE @]
         IN  client'.outcome = [x \in Writes |-> IF told[x] = "pending" THEN "forgotten"
                                                                        ELSE told[x]]
      BY DieInResultStep
<1>2. /\ client.handshake /\ answers # <<>> /\ client.pipeline[1].write = w /\ w \notin Refused
      BY ResultIsForHead DEF DieInResult
<1>3. Contract!HasReached(v, Done(v) + 1)
      BY <1>2, AnsweredIsReached
<1>4. Settled' = Settled /\ Settled[v] = Done(v)
      BY <1>1, SettledIsDone DEF Settled
<1>5. Done(v) + 1 <= Len(issued[v])
      <2>1. client \in ClientType /\ LogOK
            BY DEF WInv, ClientOK, LinkOK
      <2>2. Done(v) \in Nat /\ Len(issued[v]) \in Nat
            BY <2>1, LogTypes
      <2>3. PICK j \in Done(v) + 1 .. Len(issued[v]) : stored[v] = issued[v][j]
            BY <1>3 DEF Contract!HasReached
      <2> QED
          BY <2>2, <2>3
<1>6. Contract!CanSettle(v)
      BY <1>3, <1>4, <1>5 DEF Contract!CanSettle
<1> HIDE DEF w
<1>7. Told' = Contract!Forgotten([Told EXCEPT ![w] = IF @ = "pending" THEN "ok" ELSE @])
      BY <1>1, <1>2 DEF Contract!Forgotten, Told
<1> QED
    BY <1>1, <1>2, <1>4, <1>6, <1>7 DEF Contract!DieTold, cloud, w

LEMMA ContractStep == WInv /\ [Next]_vars => [Contract!Next]_(Contract!vars)
<1> SUFFICES ASSUME WInv, [Next]_vars PROVE Contract!Next \/ UNCHANGED Contract!vars
    OBVIOUS
<1>1. PICK v \in Users : v = client.user
      BY DEF WInv, ClientOK, LinkOK, ClientType
<1>2. PICK s \in Users : s = client.session
      BY DEF WInv, ClientOK, LinkOK, ClientType
<1>3. CASE \E w \in Writes : Write(w)
      BY <1>1, <1>3, ContractIssues DEF Contract!Next
<1>4. CASE \E u \in Users : ChangeCredentials(u)
      BY <1>4, ChangeCredentialsStep, ContractStutters
<1>5. CASE TurnNetworkOff \/ TurnNetworkOn \/ ConnectivityChanged
      BY <1>5, NetworkStep, ContractStutters
<1>6. CASE Relaunch
      BY <1>6, ContractDies DEF Contract!Next
<1>7. CASE DieInResult
      BY <1>1, <1>7, ContractDiesTold DEF Contract!Next
<1>8. CASE StreamOpens \/ StaleCredentials \/ CredentialsFail \/ BackoffEnds \/ IdleTimeout
      BY <1>8, StreamOpensStep, StaleCredentialsStep, CredentialsFailStep, BackoffEndsStep,
         IdleTimeoutStep, ContractStutters
<1>9. CASE ReadAnswer
      <2>1. CASE client.handshake
            BY <1>1, <1>9, <2>1, ContractSettlesResult DEF Contract!Next
      <2>2. CASE ~client.handshake
            BY <1>9, <2>2, HandshakeStep, ContractStutters
      <2> QED
          BY <2>1, <2>2
<1>10. CASE StreamEnds
       <2>1. CASE Refuses
             BY <1>1, <1>10, <2>1, ContractSettlesRefusal DEF Contract!Next
       <2>2. CASE ~Refuses
             BY <1>10, <2>2, StreamEndsStep, ContractStutters
       <2> QED
           BY <2>1, <2>2
<1>11. CASE ServeWrite
       BY <1>2, <1>11, ContractStores DEF Contract!Next
<1>12. CASE ServeHandshake \/ RefuseWrite \/ RefuseHandshake \/ AbortWrite \/ Break
       BY <1>12, ServeHandshakeStep, RefuseWriteStep, RefuseHandshakeStep, AbortWriteStep,
          BreakStep, ContractStutters
<1>13. CASE UNCHANGED vars
       BY <1>13, ContractStutters DEF vars, Unnoticed
<1> QED
    BY <1>3, <1>4, <1>5, <1>6, <1>7, <1>8, <1>9, <1>10, <1>11, <1>12, <1>13 DEF Next

\* However often writes are resent, answers are lost and the app is restarted, the
\* write path does what setData promises: writes are settled in the order of the calls,
\* each reported truthfully and at most once.
THEOREM ImplementsContract == Spec => KeepsContract
BY ContractInit, ContractStep, WInvHolds, PTL DEF Spec, KeepsContract, Contract!Spec

-----------------------------------------------------------------------------
(* What the contract promises follows from its steps alone: writes are     *)
(* stored repeatedly and out of step with their being settled, so what is  *)
(* settled bounds the document only from below, and a stored write vouches *)
(* for the accepted ones before it.                                        *)

ContractTypes ==
  /\ issued \in [Users -> Seq(Writes)]
  /\ Settled \in [Users -> Nat]
  /\ \A u \in Users : Settled[u] <= Len(issued[u])
  /\ committed \subseteq Writes
  /\ stored \in [Users -> Writes \union {Nothing}]
  /\ Told \in [Writes -> Outcomes]

\* A write is made once: it has one place in one user's sequence.
MadeOnce ==
  \A u \in Users :
    /\ \A i \in DOMAIN issued[u] : Told[issued[u][i]] /= "unwritten"
    /\ \A i, j \in DOMAIN issued[u] : issued[u][i] = issued[u][j] => i = j

\* A document is the result of an accepted write, and every accepted write
\* before that has been stored too.
StoredInOrder ==
  \A u \in Users : stored[u] /= Nothing =>
    \E i \in Contract!Accepted(u) : /\ stored[u] = issued[u][i]
                                    /\ \A j \in Contract!Accepted(u) : j <= i => issued[u][j] \in committed

\* The document has not gone back behind what is settled.
NotBehind ==
  \A u \in Users : \A j \in Contract!Accepted(u) : j <= Settled[u] => Contract!HasReached(u, j)

ContractInv == ContractTypes /\ MadeOnce /\ StoredInOrder /\ NotBehind /\ Contract!AnswersAreTrue

-----------------------------------------------------------------------------
\* What has been reached has been stored.
LEMMA ReachedIsCommitted ==
  ASSUME Nothing \notin Writes, ContractInv, NEW u \in Users,
         NEW i \in Contract!Accepted(u), Contract!HasReached(u, i)
  PROVE  issued[u][i] \in committed
<1>1. PICK j \in i .. Len(issued[u]) : stored[u] = issued[u][j]
      BY DEF Contract!HasReached
<1>2. i \in DOMAIN issued[u] /\ j \in DOMAIN issued[u] /\ i <= j
      BY DEF ContractInv, ContractTypes, Contract!Accepted
<1>3. stored[u] /= Nothing
      BY <1>1, <1>2 DEF ContractInv, ContractTypes
<1>4. PICK k \in Contract!Accepted(u) :
        /\ stored[u] = issued[u][k]
        /\ \A l \in Contract!Accepted(u) : l <= k => issued[u][l] \in committed
      BY <1>3 DEF ContractInv, StoredInOrder
<1>5. k = j
      BY <1>1, <1>2, <1>4 DEF ContractInv, MadeOnce, Contract!Accepted
<1> QED
    BY <1>2, <1>4, <1>5

LEMMA ContractIssueStep ==
  ASSUME Nothing \notin Writes, ContractInv, NEW u \in Users, NEW w \in Writes, Contract!Issue(u, w)
  PROVE  ContractInv'
<1> USE DEF ContractInv, ContractTypes, Contract!Issue
<1>1. /\ issued[u] \in Seq(Writes)
      /\ issued'[u] = Append(issued[u], w)
      /\ Len(issued'[u]) = Len(issued[u]) + 1
      /\ issued'[u][Len(issued[u]) + 1] = w
      /\ \A i \in DOMAIN issued[u] : i \in DOMAIN issued'[u] /\ issued'[u][i] = issued[u][i]
      /\ \A v \in Users \ {u} : issued'[v] = issued[v]
      OBVIOUS
<1>2. \A v \in Users : \A i \in DOMAIN issued'[v] :
        \/ i \in DOMAIN issued[v] /\ issued'[v][i] = issued[v][i]
        \/ v = u /\ i = Len(issued[v]) + 1 /\ issued'[v][i] = w
      BY <1>1
<1>3. ContractTypes'
      BY <1>1 DEF Outcomes
<1>4. \A v \in Users : \A i \in DOMAIN issued[v] : issued[v][i] /= w
      BY DEF MadeOnce
<1>5. MadeOnce'
      <2>1. \A v \in Users : \A i \in DOMAIN issued'[v] : Told'[issued'[v][i]] /= "unwritten"
            BY <1>2, <1>4 DEF MadeOnce
      <2>2. ASSUME NEW v \in Users, NEW i \in DOMAIN issued'[v], NEW j \in DOMAIN issued'[v],
                   issued'[v][i] = issued'[v][j]
            PROVE  i = j
            BY <1>2, <1>4, <2>2 DEF MadeOnce
      <2> QED
          BY <2>1, <2>2 DEF MadeOnce
<1>6. \A v \in Users : \A i \in DOMAIN issued[v] :
        /\ i \in DOMAIN issued'[v] /\ issued'[v][i] = issued[v][i]
        /\ i <= Len(issued[v])
      BY <1>1
<1>7. StoredInOrder'
      <2> SUFFICES ASSUME NEW v \in Users, stored[v] /= Nothing
                   PROVE  \E i \in Contract!Accepted(v)' :
                            /\ stored[v] = issued'[v][i]
                            /\ \A j \in Contract!Accepted(v)' : j <= i => issued'[v][j] \in committed
          BY DEF StoredInOrder
      <2>1. PICK i \in Contract!Accepted(v) :
              /\ stored[v] = issued[v][i]
              /\ \A j \in Contract!Accepted(v) : j <= i => issued[v][j] \in committed
            BY DEF StoredInOrder
      <2>2. i \in Contract!Accepted(v)' /\ i \in DOMAIN issued[v] /\ stored[v] = issued'[v][i]
            BY <1>6, <2>1 DEF Contract!Accepted
      <2>3. ASSUME NEW j \in Contract!Accepted(v)', j <= i PROVE issued'[v][j] \in committed
            <3>1. j \in DOMAIN issued[v] /\ issued'[v][j] = issued[v][j]
                  BY <1>2, <1>6, <2>2, <2>3 DEF Contract!Accepted
            <3> QED
                BY <2>1, <2>3, <3>1 DEF Contract!Accepted
      <2> QED
          BY <2>2, <2>3
<1>8. NotBehind'
      <2>1. Settled' = Settled /\ stored' = stored
            OBVIOUS
      <2>2. ASSUME NEW v \in Users, NEW j \in Contract!Accepted(v)', j <= Settled[v]
            PROVE  Contract!HasReached(v, j)'
            <3>1. j \in Contract!Accepted(v)
                  BY <1>2, <2>2 DEF Contract!Accepted
            <3>2. PICK k \in j .. Len(issued[v]) : stored[v] = issued[v][k]
                  BY <2>2, <3>1 DEF NotBehind, Contract!HasReached
            <3>3. k \in DOMAIN issued[v]
                  BY <3>1, <3>2 DEF Contract!Accepted
            <3>4. k \in j .. Len(issued'[v]) /\ stored[v] = issued'[v][k]
                  BY <1>6, <3>1, <3>2, <3>3, <1>3 DEF Contract!Accepted
            <3> QED
                BY <2>1, <3>4 DEF Contract!HasReached
      <2> QED
          BY <2>1, <2>2 DEF NotBehind
<1>9. Contract!AnswersAreTrue'
      BY DEF Contract!AnswersAreTrue
<1> QED
    BY <1>3, <1>5, <1>7, <1>8, <1>9

LEMMA ContractStoreStep ==
  ASSUME Nothing \notin Writes, ContractInv, NEW u \in Users, NEW i \in DOMAIN issued[u], Contract!Store(u, i)
  PROVE  ContractInv'
<1> USE DEF ContractInv, ContractTypes, Contract!Store
<1>1. i \in Nat /\ i <= Len(issued[u]) /\ issued[u][i] \in Writes /\ i \in Contract!Accepted(u)
      BY DEF Contract!Accepted
<1>2. ContractTypes'
      BY <1>1
<1>3. MadeOnce'
      BY DEF MadeOnce
<1>4. StoredInOrder'
      <2>1. ASSUME NEW j \in Contract!Accepted(u), j <= i PROVE issued[u][j] \in committed'
            <3>1. j \in Nat /\ j >= 1 /\ issued[u][j] \notin Refused
                  BY DEF Contract!Accepted
            <3>2. CASE j = i
                  BY <3>2
            <3>3. CASE j /= i
                  <4>1. j \in 1 .. i - 1
                        BY <1>1, <2>1, <3>1, <3>3
                  <4>2. issued[u][j] \in Refused \union committed
                        BY <4>1 DEF Contract!Over
                  <4> QED
                      BY <3>1, <4>2
            <3> QED
                BY <3>2, <3>3
      <2> QED
          BY <1>1, <2>1 DEF StoredInOrder, Contract!Accepted
<1>5. NotBehind'
      <2> SUFFICES ASSUME NEW v \in Users, NEW j \in Contract!Accepted(v), j <= Settled[v]
                   PROVE  \E k \in j .. Len(issued[v]) : stored'[v] = issued[v][k]
          BY DEF NotBehind, Contract!HasReached, Contract!Accepted
      <2>1. CASE v = u
            <3>1. i \in j .. Len(issued[v])
                  BY <1>1, <2>1 DEF Contract!Accepted
            <3> QED
                BY <2>1, <3>1
      <2>2. CASE v /= u
            BY <2>2 DEF NotBehind, Contract!HasReached
      <2> QED
          BY <2>1, <2>2
<1>6. Contract!AnswersAreTrue'
      BY DEF Contract!AnswersAreTrue
<1> QED
    BY <1>2, <1>3, <1>4, <1>5, <1>6

\* The next write is refused or was stored when its turn comes.
LEMMA NextIsOver ==
  ASSUME Nothing \notin Writes, ContractInv, NEW u \in Users, Contract!CanSettle(u)
  PROVE  /\ Settled[u] + 1 \in DOMAIN issued[u]
         /\ issued[u][Settled[u] + 1] \in Writes
         /\ issued[u][Settled[u] + 1] \in Refused \union committed
<1>1. Settled[u] + 1 \in DOMAIN issued[u] /\ issued[u][Settled[u] + 1] \in Writes
      BY DEF ContractInv, ContractTypes, Contract!CanSettle
<1>2. CASE issued[u][Settled[u] + 1] \in Refused
      BY <1>1, <1>2
<1>3. CASE issued[u][Settled[u] + 1] \notin Refused
      BY <1>1, <1>3, ReachedIsCommitted DEF Contract!CanSettle, Contract!Accepted
<1> QED
    BY <1>2, <1>3

LEMMA ContractSettleStep ==
  ASSUME Nothing \notin Writes, ContractInv, NEW u \in Users, Contract!Settle(u)
  PROVE  ContractInv'
<1> DEFINE w == issued[u][Settled[u] + 1]
<1>1. /\ Settled[u] + 1 \in DOMAIN issued[u] /\ w \in Writes /\ w \in Refused \union committed
      /\ Settled[u] + 1 <= Len(issued[u])
      BY NextIsOver DEF Contract!Settle, Contract!CanSettle
<1> USE DEF ContractInv, ContractTypes, Contract!Settle
<1>2. ContractTypes'
      BY <1>1 DEF Contract!Answer, Outcomes
<1>3. MadeOnce'
      BY <1>1 DEF MadeOnce, Contract!Answer
<1>4. StoredInOrder'
      BY DEF StoredInOrder, Contract!Accepted
<1>5. NotBehind'
      <2> SUFFICES ASSUME NEW v \in Users, NEW j \in Contract!Accepted(v), j <= Settled'[v]
                   PROVE  Contract!HasReached(v, j)
          BY DEF NotBehind, Contract!HasReached, Contract!Accepted
      <2>1. CASE j <= Settled[v]
            BY <2>1 DEF NotBehind
      <2>2. CASE ~(j <= Settled[v])
            <3>1. v = u /\ j = Settled[u] + 1
                  BY <2>2 DEF Contract!Accepted
            <3> QED
                BY <3>1 DEF Contract!CanSettle, Contract!Accepted
      <2> QED
          BY <2>1, <2>2
<1>6. Contract!AnswersAreTrue'
      BY <1>1 DEF Contract!AnswersAreTrue, Contract!Answer
<1> QED
    BY <1>2, <1>3, <1>4, <1>5, <1>6

\* A restart changes only what the app was told, and of no write to a lie.
LEMMA ContractTellStep ==
  ASSUME ContractInv, UNCHANGED <<issued, Settled, committed, stored>>,
         Told' \in [Writes -> Outcomes],
         \A w \in Writes : Told[w] /= "unwritten" => Told'[w] /= "unwritten",
         \A w \in Writes : Told'[w] = "ok" => w \in committed,
         \A w \in Writes : Told'[w] = "failed" => w \in Refused
  PROVE  ContractInv'
<1> USE DEF ContractInv
<1>1. ContractTypes'
      BY DEF ContractTypes
<1>2. MadeOnce'
      <2>1. \A u \in Users : \A i \in DOMAIN issued[u] : issued[u][i] \in Writes
            BY DEF ContractTypes
      <2> QED
          BY <2>1 DEF MadeOnce
<1>3. StoredInOrder' /\ NotBehind'
      BY DEF StoredInOrder, NotBehind, Contract!HasReached, Contract!Accepted
<1>4. Contract!AnswersAreTrue'
      BY DEF Contract!AnswersAreTrue
<1> QED
    BY <1>1, <1>2, <1>3, <1>4

LEMMA ContractInvStep ==
  ASSUME Nothing \notin Writes, ContractInv, [Contract!Next]_(Contract!vars)
  PROVE  ContractInv'
<1>1. ASSUME NEW u \in Users, NEW w \in Writes, Contract!Issue(u, w) PROVE ContractInv'
      BY <1>1, ContractIssueStep
<1>2. ASSUME NEW u \in Users, NEW i \in DOMAIN issued[u], Contract!Store(u, i) PROVE ContractInv'
      BY <1>2, ContractStoreStep
<1>3. ASSUME NEW u \in Users, Contract!Settle(u) PROVE ContractInv'
      BY <1>3, ContractSettleStep
<1>4. CASE Contract!Die
      <2>1. Told' \in [Writes -> Outcomes]
            BY <1>4 DEF Contract!Die, Contract!Forgotten, Outcomes, ContractInv, ContractTypes
      <2> QED
          BY <1>4, <2>1, ContractTellStep DEF Contract!Die, Contract!Forgotten, ContractInv, ContractTypes, Contract!AnswersAreTrue
<1>5. ASSUME NEW u \in Users, Contract!DieTold(u) PROVE ContractInv'
      <2> DEFINE w == issued[u][Settled[u] + 1]
      <2>1. w \in Writes /\ w \in committed
            BY <1>5, NextIsOver DEF Contract!DieTold
      <2>2. Told' = [x \in Writes |-> IF x = w /\ Told[x] = "pending" THEN "ok"
                                         ELSE IF Told[x] = "pending" THEN "forgotten"
                                         ELSE Told[x]]
            BY <1>5, <2>1 DEF Contract!DieTold, Contract!Forgotten, ContractInv, ContractTypes, Outcomes
      <2> HIDE DEF w
      <2>3. Told' \in [Writes -> Outcomes]
            BY <2>2 DEF ContractInv, ContractTypes, Outcomes
      <2>4. UNCHANGED <<issued, Settled, committed, stored>>
            BY <1>5 DEF Contract!DieTold
      <2> QED
          BY <2>1, <2>2, <2>3, <2>4, ContractTellStep DEF ContractInv, Contract!AnswersAreTrue
<1>6. CASE UNCHANGED Contract!vars
      BY <1>6 DEF Contract!vars, ContractInv, ContractTypes, MadeOnce, StoredInOrder, NotBehind, Contract!HasReached,
                  Contract!Accepted, Contract!AnswersAreTrue
<1> QED
    BY <1>1, <1>2, <1>3, <1>4, <1>5, <1>6 DEF Contract!Next

LEMMA ContractInvInit == Contract!Init => ContractInv
BY DEF Contract!Init, ContractInv, ContractTypes, Outcomes, MadeOnce, StoredInOrder, NotBehind, Contract!Accepted,
       Contract!AnswersAreTrue

\* Once nothing is unsettled, a document is what the last accepted write made.
LEMMA LastWriteFollows ==
  ASSUME Nothing \notin Writes, ContractInv
  PROVE  Contract!LastWriteWins
<1> SUFFICES ASSUME NEW u \in Users, Settled[u] = Len(issued[u])
             PROVE  \/ Contract!Accepted(u) = {} /\ stored[u] = Nothing
                    \/ \E i \in Contract!Accepted(u) : /\ stored[u] = issued[u][i]
                                                       /\ \A j \in Contract!Accepted(u) : j <= i
    BY DEF Contract!LastWriteWins
<1> USE DEF ContractInv, ContractTypes
<1>1. \A j \in Contract!Accepted(u) : j \in Nat /\ j <= Settled[u] /\ Contract!HasReached(u, j)
      BY DEF NotBehind, Contract!Accepted
<1>2. CASE stored[u] = Nothing
      <2>1. ASSUME NEW j \in Contract!Accepted(u) PROVE FALSE
            <3>1. PICK k \in j .. Len(issued[u]) : stored[u] = issued[u][k]
                  BY <1>1, <2>1 DEF Contract!HasReached
            <3>2. k \in DOMAIN issued[u]
                  BY <2>1, <3>1 DEF Contract!Accepted
            <3> QED
                BY <1>2, <3>1, <3>2
      <2> QED
          BY <1>2, <2>1
<1>3. CASE stored[u] /= Nothing
      <2>1. PICK i \in Contract!Accepted(u) : stored[u] = issued[u][i]
            BY <1>3 DEF StoredInOrder
      <2>2. ASSUME NEW j \in Contract!Accepted(u) PROVE j <= i
            <3>1. PICK k \in j .. Len(issued[u]) : stored[u] = issued[u][k]
                  BY <1>1, <2>2 DEF Contract!HasReached
            <3>2. k \in DOMAIN issued[u] /\ i \in DOMAIN issued[u] /\ j \in DOMAIN issued[u]
                  BY <2>1, <2>2, <3>1 DEF Contract!Accepted
            <3>3. k = i
                  BY <2>1, <3>1, <3>2 DEF MadeOnce
            <3> QED
                BY <3>1, <3>3
      <2> QED
          BY <2>1, <2>2
<1> QED
    BY <1>2, <1>3

\* No write resent late overtakes a later one: when nothing of a user is unsettled,
\* the document is the result of the last write the server accepts.
THEOREM LastWriteAlwaysWins == Spec => []LastWriteWins
<1>1. ContractInv /\ [Contract!Next]_(Contract!vars) => ContractInv'
      BY WritesAssumption, ContractInvStep
<1>2. ContractInv => LastWriteWins
      BY WritesAssumption, LastWriteFollows DEF LastWriteWins
<1>3. Spec => Contract!Spec
      BY ImplementsContract DEF KeepsContract
<1> QED
    BY <1>1, <1>2, <1>3, ContractInvInit, PTL DEF Contract!Spec

\* The app is told ok only of a write the server has stored at some time, and
\* failed only of one it refuses.
THEOREM AnswersAlwaysTrue == Spec => []Contract!AnswersAreTrue
<1>1. ContractInv /\ [Contract!Next]_(Contract!vars) => ContractInv'
      BY WritesAssumption, ContractInvStep
<1>2. ContractInv => Contract!AnswersAreTrue
      BY DEF ContractInv
<1>3. Spec => Contract!Spec
      BY ImplementsContract DEF KeepsContract
<1> QED
    BY <1>1, <1>2, <1>3, ContractInvInit, PTL DEF Contract!Spec
=============================================================================
