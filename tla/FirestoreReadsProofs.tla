----------------------- MODULE FirestoreReadsProofs -----------------------
(***************************************************************************)
(* Proofs about FirestoreReads, for any documents, refusals, numbers of    *)
(* reads, edits and faults, and any limit on the limbo lookups.            *)
(*                                                                         *)
(* The inductive invariant IInv has six parts.  Ready puts the client in   *)
(* order: RemoteStore listens to what there are views and lookups of, the  *)
(* stream is in a state of its own making, and runs if it is needed.       *)
(* Matched ties the views of the SyncEngine to the queries of the          *)
(* EventManager, and its references and lookups to the limbo documents of  *)
(* the views (Tracks).  Asking is about the reads of the application:      *)
(* where each is listened to and what it can still hear.  Counted says     *)
(* that the aggregator waits for the acknowledgements that are on their    *)
(* way, Heeds that what it has recorded of a target is about documents the *)
(* view knows, and Serving that the server speaks only of what the client   *)
(* may listen to                                                           *)
(*                                                                         *)
(* A handler goes through many calls, so its effect is stated as a relation*)
(* between the client before and after it: Quiet (what the listeners hear),*)
(* Talk (what the aggregator waits for), Steady (what it may believe), and *)
(* Moved and Going, which combine them.  They are transitive, and a handler*)
(* is proved step by step from the calls it makes, innermost first.  The   *)
(* loops of the code are folds over sets of any size: Induct and RunExists *)
(* carry a property along them.                                            *)
(***************************************************************************)
EXTENDS FirestoreReads, FiniteSetTheorems, SequenceTheorems, TLAPS

-----------------------------------------------------------------------------
(* Loops: what holds of a start and is kept by every step holds at the end.*)

\* Induction along an interval, with the set of the places it holds at as P.
LEMMA Induct ==
  ASSUME NEW n \in Nat, NEW P, 0 \in P, \A i \in 0 .. n : i < n /\ i \in P => i + 1 \in P
  PROVE  n \in P
<1> SUFFICES ASSUME n \notin P PROVE FALSE
    OBVIOUS
<1> DEFINE S == 1 .. n
           T == {1 .. k : k \in {k \in 0 .. n : k \notin P}}
<1>1. IsWellFoundedOn(StrictSubsetOrdering(S), FiniteSubsetsOf(S))
      BY FS_StrictSubsetOrderingWellFounded
<1>2. T \subseteq FiniteSubsetsOf(S)
      <2>1. ASSUME NEW k \in 0 .. n PROVE 1 .. k \subseteq S /\ IsFiniteSet(1 .. k)
            BY FS_Interval
      <2> QED
          BY <2>1 DEF FiniteSubsetsOf
<1>3. S \in T
      OBVIOUS
<1> HIDE DEF T
<1>4. PICK X \in T : \A Y \in T : ~ (<<Y, X>> \in StrictSubsetOrdering(S))
      BY <1>1, <1>2, <1>3, WFMin
<1> USE DEF T
<1>5. PICK k \in 0 .. n : k \notin P /\ X = 1 .. k
      BY <1>4
<1>6. k \in 1 .. n /\ k - 1 \in 0 .. n /\ k - 1 < n
      BY <1>5
<1>7. k - 1 \notin P
      BY <1>5, <1>6
<1>8. 1 .. k - 1 \in T
      BY <1>6, <1>7
<1>9. <<1 .. k - 1, 1 .. k>> \in StrictSubsetOrdering(S)
      <2>1. k \in 1 .. k /\ k \notin 1 .. k - 1
            BY <1>6
      <2>2. 1 .. k - 1 \subseteq 1 .. k /\ 1 .. k \subseteq 1 .. n
            BY <1>6
      <2> QED
          BY <2>1, <2>2 DEF StrictSubsetOrdering
<1> QED
    BY <1>4, <1>5, <1>8, <1>9

\* SetToSeq lists a finite set, every member once.
LEMMA Listed ==
  ASSUME NEW S, IsFiniteSet(S)
  PROVE  /\ SetToSeq(S) \in Seq(S) /\ Len(SetToSeq(S)) = Cardinality(S)
         /\ Cardinality(S) \in Nat
         /\ SetToSeq(S) \in [1 .. Cardinality(S) -> S]
         /\ \A i, j \in 1 .. Cardinality(S) : SetToSeq(S)[i] = SetToSeq(S)[j] => i = j
         /\ \A x \in S : \E i \in 1 .. Cardinality(S) : SetToSeq(S)[i] = x
<1>1. Cardinality(S) \in Nat /\ ExistsBijection(1 .. Cardinality(S), S)
      BY FS_CardinalityType
<1>2. \E f \in [1 .. Cardinality(S) -> S] : IsInjective(f)
      BY <1>1 DEF ExistsBijection, Bijection, Injection, IsInjective
<1>3. SetToSeq(S) \in [1 .. Cardinality(S) -> S] /\ IsInjective(SetToSeq(S))
      BY <1>2 DEF SetToSeq
<1>4. \A x \in S : \E i \in 1 .. Cardinality(S) : SetToSeq(S)[i] = x
      <2>1. IsFiniteSet(1 .. Cardinality(S)) /\ Cardinality(1 .. Cardinality(S)) = Cardinality(S)
            BY <1>1, FS_Interval
      <2>2. SetToSeq(S) \in Injection(1 .. Cardinality(S), S)
            BY <1>3 DEF Injection, IsInjective
      <2>3. IsFiniteSet(S) /\ Cardinality(S) = Cardinality(1 .. Cardinality(S))
            BY <2>1
      <2>4. SetToSeq(S) \in Surjection(1 .. Cardinality(S), S)
            BY <2>1, <2>2, <2>3, FS_Injection
      <2> QED BY <2>4 DEF Surjection
<1> QED
    BY <1>1, <1>3, <1>4 DEF IsInjective

\* One step of a loop for every member of S, from T to T.
Steps(T, S) == [T -> [S -> T]]
\* f goes from c along order, a step at a time.
Run(f, step, c, order, n) == f[0] = c /\ \A i \in 1 .. n : f[i] = step[f[i - 1]][order[i]]

\* A loop that stays in T has a run.
LEMMA RunExists ==
  ASSUME NEW T, NEW S, NEW step \in Steps(T, S), NEW c \in T, NEW n \in Nat,
         NEW order, order \in [1 .. n -> S]
  PROVE  \E f : f \in [0 .. n -> T] /\ Run(f, step, c, order, n)
<1> USE DEF Steps, Run
<1> DEFINE Runs(f, k) == f[0] = c /\ \A i \in 1 .. k : f[i] = step[f[i - 1]][order[i]]
           P == {k \in 0 .. n : \E f \in [0 .. k -> T] : Runs(f, k)}
<1>1. 0 \in P
      <2> DEFINE f == [i \in 0 .. 0 |-> c]
      <2>1. f \in [0 .. 0 -> T] /\ Runs(f, 0)
            OBVIOUS
      <2> HIDE DEF f, Runs
      <2> QED BY <2>1
<1>2. ASSUME NEW k \in 0 .. n, k < n, k \in P PROVE k + 1 \in P
      <2>1. PICK f \in [0 .. k -> T] : Runs(f, k)
            BY <1>2
      <2>2. k \in Nat /\ k + 1 \in 1 .. n
            BY <1>2
      <2> DEFINE last == step[f[k]][order[k + 1]]
                 g == [i \in 0 .. k + 1 |-> IF i = k + 1 THEN last ELSE f[i]]
      <2>3. last \in T
            <3>1. f[k] \in T /\ order[k + 1] \in S
                  BY <2>2
            <3> QED BY <3>1
      <2>4. g \in [0 .. k + 1 -> T] /\ g[0] = c
            <3> HIDE DEF last
            <3> QED BY <2>1, <2>2, <2>3
      <2>5. ASSUME NEW i \in 1 .. k + 1 PROVE g[i] = step[g[i - 1]][order[i]]
            <3>1. CASE i = k + 1
                  BY <2>2, <3>1
            <3>2. CASE i # k + 1
                  <4>1. i \in 1 .. k /\ g[i] = f[i] /\ g[i - 1] = f[i - 1]
                        BY <2>2, <3>2
                  <4> QED BY <2>1, <4>1
            <3> QED BY <3>1, <3>2
      <2>6. Runs(g, k + 1)
            BY <2>4, <2>5
      <2> HIDE DEF g, Runs
      <2> QED BY <1>2, <2>4, <2>6
<1>3. n \in P
      <2> HIDE DEF P
      <2> QED BY <1>1, <1>2, Induct
<1> QED BY <1>3

\* g is a function of the places of a run.
Along(g, n) == g = [i \in 0 .. n |-> g[i]]

\* What goes a step at a time as long as it is in T stays in T.
LEMMA RunWithin ==
  ASSUME NEW T, NEW S, NEW step \in Steps(T, S), NEW c \in T, NEW n \in Nat,
         NEW order, order \in [1 .. n -> S],
         NEW g, Along(g, n), g[0] = c,
         \A i \in 1 .. n : g[i - 1] \in T => g[i] = step[g[i - 1]][order[i]]
  PROVE  g \in [0 .. n -> T] /\ Run(g, step, c, order, n)
<1> DEFINE P == {i \in 0 .. n : g[i] \in T}
<1>1. ASSUME NEW i \in 0 .. n, i < n, i \in P PROVE i + 1 \in P
      <2>1. i + 1 \in 1 .. n /\ i + 1 - 1 = i
            BY <1>1
      <2>2. order[i + 1] \in S /\ g[i + 1] = step[g[i]][order[i + 1]] /\ g[i] \in T
            <3>1. g[i + 1 - 1] \in T => g[i + 1] = step[g[i + 1 - 1]][order[i + 1]]
                  BY <2>1
            <3> QED BY <1>1, <2>1, <3>1
      <2>3. step[g[i]][order[i + 1]] \in T
            BY <2>2 DEF Steps
      <2> QED BY <2>1, <2>2, <2>3
<1>2. ASSUME NEW k \in 0 .. n PROVE g[k] \in T
      <2>1. 0 \in P /\ k \in Nat
            OBVIOUS
      <2>3. \A i \in 0 .. k : i < k /\ i \in P => i + 1 \in P
            BY <1>1
      <2>2. k \in P
            <3> HIDE DEF P
            <3> QED BY <2>1, <2>3, Induct
      <2> QED BY <2>2
<1>3. g \in [0 .. n -> T]
      BY <1>2 DEF Along
<1>4. ASSUME NEW i \in 1 .. n PROVE g[i] = step[g[i - 1]][order[i]]
      BY <1>2
<1> QED BY <1>3, <1>4 DEF Run

\* A run takes every member of S once: what each step leads from P of the members
\* it has taken to P of one more leads to P of them all.
Leads(P, T, S, step) ==
  \A D \in SUBSET S : \A y \in S \ D, e \in T : e \in P[D] => step[e][y] \in P[D \union {y}]

\* Where a run ends.
LEMMA RunEnds ==
  ASSUME NEW T, NEW S, IsFiniteSet(S), NEW step \in Steps(T, S), NEW c,
         NEW f \in [0 .. Len(SetToSeq(S)) -> T],
         Run(f, step, c, SetToSeq(S), Len(SetToSeq(S))),
         NEW P, c \in P[{}], Leads(P, T, S, step)
  PROVE  f[Len(SetToSeq(S))] \in P[S]
<1> DEFINE order == SetToSeq(S)
           n == Len(order)
           taken(i) == {order[j] : j \in 1 .. i}
           I == {i \in 0 .. n : f[i] \in P[taken(i)]}
<1>1. /\ n \in Nat /\ order \in [1 .. n -> S]
      /\ \A i, j \in 1 .. n : order[i] = order[j] => i = j
      /\ \A x \in S : \E i \in 1 .. n : order[i] = x
      BY Listed
<1> HIDE DEF order
<1>2. 0 \in I
      <2>1. taken(0) = {} /\ f[0] = c
            BY DEF Run, order
      <2> HIDE DEF taken, n
      <2>2. 0 \in 0 .. n
            BY <1>1
      <2>3. f[0] \in P[taken(0)]
            BY <2>1
      <2> QED BY <2>2, <2>3
<1>3. ASSUME NEW i \in 0 .. n, i < n, i \in I PROVE i + 1 \in I
      <2>1. i + 1 \in 1 .. n /\ i + 1 \in 0 .. n /\ i \in 0 .. n
            BY <1>1, <1>3
      <2>2. order[i + 1] \in S /\ taken(i) \in SUBSET S
            BY <1>1, <2>1
      <2>3. order[i + 1] \notin taken(i)
            <3> SUFFICES ASSUME NEW j \in 1 .. i, order[j] = order[i + 1] PROVE FALSE
                OBVIOUS
            <3>1. j \in 1 .. n /\ j # i + 1
                  BY <1>1, <2>1
            <3> QED BY <1>1, <2>1, <3>1
      <2>4. taken(i + 1) = taken(i) \union {order[i + 1]}
            <3>1. 1 .. i + 1 = (1 .. i) \union {i + 1}
                  BY <2>1
            <3> QED BY <3>1
      <2>5. f[i + 1] = step[f[i]][order[i + 1]] /\ f[i] \in T
            <3>1. i + 1 - 1 = i
                  BY <2>1
            <3> QED BY <2>1, <3>1 DEF Run, order
      <2> HIDE DEF taken
      <2>6. step[f[i]][order[i + 1]] \in P[taken(i) \union {order[i + 1]}]
            BY <1>3, <2>2, <2>3, <2>5 DEF Leads
      <2> QED BY <2>1, <2>4, <2>5, <2>6
<1>4. n \in I
      <2> HIDE DEF I, n
      <2> QED BY <1>1, <1>2, <1>3, Induct
<1>5. taken(n) = S
      BY <1>1
<1> QED BY <1>4, <1>5 DEF order

\* What every lookup started keeps, Pump keeps.
LEMMA PumpStays ==
  ASSUME NEW T, NEW c \in T, IsFiniteSet(DOMAIN c.waiting), \A e \in T : PumpOne(e) \in T
  PROVE  /\ Pump(c) \in T
         /\ \A P : /\ c \in P[{}]
                   /\ \A D \in SUBSET DOMAIN c.waiting : \A y \in DOMAIN c.waiting \ D, e \in T :
                        e \in P[D] => PumpOne(e) \in P[D \union {y}]
                   => Pump(c) \in P[DOMAIN c.waiting]
<1> DEFINE S == DOMAIN c.waiting
           order == SetToSeq(S)
           n == Len(order)
           Is(f) == f = [i \in 0 .. n |-> IF i = 0 THEN c ELSE PumpOne(f[i - 1])]
           step == [x \in T |-> [y \in S |-> PumpOne(x)]]
<1>1. n \in Nat /\ order \in [1 .. n -> S] /\ step \in Steps(T, S)
      BY Listed DEF Steps
<1>2. PICK f : f \in [0 .. n -> T] /\ Run(f, step, c, order, n)
      <2> HIDE DEF order, S, n, step
      <2> QED BY <1>1, RunExists
<1>3. Is(f)
      <2> HIDE DEF order, S, n
      <2>1. ASSUME NEW i \in 0 .. n PROVE f[i] = IF i = 0 THEN c ELSE PumpOne(f[i - 1])
            BY <1>1, <1>2 DEF Run
      <2> QED BY <1>2, <2>1
<1>4. PICK g : g = (CHOOSE h : Is(h))
      OBVIOUS
<1>5. Is(g)
      <2> HIDE DEF Is
      <2> QED BY <1>3, <1>4
<1>6. Pump(c) = g[n]
      BY <1>4 DEF Pump, ForEach
<1>7. Along(g, n) /\ g[0] = c
      BY <1>1, <1>5 DEF Along
<1>8. ASSUME NEW i \in 1 .. n, g[i - 1] \in T PROVE g[i] = step[g[i - 1]][order[i]]
      <2>1. i \in 0 .. n /\ i # 0
            BY <1>1
      <2>2. g[i] = PumpOne(g[i - 1])
            BY <1>5, <2>1
      <2>3. order[i] \in DOMAIN c.waiting
            <3> HIDE DEF order, n
            <3> QED BY <1>1
      <2> QED BY <1>8, <2>2, <2>3
<1>9. g \in [0 .. n -> T] /\ Run(g, step, c, order, n)
      <2> HIDE DEF Is, step, n, order
      <2> QED BY <1>1, <1>7, <1>8, RunWithin
<1>10. ASSUME NEW Q, c \in Q[{}],
              \A D \in SUBSET DOMAIN c.waiting : \A y \in DOMAIN c.waiting \ D, e \in T :
                e \in Q[D] => PumpOne(e) \in Q[D \union {y}]
       PROVE  g[n] \in Q[DOMAIN c.waiting]
       <2>1. Leads(Q, T, DOMAIN c.waiting, step)
             BY <1>10 DEF Leads
       <2> HIDE DEF step
       <2> QED BY <1>1, <1>9, <1>10, <2>1, RunEnds
<1>11. g[n] \in T
       <2> HIDE DEF n, order, Is, step
       <2> QED BY <1>1, <1>9
<1> HIDE DEF n, order, Is, step
<1> QED BY <1>6, <1>10, <1>11

-----------------------------------------------------------------------------
(* Tables with finitely many keys, and the shape of the client.            *)

\* Functions from a finite set of keys in D to R: the maps of the code.
Partial(D, R) == UNION {[S -> R] : S \in {S \in SUBSET D : IsFiniteSet(S)}}

\* A function on a finite set of keys is such a map.
LEMMA PartialIn ==
  ASSUME NEW D, NEW R, NEW S \in SUBSET D, IsFiniteSet(S), NEW f \in [S -> R]
  PROVE  f \in Partial(D, R)
BY DEF Partial

\* The keys and the values of a map.
LEMMA PartialOut ==
  ASSUME NEW D, NEW R, NEW f \in Partial(D, R)
  PROVE  /\ DOMAIN f \subseteq D /\ IsFiniteSet(DOMAIN f) /\ f \in [DOMAIN f -> R]
         /\ \A x \in DOMAIN f : f[x] \in R
<1>1. PICK S \in SUBSET D : IsFiniteSet(S) /\ f \in [S -> R]
      BY DEF Partial
<1> QED BY <1>1

\* Put writes one key and leaves the others.
LEMMA PartialPut ==
  ASSUME NEW D, NEW R, NEW f \in Partial(D, R), NEW x \in D, NEW v \in R
  PROVE  /\ Put(f, x, v) \in Partial(D, R)
         /\ DOMAIN Put(f, x, v) = DOMAIN f \union {x}
         /\ Put(f, x, v)[x] = v
         /\ \A y \in DOMAIN f : y # x => Put(f, x, v)[y] = f[y]
<1>1. /\ DOMAIN f \subseteq D /\ IsFiniteSet(DOMAIN f) /\ f \in [DOMAIN f -> R]
      BY PartialOut
<1>2. IsFiniteSet(DOMAIN f \union {x})
      BY <1>1, FS_AddElement
<1>3. Put(f, x, v) \in [DOMAIN f \union {x} -> R]
      BY <1>1 DEF Put
<1>4. DOMAIN f \union {x} \in SUBSET D
      BY <1>1
<1> QED BY <1>2, <1>3, <1>4, PartialIn DEF Put

\* Fewer keys make a map still.
LEMMA PartialRestrict ==
  ASSUME NEW D, NEW R, NEW f \in Partial(D, R), NEW S, S \subseteq DOMAIN f
  PROVE  Restrict(f, S) \in Partial(D, R)
<1>1. /\ DOMAIN f \subseteq D /\ IsFiniteSet(DOMAIN f) /\ f \in [DOMAIN f -> R]
      BY PartialOut
<1>2. IsFiniteSet(S)
      BY <1>1, FS_Subset
<1>3. Restrict(f, S) \in [S -> R]
      BY <1>1 DEF Restrict
<1>4. S \in SUBSET D
      BY <1>1
<1> QED BY <1>2, <1>3, <1>4, PartialIn

\* One map over another is a map.
LEMMA PartialOverlay ==
  ASSUME NEW D, NEW R, NEW f \in Partial(D, R), NEW g \in Partial(D, R)
  PROVE  Overlay(f, g) \in Partial(D, R)
<1>1. /\ DOMAIN f \subseteq D /\ IsFiniteSet(DOMAIN f) /\ f \in [DOMAIN f -> R]
      /\ DOMAIN g \subseteq D /\ IsFiniteSet(DOMAIN g) /\ g \in [DOMAIN g -> R]
      BY PartialOut
<1>2. IsFiniteSet(DOMAIN f \union DOMAIN g)
      BY <1>1, FS_Union
<1>3. Overlay(f, g) \in [DOMAIN f \union DOMAIN g -> R]
      BY <1>1 DEF Overlay
<1>4. DOMAIN f \union DOMAIN g \in SUBSET D
      BY <1>1
<1> QED BY <1>2, <1>3, <1>4, PartialIn

\* The map without keys.
LEMMA PartialNone ==
  ASSUME NEW D, NEW R
  PROVE  NoEntries \in Partial(D, R) /\ DOMAIN NoEntries = {}
<1>1. NoEntries \in [{} -> R] /\ IsFiniteSet({}) /\ {} \in SUBSET D
      BY FS_EmptySet DEF NoEntries
<1> QED BY <1>1, PartialIn DEF NoEntries

\* What RemoteStore may listen to: documents, the deck, and limbo lookups.
Targets == Docs \union {Deck} \union (Docs \X Nat)
\* What the cache and the server know of a document.
Status == {"in", "out", "gone"}
\* Resume tokens: none, or what the server had sent when it gave it.
Tokens == SUBSET SUBSET Docs
\* The reads, in the order they are asked.
Reads == 1 .. MaxReads
\* The events of the listeners.
EventType == [read : Reads, what : {"server", "cache", "error"}]
\* The queries of the EventManager.
EntryType == [listeners : SUBSET Reads, snapshot : {"server", "cache", Nothing}]
\* The views of the SyncEngine.
ViewType == [synced : SUBSET Docs, limbo : SUBSET Docs, current : BOOLEAN]
\* The limbo lookups: each document has a target of its own.
LookupType == {f \in Partial(Docs, Docs \X Nat) : \A d \in DOMAIN f : f[d][1] = d}
\* What the cache remembers of a target.
SavedType == [token : Tokens, keys : SUBSET Docs]
\* The requests of the watch stream.
RequestType == [op : {"listen"}, target : Targets, token : Tokens]
                 \union [op : {"stop"}, target : Targets]
\* What the aggregator records of a target.
TargetStateType == [outstanding : Int, current : BOOLEAN, dirty : BOOLEAN,
                    changes : Partial(Docs, {"added", "modified", "removed"}), token : Tokens]
\* The aggregator.
AggregatorType == [targets : Partial(Targets, TargetStateType),
                   documents : Partial(Docs, Status), resets : SUBSET Targets]
\* What the aggregator hands to the SyncEngine.
RemoteEventType == [changes : Partial(Targets, TargetStateType),
                    documents : Partial(Docs, Status), mismatches : SUBSET Targets]
\* The states of the OnlineStateTracker.
OnlineStates == {"Unknown", "Online", "Offline"}

\* The whole client.
ClientType ==
  [events : Seq(EventType), queries : Partial(Asked, EntryType), raised : SUBSET Reads,
   views : Partial(Asked, ViewType), refs : SUBSET (Docs \X Asked), active : LookupType,
   received : SUBSET Docs, waiting : Seq(Docs), nextLimbo : Nat, cache : [Docs -> Status],
   saved : [Asked -> SavedType], targets : Partial(Targets, Tokens), network : BOOLEAN,
   stream : StreamType, aggregator : AggregatorType, online : OnlineStates,
   failed : BOOLEAN, timer : BOOLEAN, requests : Seq(RequestType)]

\* There are finitely many events.
LEMMA AllEvents == IsFiniteSet(EventType)
<1> DEFINE S == Reads \X {"server", "cache", "error"}
           f == [x \in S |-> Event(x[1], x[2])]
<1>1. IsFiniteSet(Reads) /\ IsFiniteSet({"server", "cache", "error"})
      <2>1. IsFiniteSet({"server"} \union {"cache"} \union {"error"})
            BY FS_Singleton, FS_AddElement
      <2>2. {"server", "cache", "error"} = {"server"} \union {"cache"} \union {"error"}
            OBVIOUS
      <2>3. MaxReads \in Int
            BY BoundsAssumption
      <2> QED BY <2>1, <2>2, <2>3, FS_Interval DEF Reads
<1>2. IsFiniteSet(S)
      BY <1>1, FS_Product
<1>3. f \in Surjection(S, EventType)
      <2>1. f \in [S -> EventType]
            BY DEF Event, EventType
      <2>2. ASSUME NEW e \in EventType PROVE \E x \in S : f[x] = e
            <3>1. <<e.read, e.what>> \in S /\ f[<<e.read, e.what>>] = e
                  BY DEF EventType, Event
            <3> QED BY <3>1
      <2> QED BY <2>1, <2>2 DEF Surjection
<1> QED BY <1>2, <1>3, FS_Surjection DEF ExistsSurjection

\* Some fields of the client are left alone.
Same(c, d, fields) == \A f \in fields : d[f] = c[f]

\* The reads some query has as listeners.
Listens(c) == UNION {c.queries[q].listeners : q \in DOMAIN c.queries}

\* Events are only added, to reads that listen; no read becomes a listener; a read
\* that hears of an error listens no more and hears nothing after it.
Quiet(c, d) ==
  /\ Len(c.events) <= Len(d.events)
  /\ \A i \in 1 .. Len(c.events) : d.events[i] = c.events[i]
  /\ \A q \in DOMAIN d.queries : /\ q \in DOMAIN c.queries
                                 /\ d.queries[q].listeners \subseteq c.queries[q].listeners
  /\ \A i \in Len(c.events) + 1 .. Len(d.events) :
       /\ d.events[i].read \in Listens(c)
       /\ d.events[i].what = "error" =>
            /\ d.events[i].read \notin Listens(d)
            /\ \A j \in i + 1 .. Len(d.events) : d.events[j].read # d.events[i].read

\* One quiet step after another is quiet.
LEMMA QuietTrans ==
  ASSUME NEW c \in ClientType, NEW d \in ClientType, NEW e \in ClientType, Quiet(c, d), Quiet(d, e)
  PROVE  Quiet(c, e)
<1>1. /\ Len(c.events) \in Nat /\ Len(d.events) \in Nat /\ Len(e.events) \in Nat
      BY LenProperties DEF ClientType
<1>2. Listens(d) \subseteq Listens(c) /\ Listens(e) \subseteq Listens(d)
      BY DEF Quiet, Listens
<1>3. /\ Len(c.events) <= Len(e.events)
      /\ \A i \in 1 .. Len(c.events) : e.events[i] = c.events[i]
      BY <1>1 DEF Quiet
<1>4. \A q \in DOMAIN e.queries : /\ q \in DOMAIN c.queries
                                  /\ e.queries[q].listeners \subseteq c.queries[q].listeners
      BY DEF Quiet
<1>5. ASSUME NEW i \in Len(c.events) + 1 .. Len(e.events)
      PROVE  /\ e.events[i].read \in Listens(c)
             /\ e.events[i].what = "error" =>
                  /\ e.events[i].read \notin Listens(e)
                  /\ \A j \in i + 1 .. Len(e.events) : e.events[j].read # e.events[i].read
      <2>1. CASE i <= Len(d.events)
            <3>1. i \in Len(c.events) + 1 .. Len(d.events) /\ e.events[i] = d.events[i]
                  BY <1>1, <2>1 DEF Quiet
            <3>2. d.events[i].read \in Listens(c)
                  BY <3>1 DEF Quiet
            <3>3. ASSUME d.events[i].what = "error", NEW j \in i + 1 .. Len(e.events)
                  PROVE  e.events[j].read # d.events[i].read
                  <4>1. CASE j <= Len(d.events)
                        BY <1>1, <3>1, <3>3, <4>1 DEF Quiet
                  <4>2. CASE j > Len(d.events)
                        BY <1>1, <3>1, <3>3, <4>2 DEF Quiet
                  <4> QED BY <1>1, <4>1, <4>2
            <3>4. d.events[i].what = "error" => d.events[i].read \notin Listens(e)
                  BY <1>2, <3>1 DEF Quiet
            <3> QED BY <3>1, <3>2, <3>3, <3>4
      <2>2. CASE i > Len(d.events)
            <3>1. i \in Len(d.events) + 1 .. Len(e.events)
                  BY <1>1, <2>2
            <3> QED BY <1>2, <3>1 DEF Quiet
      <2> QED BY <1>1, <2>1, <2>2
<1> QED BY <1>3, <1>4, <1>5 DEF Quiet

-----------------------------------------------------------------------------
(* Handlers that only raise events.                                        *)

\* Fields that raising events has no part in.
Fixed == {"refs", "active", "received", "waiting", "nextLimbo", "cache", "saved", "network"}
\* Fields of the RemoteStore and its stream.
Link == {"targets", "requests", "aggregator", "stream"}

\* The views are those they were, but for what they show as current.
SameViews(c, d) ==
  /\ DOMAIN d.views = DOMAIN c.views
  /\ \A q \in DOMAIN c.views : /\ d.views[q].synced = c.views[q].synced
                               /\ d.views[q].limbo = c.views[q].limbo

\* Nothing but events, the online state and what views show has changed.
Aside(c, d) ==
  /\ d \in ClientType
  /\ Same(c, d, Fixed) /\ SameViews(c, d)
  /\ DOMAIN d.queries = DOMAIN c.queries
  /\ Quiet(c, d)

\* Fields left alone twice are left alone.
LEMMA SameTrans ==
  ASSUME NEW c, NEW d, NEW e, NEW S, Same(c, d, S), Same(d, e, S)
  PROVE  Same(c, e, S)
BY DEF Same

\* Where no events and no queries change, nothing is heard.
LEMMA QuietSame ==
  ASSUME NEW c \in ClientType, NEW d, Same(c, d, {"events", "queries"})
  PROVE  Quiet(c, d)
<1>1. d.events = c.events /\ d.queries = c.queries
      BY DEF Same
<1>2. Len(c.events) \in Nat
      BY LenProperties DEF ClientType
<1> QED BY <1>1, <1>2 DEF Quiet

\* One step aside after another.
LEMMA AsideTrans ==
  ASSUME NEW c \in ClientType, NEW d, NEW e, Aside(c, d), Aside(d, e)
  PROVE  Aside(c, e)
<1>1. Same(c, e, Fixed)
      BY SameTrans DEF Aside
<1>2. SameViews(c, e)
      BY DEF Aside, SameViews
<1>3. Quiet(c, e)
      BY QuietTrans DEF Aside
<1> QED BY <1>1, <1>2, <1>3 DEF Aside

\* A change of other fields alone is aside.
LEMMA AsideSame ==
  ASSUME NEW c \in ClientType, NEW d \in ClientType,
         Same(c, d, Fixed \union {"events", "queries", "views"})
  PROVE  Aside(c, d)
<1>1. d.views = c.views /\ d.queries = c.queries /\ Same(c, d, Fixed)
      /\ Same(c, d, {"events", "queries"})
      BY DEF Same
<1> QED BY <1>1, QuietSame DEF Aside, SameViews

\* Raise puts events at the end of the queue, and does no more.
LEMMA RaiseType ==
  ASSUME NEW c \in ClientType, NEW news \in SUBSET EventType
  PROVE  /\ Raise(c, news) \in ClientType
         /\ Same(c, Raise(c, news),
              Fixed \union Link \union {"queries", "views", "timer", "failed", "online"})
         /\ Raise(c, news).events = c.events \o SetToSeq(news)
         /\ SetToSeq(news) \in Seq(news)
         /\ Raise(c, news).raised = c.raised \union {e.read : e \in news}
<1>1. IsFiniteSet(news)
      BY AllEvents, FS_Subset
<1>2. SetToSeq(news) \in [1 .. Cardinality(news) -> news] /\ Cardinality(news) \in Nat
      BY <1>1, Listed
<1>3. SetToSeq(news) \in Seq(news) /\ SetToSeq(news) \in Seq(EventType)
      BY <1>2
<1>4. c.events \o SetToSeq(news) \in Seq(EventType)
      BY <1>3, ConcatProperties DEF ClientType
<1>5. c.raised \union {e.read : e \in news} \in SUBSET Reads
      BY DEF ClientType, EventType
<1>6. Raise(c, news) \in ClientType
      BY <1>4, <1>5 DEF Raise, ClientType
<1>7. Same(c, Raise(c, news),
        Fixed \union Link \union {"queries", "views", "timer", "failed", "online"})
      BY DEF Raise, ClientType, Same, Fixed, Link
<1> QED BY <1>3, <1>6, <1>7 DEF Raise, ClientType

\* Events of listeners that are no errors are raised quietly.
LEMMA RaiseQuiet ==
  ASSUME NEW c \in ClientType, NEW news \in SUBSET EventType,
         \A e \in news : e.read \in Listens(c) /\ e.what # "error"
  PROVE  Aside(c, Raise(c, news))
<1> DEFINE d == Raise(c, news)
<1>1. /\ d \in ClientType /\ d.queries = c.queries /\ d.views = c.views
      /\ d.events = c.events \o SetToSeq(news) /\ SetToSeq(news) \in Seq(news)
      /\ Same(c, d, Fixed)
      BY RaiseType DEF Same, Fixed
<1>2. c.events \in Seq(EventType) /\ SetToSeq(news) \in Seq(EventType)
      BY <1>1, SeqMonotonic DEF ClientType
<1>3. /\ Len(c.events) \in Nat /\ Len(SetToSeq(news)) \in Nat
      /\ Len(d.events) = Len(c.events) + Len(SetToSeq(news))
      /\ \A i \in 1 .. Len(c.events) : d.events[i] = c.events[i]
      /\ \A i \in Len(c.events) + 1 .. Len(d.events) :
           d.events[i] = SetToSeq(news)[i - Len(c.events)]
      BY <1>1, <1>2, ConcatProperties, LenProperties
<1>4. ASSUME NEW i \in Len(c.events) + 1 .. Len(d.events)
      PROVE  d.events[i] \in news
      <2>1. i - Len(c.events) \in 1 .. Len(SetToSeq(news))
            BY <1>3
      <2> QED BY <1>1, <1>3, <2>1, ElementOfSeq
<1> HIDE DEF d
<1>5. Quiet(c, d)
      BY <1>1, <1>3, <1>4 DEF Quiet
<1> QED BY <1>1, <1>5 DEF Aside, SameViews, d

\* The snapshots of queries are heard by their listeners.
LEMMA HeardType ==
  ASSUME NEW c \in ClientType, NEW s, DOMAIN s \subseteq DOMAIN c.queries,
         \A q \in DOMAIN s : s[q] \in {"server", "cache"}
  PROVE  Heard(c, s) \in SUBSET EventType /\ \A e \in Heard(c, s) : e.read \in Listens(c)
         /\ e.what # "error"
<1>1. \A q \in DOMAIN c.queries : c.queries[q] \in EntryType
      BY PartialOut DEF ClientType
<1>2. ASSUME NEW q \in DOMAIN s, NEW r \in c.queries[q].listeners
      PROVE  /\ Event(r, s[q]) \in EventType /\ Event(r, s[q]).read \in Listens(c)
             /\ Event(r, s[q]).what # "error"
      <2>1. q \in DOMAIN c.queries /\ r \in Reads
            BY <1>1 DEF EntryType
      <2> QED BY <2>1 DEF Event, EventType, Listens
<1> QED BY <1>2 DEF Heard

\* What the SyncEngine tells the EventManager of its views.
SnapshotsType == Partial(Asked, {"server", "cache"})

\* EventManager::OnViewSnapshots raises events and nothing else.
LEMMA OnViewSnapshotsAside ==
  ASSUME NEW c \in ClientType, NEW s \in SnapshotsType
  PROVE  /\ Aside(c, OnViewSnapshots(c, s))
         /\ Same(c, OnViewSnapshots(c, s), Link \union {"timer", "failed", "online", "views"})
<1> DEFINE reach == Restrict(s, DOMAIN s \intersect DOMAIN c.queries)
           seen == [q \in DOMAIN c.queries |->
                 IF q \in DOMAIN reach THEN [c.queries[q] EXCEPT !.snapshot = reach[q]]
                                       ELSE c.queries[q]]
           c1 == [c EXCEPT !.queries = seen]
           news == Heard(c, reach)
<1>8. OnViewSnapshots(c, s) = Raise(c1, news)
      BY DEF OnViewSnapshots
<1>0. /\ DOMAIN c.queries \subseteq Asked /\ IsFiniteSet(DOMAIN c.queries)
      /\ \A q \in DOMAIN c.queries : c.queries[q] \in EntryType
      BY PartialOut DEF ClientType
<1>1. /\ DOMAIN reach = DOMAIN s \intersect DOMAIN c.queries
      /\ \A q \in DOMAIN reach : reach[q] \in {"server", "cache"}
      BY PartialOut DEF SnapshotsType, Restrict
<1> HIDE DEF reach
<1>2. seen \in Partial(Asked, EntryType)
      <2>1. ASSUME NEW q \in DOMAIN c.queries PROVE seen[q] \in EntryType
            BY <1>0, <1>1 DEF EntryType
      <2>2. seen \in [DOMAIN c.queries -> EntryType]
            BY <2>1
      <2> QED BY <1>0, <2>2, PartialIn
<1>3. /\ DOMAIN seen = DOMAIN c.queries
      /\ \A q \in DOMAIN c.queries : seen[q].listeners = c.queries[q].listeners
      BY <1>0 DEF EntryType
<1> HIDE DEF seen
<1>4. /\ c1 \in ClientType /\ c1.queries = seen /\ c1.events = c.events
      /\ Same(c, c1, Fixed \union Link \union {"timer", "failed", "online", "views"})
      BY <1>2 DEF ClientType, Same, Fixed, Link
<1>5. DOMAIN seen = DOMAIN c.queries /\ Listens(c1) = Listens(c)
      BY <1>3, <1>4 DEF Listens
<1> HIDE DEF c1
<1>6. news \in SUBSET EventType /\ \A e \in news : e.read \in Listens(c1) /\ e.what # "error"
      BY <1>1, <1>5, HeardType
<1> HIDE DEF news
<1>7. Aside(c1, Raise(c1, news))
      /\ Same(c1, Raise(c1, news), Link \union {"timer", "failed", "online", "views"})
      BY <1>4, <1>6, RaiseQuiet, RaiseType DEF Same
<1>9. Aside(c, c1)
      <2>1. Same(c, c1, Fixed) /\ c1.views = c.views
            BY <1>4 DEF Same
      <2>2. Len(c.events) \in Nat
            BY LenProperties DEF ClientType
      <2>3. Quiet(c, c1)
            BY <1>3, <1>4, <1>5, <2>2 DEF Quiet
      <2> QED BY <1>4, <1>5, <2>1, <2>3 DEF Aside, SameViews
<1>10. Aside(c, Raise(c1, news))
      BY <1>7, <1>9, AsideTrans
<1> QED BY <1>4, <1>7, <1>8, <1>10 DEF Same

\* A change of the online state reaches views and listeners and nothing else.
LEMMA HandleOnlineStateChangeAside ==
  ASSUME NEW c \in ClientType, NEW state \in OnlineStates
  PROVE  /\ Aside(c, HandleOnlineStateChange(c, state))
         /\ Same(c, HandleOnlineStateChange(c, state), Link \union {"timer", "failed"})
         /\ HandleOnlineStateChange(c, state).online = state
<1> DEFINE now == {q \in DOMAIN c.views : c.views[q].current /\ state = "Offline"}
           views == [q \in DOMAIN c.views |->
                       IF q \in now THEN [c.views[q] EXCEPT !.current = FALSE] ELSE c.views[q]]
           falling == {q \in now : InSync(c.views[q])}
           s == [q \in falling |-> "cache"]
           c1 == [c EXCEPT !.views = views]
           c2 == OnViewSnapshots(c1, s)
           viewed == [c2 EXCEPT !.online = state]
           waiting == {q \in DOMAIN viewed.queries : viewed.queries[q].snapshot # Nothing}
           last == [q \in waiting |-> viewed.queries[q].snapshot]
           news == {e \in Heard(viewed, last) : e.read \notin viewed.raised}
<1>1. HandleOnlineStateChange(c, state) = Raise(viewed, news)
      BY DEF HandleOnlineStateChange
<1>2. /\ DOMAIN c.views \subseteq Asked /\ IsFiniteSet(DOMAIN c.views)
      /\ \A q \in DOMAIN c.views : c.views[q] \in ViewType
      BY PartialOut DEF ClientType
<1>3. views \in Partial(Asked, ViewType)
      <2>1. \A q \in DOMAIN c.views : views[q] \in ViewType
            BY <1>2 DEF ViewType
      <2>2. views \in [DOMAIN c.views -> ViewType]
            BY <2>1
      <2> QED BY <1>2, <2>2, PartialIn
<1>4. /\ DOMAIN views = DOMAIN c.views
      /\ \A q \in DOMAIN c.views : /\ views[q].synced = c.views[q].synced
                                   /\ views[q].limbo = c.views[q].limbo
      BY <1>2 DEF ViewType
<1>5. s \in SnapshotsType
      <2>1. falling \in SUBSET Asked /\ IsFiniteSet(falling)
            BY <1>2, FS_Subset
      <2>2. s \in [falling -> {"server", "cache"}]
            OBVIOUS
      <2> QED BY <2>1, <2>2, PartialIn DEF SnapshotsType
<1> HIDE DEF views, s
<1>6. /\ c1 \in ClientType /\ c1.views = views
      /\ Same(c, c1, Fixed \union Link \union {"timer", "failed", "online", "queries", "events"})
      BY <1>3 DEF ClientType, Same, Fixed, Link
<1>7. Aside(c, c1)
      <2>1. Same(c, c1, Fixed) /\ Same(c, c1, {"events", "queries"}) /\ c1.queries = c.queries
            BY <1>6 DEF Same
      <2>2. SameViews(c, c1)
            BY <1>4, <1>6 DEF SameViews
      <2> QED BY <1>6, <2>1, <2>2, QuietSame DEF Aside
<1> HIDE DEF c1
<1>8. Aside(c1, c2) /\ Same(c1, c2, Link \union {"timer", "failed", "online"})
      BY <1>5, <1>6, OnViewSnapshotsAside DEF Same
<1> HIDE DEF c2
<1>9. /\ viewed \in ClientType /\ viewed.online = state
      /\ Same(c2, viewed, Fixed \union Link \union {"timer", "failed", "queries", "events",
           "views"})
      BY <1>8 DEF ClientType, Same, Fixed, Link, Aside
<1>10. Aside(c2, viewed)
      <2>1. c2 \in ClientType
            BY <1>8 DEF Aside
      <2>2. Same(c2, viewed, Fixed \union {"events", "queries", "views"})
            BY <1>9 DEF Same
      <2> QED BY <1>9, <2>1, <2>2, AsideSame
<1> HIDE DEF viewed
<1>11. news \in SUBSET EventType /\ \A e \in news : e.read \in Listens(viewed) /\ e.what # "error"
      <2>1. \A q \in DOMAIN viewed.queries : viewed.queries[q] \in EntryType
            BY <1>9, PartialOut DEF ClientType
      <2>2. DOMAIN last \subseteq DOMAIN viewed.queries
            /\ \A q \in DOMAIN last : last[q] \in {"server", "cache"}
            BY <2>1 DEF EntryType
      <2> HIDE DEF last
      <2>3. Heard(viewed, last) \in SUBSET EventType
            /\ \A e \in Heard(viewed, last) : e.read \in Listens(viewed) /\ e.what # "error"
            BY <1>9, <2>2, HeardType
      <2> QED BY <2>3
<1> HIDE DEF news
<1>12. /\ Aside(viewed, Raise(viewed, news))
       /\ Same(viewed, Raise(viewed, news), Link \union {"timer", "failed", "online"})
      BY <1>9, <1>11, RaiseQuiet, RaiseType DEF Same
<1>13. Aside(c, c2)
      BY <1>7, <1>8, AsideTrans
<1>14. Aside(c, viewed)
      BY <1>13, <1>10, AsideTrans
<1>15. Aside(c, Raise(viewed, news))
      BY <1>14, <1>12, AsideTrans
<1>16. Same(c, Raise(viewed, news), Link \union {"timer", "failed"})
       /\ Raise(viewed, news).online = state
      BY <1>6, <1>8, <1>9, <1>12 DEF Same
<1> QED BY <1>1, <1>15, <1>16

\* The tracker tells the SyncEngine of a new state, once.
LEMMA SetAndBroadcastAside ==
  ASSUME NEW c \in ClientType, NEW state \in OnlineStates
  PROVE  /\ Aside(c, SetAndBroadcast(c, state))
         /\ Same(c, SetAndBroadcast(c, state), Link \union {"timer", "failed"})
         /\ SetAndBroadcast(c, state).online = state
<1>1. Aside(c, c) /\ Same(c, c, Link \union {"timer", "failed"})
      BY AsideSame DEF Same
<1> QED BY <1>1, HandleOnlineStateChangeAside DEF SetAndBroadcast

\* OnlineStateTracker::UpdateState stops the timer and forgets the failure.
LEMMA UpdateStateAside ==
  ASSUME NEW c \in ClientType, NEW state \in OnlineStates
  PROVE  /\ Aside(c, UpdateState(c, state)) /\ Same(c, UpdateState(c, state), Link)
         /\ LET d == UpdateState(c, state) IN d.online = state /\ ~d.timer /\ ~d.failed
<1> DEFINE c1 == [c EXCEPT !.timer = FALSE, !.failed = FALSE]
<1>1. /\ c1 \in ClientType /\ ~c1.timer /\ ~c1.failed
      /\ Same(c, c1, Fixed \union {"events", "queries", "views"}) /\ Same(c, c1, Link)
      BY DEF ClientType, Same, Fixed, Link
<1> HIDE DEF c1
<1>2. /\ Aside(c1, SetAndBroadcast(c1, state))
      /\ Same(c1, SetAndBroadcast(c1, state), Link \union {"timer", "failed"})
      /\ SetAndBroadcast(c1, state).online = state
      BY <1>1, SetAndBroadcastAside
<1>3. Aside(c, SetAndBroadcast(c1, state))
      BY <1>1, <1>2, AsideSame, AsideTrans
<1>4. UpdateState(c, state) = SetAndBroadcast(c1, state)
      BY DEF UpdateState, c1
<1> QED BY <1>1, <1>2, <1>3, <1>4 DEF Same

-----------------------------------------------------------------------------
(* Requests and acknowledgements: what is counted, and what a request does.*)

\* How many of a sequence are in A.
Count(s, A) == Cardinality({i \in DOMAIN s : s[i] \in A})

\* A count is a number, zero of an empty sequence.
LEMMA CountType ==
  ASSUME NEW S, NEW s \in Seq(S), NEW A
  PROVE  Count(s, A) \in Nat /\ (s = <<>> => Count(s, A) = 0)
<1>1. DOMAIN s = 1 .. Len(s) /\ Len(s) \in Nat
      BY LenProperties
<1>2. IsFiniteSet({i \in DOMAIN s : s[i] \in A})
      <2>1. IsFiniteSet(1 .. Len(s)) /\ {i \in DOMAIN s : s[i] \in A} \in SUBSET (1 .. Len(s))
            BY <1>1, FS_Interval
      <2> QED BY <2>1, FS_Subset
<1>3. s = <<>> => {i \in DOMAIN s : s[i] \in A} = {}
      OBVIOUS
<1> QED BY <1>2, <1>3, FS_CardinalityType, FS_EmptySet DEF Count

\* One more at the end counts if it is in A.
LEMMA CountAppend ==
  ASSUME NEW S, NEW s \in Seq(S), NEW x \in S, NEW A
  PROVE  Count(Append(s, x), A) = Count(s, A) + (IF x \in A THEN 1 ELSE 0)
<1> DEFINE I == {i \in DOMAIN s : s[i] \in A}
           J == {i \in DOMAIN Append(s, x) : Append(s, x)[i] \in A}
<1>1. DOMAIN s = 1 .. Len(s) /\ Len(s) \in Nat
      BY LenProperties
<1>2. /\ DOMAIN Append(s, x) = 1 .. Len(s) + 1
      /\ \A i \in 1 .. Len(s) : Append(s, x)[i] = s[i]
      /\ Append(s, x)[Len(s) + 1] = x
      OBVIOUS
<1>3. IsFiniteSet(I) /\ Len(s) + 1 \notin I
      <2>1. IsFiniteSet(1 .. Len(s)) /\ I \in SUBSET (1 .. Len(s))
            BY <1>1, FS_Interval
      <2> QED BY <1>1, <2>1, FS_Subset
<1>4. J = IF x \in A THEN I \union {Len(s) + 1} ELSE I
      BY <1>1, <1>2
<1> HIDE DEF I, J
<1>5. Cardinality(J) = Cardinality(I) + (IF x \in A THEN 1 ELSE 0)
      <2>1. Cardinality(I) \in Nat
            BY <1>3, FS_CardinalityType
      <2>2. Cardinality(I \union {Len(s) + 1}) = Cardinality(I) + 1
            BY <1>3, FS_AddElement
      <2> QED BY <1>4, <2>1, <2>2
<1> QED BY <1>5 DEF Count, I, J

\* How many acknowledgements of t the aggregator waits for.
Owed(c, t) == StateOf(c.aggregator, t).outstanding
\* The requests that concern t.
RequestsOf(t) == {x \in RequestType : x.target = t}
\* Of these, how many the server has sent or need not send any more.
Balance(c, t) == Owed(c, t) - Count(c.requests, RequestsOf(t))

\* Whatever was requested is waited for, and nothing that was recorded is touched.
Talk(c, d) ==
  /\ IsOpen(d.stream) = IsOpen(c.stream)
  /\ \A t \in Targets :
       /\ Balance(d, t) = Balance(c, t)
       /\ Owed(d, t) >= Owed(c, t)
       /\ StateOf(d.aggregator, t).changes = StateOf(c.aggregator, t).changes
       /\ StateOf(d.aggregator, t).dirty = StateOf(c.aggregator, t).dirty

\* What the aggregator has of a target, or a fresh state of one it has not.
LEMMA StateType ==
  ASSUME NEW a \in AggregatorType, NEW t
  PROVE  StateOf(a, t) \in TargetStateType
<1>1. NewTargetState \in TargetStateType
      BY PartialNone DEF NewTargetState, TargetStateType, Tokens
<1>2. t \in DOMAIN a.targets => a.targets[t] \in TargetStateType
      BY PartialOut DEF AggregatorType
<1> QED BY <1>1, <1>2 DEF StateOf

\* The state of one target is set, and no other.
LEMMA WithStateType ==
  ASSUME NEW a \in AggregatorType, NEW t \in Targets, NEW s \in TargetStateType
  PROVE  /\ WithState(a, t, s) \in AggregatorType
         /\ StateOf(WithState(a, t, s), t) = s
         /\ \A u : u # t => StateOf(WithState(a, t, s), u) = StateOf(a, u)
         /\ WithState(a, t, s).resets = a.resets /\ WithState(a, t, s).documents = a.documents
         /\ DOMAIN WithState(a, t, s).targets = DOMAIN a.targets \union {t}
<1>1. /\ Put(a.targets, t, s) \in Partial(Targets, TargetStateType)
      /\ DOMAIN Put(a.targets, t, s) = DOMAIN a.targets \union {t}
      /\ Put(a.targets, t, s)[t] = s
      /\ \A y \in DOMAIN a.targets : y # t => Put(a.targets, t, s)[y] = a.targets[y]
      <2>1. a.targets \in Partial(Targets, TargetStateType)
            BY DEF AggregatorType
      <2>2. Put(a.targets, t, s) \in Partial(Targets, TargetStateType)
            BY <2>1, PartialPut
      <2>3. DOMAIN Put(a.targets, t, s) = DOMAIN a.targets \union {t}
            BY DEF Put
      <2> QED BY <2>1, <2>2, <2>3 DEF Put
<1>2. /\ WithState(a, t, s) \in AggregatorType /\ WithState(a, t, s).targets = Put(a.targets, t, s)
      /\ WithState(a, t, s).resets = a.resets /\ WithState(a, t, s).documents = a.documents
      BY <1>1 DEF AggregatorType, WithState
<1> QED BY <1>1, <1>2 DEF StateOf

\* Counts of acknowledgements and requests are numbers.
LEMMA OwedType ==
  ASSUME NEW c \in ClientType, NEW t
  PROVE  Owed(c, t) \in Int /\ Count(c.requests, RequestsOf(t)) \in Nat
<1>1. c.aggregator \in AggregatorType /\ c.requests \in Seq(RequestType)
      BY DEF ClientType
<1> QED BY <1>1, StateType, CountType DEF Owed, TargetStateType

\* One talk after another.
LEMMA TalkTrans ==
  ASSUME NEW c \in ClientType, NEW d \in ClientType, NEW e \in ClientType, Talk(c, d), Talk(d, e)
  PROVE  Talk(c, e)
<1>1. \A t \in Targets : Owed(c, t) \in Int /\ Owed(d, t) \in Int /\ Owed(e, t) \in Int
      BY OwedType
<1> QED BY <1>1 DEF Talk

\* The requests and the aggregator are left alone.
LEMMA TalkSame ==
  ASSUME NEW c \in ClientType, NEW d, d.requests = c.requests, d.aggregator = c.aggregator,
         IsOpen(d.stream) = IsOpen(c.stream)
  PROVE  Talk(c, d)
<1>1. \A t \in Targets : Owed(c, t) \in Int
      BY OwedType
<1> QED BY <1>1 DEF Talk, Owed, Balance

\* The watch stream, its credentials and timers and the online state agree.  A
\* stream that is not open has no requests and no records; an idle one has nothing
\* to listen to; the online timer runs only while the state is unknown.
Linked(c) ==
  /\ c.stream.sound
  /\ ("current" \in c.stream.asked) = (c.stream.state = "Starting")
  /\ c.stream.backoff = (c.stream.state = "Backoff")
  /\ c.stream.idle => IsOpen(c.stream) /\ DOMAIN c.targets = {}
  /\ ~IsOpen(c.stream) => c.aggregator = NewAggregator /\ c.requests = <<>>
  /\ c.timer => c.online = "Unknown" /\ IsStarted(c.stream)
  /\ c.failed => c.online = "Offline"
  /\ IsStarted(c.stream) => c.network

\* The stream runs if there is a network and something to listen to.
Awake(c) == c.network /\ DOMAIN c.targets # {} => IsStarted(c.stream)

\* Fields that sending a request has no part in.
Meta == {"queries", "events", "views", "online", "timer", "failed"}

\* A request sent is one more to wait for.
LEMMA SendRequestEffect ==
  ASSUME NEW c \in ClientType, IsOpen(c.stream), c.stream.sound, NEW x \in RequestType
  PROVE  LET d == SendRequest(c, x)
         IN  /\ d \in ClientType /\ Same(c, d, Fixed \union Meta \union {"targets"})
             /\ d.stream = [c.stream EXCEPT !.idle = FALSE]
             /\ Talk(c, d) /\ Owed(d, x.target) > Owed(c, x.target)
<1> DEFINE d == SendRequest(c, x)
           s == StateOf(c.aggregator, x.target)
           s1 == [s EXCEPT !.outstanding = @ + 1]
<1>1. /\ c.aggregator \in AggregatorType /\ c.requests \in Seq(RequestType)
         /\ c.stream \in StreamType
      /\ x.target \in Targets
      BY DEF ClientType, RequestType
<1>2. s \in TargetStateType
      BY <1>1, StateType
<1> HIDE DEF s
<1>3. /\ s1 \in TargetStateType /\ s1.outstanding = s.outstanding + 1
      /\ s1.changes = s.changes /\ s1.dirty = s.dirty
      BY <1>2 DEF TargetStateType
<1>4. RecordPendingTargetRequest(c.aggregator, x.target) = WithState(c.aggregator, x.target, s1)
      BY DEF RecordPendingTargetRequest, s
<1> HIDE DEF s1
<1> DEFINE a1 == WithState(c.aggregator, x.target, s1)
<1>5. /\ a1 \in AggregatorType /\ StateOf(a1, x.target) = s1
      /\ \A u : u # x.target => StateOf(a1, u) = StateOf(c.aggregator, u)
      BY <1>1, <1>3, WithStateType
<1> HIDE DEF a1
<1>6. Written(c.stream) = [c.stream EXCEPT !.idle = FALSE] /\ Written(c.stream) \in StreamType
      BY <1>1 DEF Written, CancelIdleCheck, HardAssert, StreamType
<1>7. d = [c EXCEPT !.aggregator = a1, !.stream = Written(@), !.requests = Append(@, x)]
      BY <1>4 DEF SendRequest, a1
<1> HIDE DEF d
<1>8. /\ d \in ClientType /\ Same(c, d, Fixed \union Meta \union {"targets"})
      /\ d.stream = Written(c.stream) /\ d.requests = Append(c.requests, x) /\ d.aggregator = a1
      <2>1. Append(c.requests, x) \in Seq(RequestType)
            BY <1>1
      <2>2. DOMAIN c = DOMAIN d /\ d \in ClientType
            BY <1>5, <1>6, <1>7, <2>1 DEF ClientType
      <2> QED BY <1>7, <2>2 DEF ClientType, Same, Fixed, Meta
<1>9. IsOpen(d.stream) = IsOpen(c.stream)
      BY <1>1, <1>6, <1>8 DEF IsOpen, StreamType
<1>10. ASSUME NEW t \in Targets
       PROVE  /\ Balance(d, t) = Balance(c, t)
              /\ Owed(d, t) >= Owed(c, t)
              /\ StateOf(d.aggregator, t).changes = StateOf(c.aggregator, t).changes
              /\ StateOf(d.aggregator, t).dirty = StateOf(c.aggregator, t).dirty
       <2>1. Count(d.requests, RequestsOf(t)) = Count(c.requests, RequestsOf(t)) + IF t = x.target
               THEN 1 ELSE 0
             BY <1>1, <1>8, CountAppend DEF RequestsOf
       <2>2. Owed(d, t) = Owed(c, t) + IF t = x.target THEN 1 ELSE 0
             <3>1. t = x.target => Owed(d, t) = Owed(c, t) + 1
                   BY <1>3, <1>5, <1>8 DEF Owed, s
             <3>2. t # x.target => Owed(d, t) = Owed(c, t)
                   BY <1>5, <1>8 DEF Owed
             <3> QED BY <3>1, <3>2, OwedType
       <2>3. Owed(c, t) \in Int /\ Count(c.requests, RequestsOf(t)) \in Nat
             BY OwedType
       <2>4. Balance(d, t) = Balance(c, t)
             BY <2>1, <2>2, <2>3 DEF Balance
       <2>5. Owed(d, t) >= Owed(c, t)
             BY <2>2, <2>3
       <2> QED BY <1>3, <1>5, <1>8, <2>4, <2>5 DEF s
<1>11. Owed(d, x.target) > Owed(c, x.target)
       <2>1. Owed(d, x.target) = Owed(c, x.target) + 1
             BY <1>3, <1>5, <1>8 DEF Owed, s
       <2> QED BY <2>1, OwedType
<1> QED BY <1>6, <1>8, <1>9, <1>10, <1>11 DEF Talk, d

-----------------------------------------------------------------------------
(* RemoteStore: listening, and ceasing to listen.                          *)

\* A step aside changes the documents of no target.
LEMMA KeysAside ==
  ASSUME NEW c \in ClientType, NEW d, Aside(c, d), NEW t
  PROVE  KeysOf(d, t) = KeysOf(c, t)
<1>1. d.received = c.received /\ d.active = c.active /\ SameViews(c, d)
      BY DEF Aside, Same, Fixed
<1> QED BY <1>1 DEF KeysOf, SameViews

\* RemoteStore::StartWatchStream leaves the stream running, not yet open.
LEMMA StartWatchStreamEffect ==
  ASSUME NEW c \in ClientType, Linked(c), ShouldStartWatchStream(c)
  PROVE  LET d == StartWatchStream(c)
         IN  Aside(c, d) /\ Linked(d) /\ Awake(d) /\ Same(c, d, {"targets"}) /\ Talk(c, d)
             /\ ~IsOpen(d.stream)
<1> DEFINE c1 == [c EXCEPT !.aggregator = NewAggregator, !.stream = Start(@)]
           c2 == SetAndBroadcast(c1, "Unknown")
           d == StartWatchStream(c)
<1>1. /\ c.stream \in StreamType /\ ~IsOpen(c.stream) /\ ~c.timer /\ c.aggregator = NewAggregator
      /\ c.requests = <<>>
      BY DEF ClientType, Linked, ShouldStartWatchStream, IsOpen, IsStarted
<1>2. /\ Start(c.stream) \in StreamType /\ Start(c.stream).sound
      /\ ("current" \in Start(c.stream).asked) = (Start(c.stream).state = "Starting")
      /\ Start(c.stream).backoff = (Start(c.stream).state = "Backoff")
      /\ ~Start(c.stream).idle /\ IsStarted(Start(c.stream)) /\ ~IsOpen(Start(c.stream))
      BY <1>1 DEF Start, BackoffAndTryRestarting, RequestCredentials, HardAssert, StreamType,
           StreamStates,
           Linked, IsOpen, IsStarted, ShouldStartWatchStream
<1>3. /\ c1 \in ClientType /\ c1.stream = Start(c.stream)
      /\ Same(c, c1, Fixed \union Meta \union {"targets", "requests", "aggregator"})
      BY <1>1, <1>2 DEF ClientType, Same, Fixed, Meta
<1>4. Aside(c, c1)
      BY <1>3, AsideSame DEF Same, Meta
<1>5. StartWatchStream(c) = HandleWatchStreamStart(c1)
      BY DEF StartWatchStream
<1> HIDE DEF c1
<1>6. CASE c1.failed
      <2>1. d = c1
            BY <1>5, <1>6 DEF HandleWatchStreamStart
      <2>2. d.targets = c.targets /\ d.requests = c.requests /\ d.aggregator = c.aggregator
            /\ d.timer = c.timer /\ d.failed = c.failed /\ d.online = c.online
               /\ d.network = c.network
            BY <1>3, <2>1 DEF Same, Fixed, Meta
      <2>3. Linked(d) /\ Awake(d)
            BY <1>1, <1>2, <1>3, <2>1, <2>2 DEF Linked, Awake, ShouldStartWatchStream
      <2>4. Talk(c, d)
            BY <1>1, <1>2, <1>3, <2>1, <2>2, TalkSame DEF IsOpen
      <2>5. Same(c, d, {"targets"})
            BY <2>2 DEF Same
      <2> HIDE DEF d
      <2> QED BY <1>2, <1>3, <1>4, <2>1, <2>3, <2>4, <2>5 DEF d
<1>7. CASE ~c1.failed
      <2>1. /\ Aside(c1, c2) /\ Same(c1, c2, Link \union {"timer", "failed"})
            /\ c2.online = "Unknown" /\ c2 \in ClientType
            BY <1>3, SetAndBroadcastAside DEF OnlineStates, Aside
      <2> HIDE DEF c2
      <2>2. c2.stream = Start(c.stream) /\ ~c1.timer
            BY <1>1, <1>3, <2>1 DEF Same, Link, Meta
      <2>3. HardAssert(c2.stream, ~c1.timer) = c2.stream
            BY <1>2, <2>2 DEF HardAssert, StreamType
      <2>4. d = [[c2 EXCEPT !.stream = HardAssert(@, ~c1.timer)] EXCEPT !.timer = TRUE]
            BY <1>5, <1>7 DEF HandleWatchStreamStart, Check, c2
      <2> HIDE DEF d
      <2>5. /\ d \in ClientType /\ d.timer /\ d.online = "Unknown" /\ d.stream = c2.stream
            /\ Same(c2, d, Fixed \union Link \union {"events", "queries", "views", "failed"})
            BY <2>1, <2>3, <2>4 DEF ClientType, Same, Fixed, Link
      <2>6. Aside(c2, d)
            <3>1. Same(c2, d, Fixed \union {"events", "queries", "views"})
                  BY <2>5 DEF Same
            <3> QED BY <2>1, <2>5, <3>1, AsideSame
      <2>7. Aside(c, d)
            BY <1>4, <2>1, <2>6, AsideTrans
      <2>8. d.targets = c.targets /\ d.requests = c.requests /\ d.aggregator = c.aggregator
            /\ ~d.failed /\ d.network = c.network /\ d.stream = Start(c.stream)
            BY <1>3, <1>7, <2>1, <2>2, <2>5 DEF Same, Fixed, Meta, Link, Aside
      <2>9. Linked(d) /\ Awake(d)
            BY <1>1, <1>2, <2>5, <2>8 DEF Linked, Awake, ShouldStartWatchStream
      <2>10. Talk(c, d)
             BY <1>1, <1>2, <2>8, TalkSame DEF IsOpen
      <2>11. Same(c, d, {"targets"})
             BY <2>8 DEF Same
      <2> QED BY <1>2, <2>7, <2>8, <2>9, <2>10, <2>11 DEF d
<1> QED BY <1>6, <1>7

\* RemoteStore::Listen adds a target; over an open stream it waits for the answer.
LEMMA RemoteListenEffect ==
  ASSUME NEW c \in ClientType, Linked(c), Awake(c), NEW t \in Targets, NEW token \in Tokens
  PROVE  LET d == RemoteListen(c, t, token)
         IN  /\ Aside(c, d) /\ Linked(d) /\ Awake(d) /\ Talk(c, d)
             /\ DOMAIN d.targets = DOMAIN c.targets \union {t}
             /\ IsOpen(c.stream) /\ t \notin DOMAIN c.targets => Owed(d, t) > Owed(c, t)
<1> DEFINE added == [c EXCEPT !.targets = Put(@, t, token)]
           d == RemoteListen(c, t, token)
<1>1. CASE t \in DOMAIN c.targets
      <2>1. d = c
            BY <1>1 DEF RemoteListen
      <2>2. Aside(c, c) /\ Talk(c, c) /\ DOMAIN c.targets \union {t} = DOMAIN c.targets
            BY <1>1, AsideSame, TalkSame DEF Same
      <2> QED BY <1>1, <2>1, <2>2
<1>2. CASE t \notin DOMAIN c.targets
      <2>1. /\ Put(c.targets, t, token) \in Partial(Targets, Tokens)
            /\ DOMAIN Put(c.targets, t, token) = DOMAIN c.targets \union {t}
            /\ Put(c.targets, t, token)[t] = token
            <3>1. c.targets \in Partial(Targets, Tokens)
                  BY DEF ClientType
            <3>2. Put(c.targets, t, token) \in Partial(Targets, Tokens)
                  BY <3>1, PartialPut
            <3> QED BY <3>2 DEF Put
      <2>2. /\ added \in ClientType /\ DOMAIN added.targets = DOMAIN c.targets \union {t}
            /\ added.targets[t] = token
            /\ Same(c, added, Fixed \union Meta \union {"requests", "aggregator", "stream"})
            BY <2>1 DEF ClientType, Same, Fixed, Meta
      <2>3. d = IF ShouldStartWatchStream(added) THEN StartWatchStream(added)
                ELSE IF IsOpen(c.stream) THEN SendWatchRequest(added, t) ELSE added
            BY <1>2 DEF RemoteListen
      <2> HIDE DEF added
      <2>4. Aside(c, added) /\ Talk(c, added)
            <3>1. Same(c, added, Fixed \union {"events", "queries", "views"})
                  /\ added.requests = c.requests /\ added.aggregator = c.aggregator
                     /\ added.stream = c.stream
                  BY <2>2 DEF Same, Meta
            <3> QED BY <2>2, <3>1, AsideSame, TalkSame
      <2>5. /\ added.stream = c.stream /\ added.network = c.network /\ added.timer = c.timer
            /\ added.failed = c.failed /\ added.online = c.online /\ added.requests = c.requests
            /\ added.aggregator = c.aggregator
            BY <2>2 DEF Same, Fixed, Meta
      <2>6. CASE ShouldStartWatchStream(added)
            <3>1. ~c.stream.idle /\ ~IsOpen(c.stream)
                  BY <2>5, <2>6 DEF Linked, ShouldStartWatchStream, IsOpen, IsStarted
            <3>2. Linked(added)
                  BY <2>5, <3>1 DEF Linked
            <3>3. d = StartWatchStream(added)
                  BY <2>3, <2>6
            <3> HIDE DEF d
            <3>4. Aside(added, d) /\ Linked(d) /\ Awake(d) /\ Same(added, d, {"targets"})
                  /\ Talk(added, d)
                  BY <2>2, <2>6, <3>2, <3>3, StartWatchStreamEffect
            <3>5. Aside(c, d) /\ Talk(c, d)
                  BY <2>2, <2>4, <3>4, AsideTrans, TalkTrans DEF Aside
            <3> QED BY <2>2, <3>1, <3>4, <3>5 DEF d, Same
      <2>7. CASE ~ShouldStartWatchStream(added) /\ IsOpen(c.stream)
            <3> DEFINE x == [op |-> "listen", target |-> t, token |-> token]
            <3>1. x \in RequestType /\ x.target = t
                  BY DEF RequestType
            <3>2. d = SendRequest(added, x)
                  BY <2>2, <2>3, <2>7 DEF SendWatchRequest
            <3> HIDE DEF d, x
            <3>3. /\ d \in ClientType /\ Same(added, d, Fixed \union Meta \union {"targets"})
                  /\ d.stream = [c.stream EXCEPT !.idle = FALSE]
                  /\ Talk(added, d) /\ Owed(d, t) > Owed(added, t)
                  BY <2>2, <2>5, <2>7, <3>1, <3>2, SendRequestEffect DEF Linked, Same
            <3>4. Aside(added, d)
                  <4>1. Same(added, d, Fixed \union {"events", "queries", "views"})
                        BY <3>3 DEF Same, Meta
                  <4> QED BY <2>2, <3>3, <4>1, AsideSame
            <3>5. Aside(c, d) /\ Talk(c, d)
                  BY <2>2, <2>4, <3>3, <3>4, AsideTrans, TalkTrans DEF Aside
            <3>6. /\ d.targets = added.targets /\ d.network = c.network /\ d.timer = c.timer
                  /\ d.failed = c.failed /\ d.online = c.online
                  BY <2>5, <3>3 DEF Same, Fixed, Meta
            <3>7. /\ d.stream.sound = c.stream.sound /\ d.stream.state = c.stream.state
                  /\ d.stream.asked = c.stream.asked /\ d.stream.backoff = c.stream.backoff
                     /\ ~d.stream.idle
                  BY <3>3 DEF ClientType, StreamType
            <3>8. Linked(d) /\ Awake(d)
                  BY <2>7, <3>6, <3>7 DEF Linked, Awake, IsOpen, IsStarted
            <3>9. Owed(d, t) > Owed(c, t)
                  BY <2>5, <3>3 DEF Owed
            <3> QED BY <2>2, <3>5, <3>6, <3>8, <3>9 DEF d
      <2>8. CASE ~ShouldStartWatchStream(added) /\ ~IsOpen(c.stream)
            <3>1. d = added
                  BY <2>3, <2>8
            <3>2. Linked(added) /\ Awake(added)
                  BY <2>5, <2>8 DEF Linked, Awake, ShouldStartWatchStream
            <3> QED BY <2>2, <2>4, <2>8, <3>1, <3>2
      <2> QED BY <2>6, <2>7, <2>8
<1> QED BY <1>1, <1>2

\* A target is forgotten, and nothing else.
LEMMA UntrackedEffect ==
  ASSUME NEW c \in ClientType, NEW t, t \in DOMAIN c.targets
  PROVE  LET d == Untracked(c, t)
         IN  /\ d \in ClientType /\ Same(c, d,
                  Fixed \union Meta \union {"requests", "aggregator", "stream"})
             /\ DOMAIN d.targets = DOMAIN c.targets \ {t}
<1> DEFINE d == Untracked(c, t)
<1>1. c.stream \in StreamType /\ c.targets \in Partial(Targets, Tokens)
      BY DEF ClientType
<1>2. HardAssert(c.stream, t \in DOMAIN c.targets) = c.stream
      BY <1>1 DEF HardAssert, StreamType
<1>3. Restrict(c.targets, DOMAIN c.targets \ {t}) \in Partial(Targets, Tokens)
      BY <1>1, PartialRestrict
<1>4. d = [[c EXCEPT !.stream = HardAssert(@, t \in DOMAIN c.targets)]
             EXCEPT !.targets = Restrict(@, DOMAIN @ \ {t})]
      BY DEF Untracked, Check
<1> HIDE DEF d
<1>5. d \in ClientType /\ d.targets = Restrict(c.targets, DOMAIN c.targets \ {t})
      BY <1>1, <1>2, <1>3, <1>4 DEF ClientType
<1>6. Same(c, d, Fixed \union Meta \union {"requests", "aggregator", "stream"})
      BY <1>1, <1>2, <1>4 DEF ClientType, Same, Fixed, Meta
<1> QED BY <1>5, <1>6 DEF Restrict, d

\* RemoteStore::StopListening removes a target and keeps the stream in order.
LEMMA RemoteStopListeningEffect ==
  ASSUME NEW c \in ClientType, Linked(c), Awake(c), NEW t, t \in DOMAIN c.targets
  PROVE  LET d == RemoteStopListening(c, t)
         IN  /\ Aside(c, d) /\ Linked(d) /\ Awake(d) /\ Talk(c, d)
             /\ DOMAIN d.targets = DOMAIN c.targets \ {t}
<1> DEFINE left == Untracked(c, t)
           sent == IF IsOpen(left.stream) THEN SendUnwatchRequest(left, t) ELSE left
           d == RemoteStopListening(c, t)
<1>1. /\ left \in ClientType /\ DOMAIN left.targets = DOMAIN c.targets \ {t}
      /\ Same(c, left, Fixed \union Meta \union {"requests", "aggregator", "stream"})
      BY UntrackedEffect
<1>2. d = IF DOMAIN sent.targets # {} THEN sent
          ELSE IF IsOpen(c.stream) THEN [sent EXCEPT !.stream = MarkIdle(@)]
          ELSE IF c.network THEN UpdateState(sent, "Unknown")
          ELSE sent
      <2>1. left.stream = c.stream
            BY <1>1 DEF Same
      <2> QED BY <2>1 DEF RemoteStopListening
<1> HIDE DEF left
<1>3. /\ left.stream = c.stream /\ left.network = c.network /\ left.timer = c.timer
      /\ left.failed = c.failed /\ left.online = c.online /\ left.requests = c.requests
      /\ left.aggregator = c.aggregator
      BY <1>1 DEF Same, Fixed, Meta
<1>4. Aside(c, left) /\ Talk(c, left)
      <2>1. Same(c, left, Fixed \union {"events", "queries", "views"})
            BY <1>1 DEF Same, Meta
      <2> QED BY <1>1, <1>3, <2>1, AsideSame, TalkSame
<1>5. ~c.stream.idle
      BY DEF Linked
<1>6. Linked(left) /\ Awake(left)
      BY <1>1, <1>3, <1>5 DEF Linked, Awake
<1>7. CASE IsOpen(c.stream)
      <2> DEFINE x == [op |-> "stop", target |-> t]
      <2>1. x \in RequestType /\ x.target = t
            <3>1. t \in Targets
                  BY PartialOut DEF ClientType
            <3> QED BY <3>1 DEF RequestType
      <2>2. sent = SendRequest(left, x)
            BY <1>3, <1>7 DEF SendUnwatchRequest
      <2> HIDE DEF sent, x
      <2>3. /\ sent \in ClientType /\ Same(left, sent, Fixed \union Meta \union {"targets"})
            /\ sent.stream = [c.stream EXCEPT !.idle = FALSE] /\ Talk(left, sent)
            <3>1. IsOpen(left.stream) /\ left.stream.sound
                  BY <1>3, <1>6, <1>7 DEF Linked
            <3> QED BY <1>1, <1>3, <2>1, <2>2, <3>1, SendRequestEffect DEF Same
      <2>4. Aside(left, sent)
            <3>1. Same(left, sent, Fixed \union {"events", "queries", "views"})
                  BY <2>3 DEF Same, Meta
            <3> QED BY <1>1, <2>3, <3>1, AsideSame
      <2>5. Aside(c, sent) /\ Talk(c, sent)
            BY <1>1, <1>4, <2>3, <2>4, AsideTrans, TalkTrans
      <2>6. /\ sent.targets = left.targets /\ sent.network = c.network /\ sent.timer = c.timer
            /\ sent.failed = c.failed /\ sent.online = c.online
            BY <1>3, <2>3 DEF Same, Fixed, Meta
      <2>7. /\ sent.stream.sound = c.stream.sound /\ sent.stream.state = c.stream.state
            /\ sent.stream.asked = c.stream.asked /\ sent.stream.backoff = c.stream.backoff
               /\ ~sent.stream.idle
            /\ sent.stream \in StreamType
            BY <2>3 DEF ClientType, StreamType
      <2>8. Linked(sent) /\ Awake(sent)
            BY <1>7, <2>6, <2>7 DEF Linked, Awake, IsOpen, IsStarted
      <2>9. CASE DOMAIN sent.targets # {}
            BY <1>1, <1>2, <2>5, <2>6, <2>8, <2>9
      <2>10. CASE DOMAIN sent.targets = {}
            <3>1. d = [sent EXCEPT !.stream = [sent.stream EXCEPT !.idle = TRUE]]
                  BY <1>2, <1>7, <2>7, <2>10 DEF MarkIdle, IsOpen
            <3> HIDE DEF d
            <3>2. /\ d \in ClientType /\ d.stream = [sent.stream EXCEPT !.idle = TRUE]
                  /\ Same(sent, d, Fixed \union Meta \union {"targets", "requests", "aggregator"})
                  BY <2>3, <2>7, <3>1 DEF ClientType, StreamType, Same, Fixed, Meta
            <3>3. /\ d.stream.sound = c.stream.sound /\ d.stream.state = c.stream.state
                  /\ d.stream.asked = c.stream.asked /\ d.stream.backoff = c.stream.backoff
                  BY <2>7, <3>2 DEF StreamType
            <3>4. Aside(sent, d) /\ Talk(sent, d)
                  <4>1. Same(sent, d, Fixed \union {"events", "queries", "views"})
                        /\ d.requests = sent.requests /\ d.aggregator = sent.aggregator
                        /\ IsOpen(d.stream) = IsOpen(sent.stream)
                        BY <2>7, <3>2, <3>3 DEF Same, Meta, IsOpen
                  <4> QED BY <2>3, <3>2, <4>1, AsideSame, TalkSame
            <3>5. Aside(c, d) /\ Talk(c, d)
                  BY <2>3, <2>5, <3>2, <3>4, AsideTrans, TalkTrans
            <3>6. /\ d.targets = sent.targets /\ d.network = c.network /\ d.timer = c.timer
                  /\ d.failed = c.failed /\ d.online = c.online
                  BY <2>6, <3>2 DEF Same, Fixed, Meta
            <3>7. Linked(d) /\ Awake(d)
                  BY <1>7, <2>10, <3>3, <3>6 DEF Linked, Awake, IsOpen, IsStarted
            <3> QED BY <1>1, <2>6, <3>5, <3>6, <3>7 DEF d
      <2> QED BY <2>9, <2>10
<1>8. CASE ~IsOpen(c.stream)
      <2>1. sent = left
            BY <1>3, <1>8
      <2> HIDE DEF sent
      <2>2. CASE d = left
            BY <1>1, <1>4, <1>6, <2>2
      <2>3. CASE d = UpdateState(left, "Unknown") /\ c.network /\ DOMAIN left.targets = {}
            <3> HIDE DEF d
            <3>1. /\ Aside(left, d) /\ Same(left, d, Link)
                  /\ d.online = "Unknown" /\ ~d.timer /\ ~d.failed
                  BY <1>1, <2>3, UpdateStateAside DEF OnlineStates
            <3>2. /\ d.targets = left.targets /\ d.requests = left.requests
                  /\ d.aggregator = left.aggregator /\ d.stream = left.stream
                     /\ d.network = left.network
                  BY <3>1 DEF Same, Link, Aside, Fixed
            <3>3. Linked(d) /\ Awake(d)
                  BY <1>6, <2>3, <3>1, <3>2 DEF Linked, Awake
            <3>4. Talk(left, d)
                  BY <1>1, <3>2, TalkSame
            <3>5. Aside(c, d) /\ Talk(c, d)
                  BY <1>1, <1>4, <3>1, <3>4, AsideTrans, TalkTrans DEF Aside
            <3> QED BY <1>1, <3>2, <3>3, <3>5 DEF d
      <2> QED BY <1>2, <1>8, <2>1, <2>2, <2>3
<1> QED BY <1>7, <1>8

\* No document is queued twice.
NoRepeats(s) == \A i, j \in DOMAIN s : s[i] = s[j] => i = j

\* A document leaves the queue of the lookups that wait.
LEMMA DequeuedEffect ==
  ASSUME NEW c \in ClientType, NoRepeats(c.waiting), NEW x
  PROVE  LET d == Dequeued(c, x)
         IN  /\ d \in ClientType /\ Range(d.waiting) = Range(c.waiting) \ {x}
                /\ NoRepeats(d.waiting)
             /\ Same(c, d, (Fixed \ {"waiting"}) \union Meta \union Link)
<1> DEFINE d == Dequeued(c, x)
           s == c.waiting
<1>1. s \in Seq(Docs) /\ Len(s) \in Nat /\ DOMAIN s = 1 .. Len(s)
      BY LenProperties DEF ClientType
<1>2. CASE x \notin Range(s)
      BY <1>2 DEF Dequeued, Same
<1>3. CASE x \in Range(s)
      <2>1. PICK i : i = (CHOOSE j \in DOMAIN s : s[j] = x)
            OBVIOUS
      <2>2. i \in 1 .. Len(s) /\ s[i] = x
            BY <1>1, <1>3, <2>1 DEF Range
      <2> DEFINE a == SubSeq(s, 1, i - 1)
                 b == SubSeq(s, i + 1, Len(s))
                 w == a \o b
      <2>3. /\ a \in Seq(Docs) /\ Len(a) = i - 1
            /\ \A k \in 1 .. i - 1 : a[k] = s[k]
            <3>1. \A k \in 1 .. i - 1 : s[k] \in Docs
                  BY <1>1, <2>2
            <3>2. 1 \in Int /\ i - 1 \in Int
                  BY <2>2
            <3> QED BY <2>2, <3>1, <3>2, SubSeqProperties
      <2>4. /\ b \in Seq(Docs) /\ Len(b) = Len(s) - i
            /\ \A k \in 1 .. Len(s) - i : b[k] = s[i + k]
            <3>1. \A k \in i + 1 .. Len(s) : s[k] \in Docs
                  BY <1>1, <2>2
            <3>2. i + 1 \in Int /\ Len(s) \in Int
                  BY <1>1, <2>2
            <3>3. b \in Seq(Docs) /\ Len(b) = (IF i + 1 <= Len(s) THEN Len(s) - (i + 1) + 1 ELSE 0)
                  /\ \A k \in 1 .. Len(s) - (i + 1) + 1 : b[k] = s[i + 1 + k - 1]
                  BY <3>1, <3>2, SubSeqProperties
            <3> QED BY <1>1, <2>2, <3>3
      <2> HIDE DEF a, b
      <2>5. /\ w \in Seq(Docs) /\ Len(w) = Len(s) - 1
            /\ \A k \in 1 .. Len(s) - 1 : w[k] = IF k <= i - 1 THEN s[k] ELSE s[k + 1]
            <3>1. /\ w \in Seq(Docs) /\ Len(w) = Len(a) + Len(b)
                  /\ \A k \in 1 .. Len(a) + Len(b) : w[k] = IF k <= Len(a) THEN a[k]
                       ELSE b[k - Len(a)]
                  BY <2>3, <2>4, ConcatProperties
            <3>2. Len(w) = Len(s) - 1
                  BY <1>1, <2>2, <2>3, <2>4, <3>1
            <3>3. ASSUME NEW k \in 1 .. Len(s) - 1
                  PROVE  w[k] = IF k <= i - 1 THEN s[k] ELSE s[k + 1]
                  <4>1. CASE k <= i - 1
                        <5>1. k \in 1 .. i - 1 /\ w[k] = a[k]
                              BY <1>1, <2>2, <2>3, <2>4, <3>1, <4>1
                        <5> QED BY <2>3, <4>1, <5>1
                  <4>2. CASE ~(k <= i - 1)
                        <5>1. k - (i - 1) \in 1 .. Len(s) - i /\ w[k] = b[k - (i - 1)]
                              BY <1>1, <2>2, <2>3, <2>4, <3>1, <4>2
                        <5>2. b[k - (i - 1)] = s[i + (k - (i - 1))]
                              BY <2>4, <5>1
                        <5>3. i + (k - (i - 1)) = k + 1
                              BY <2>2
                        <5> QED BY <4>2, <5>1, <5>2, <5>3
                  <4> QED BY <4>1, <4>2
            <3> QED BY <3>1, <3>2, <3>3
      <2>6. d = [c EXCEPT !.waiting = w]
            BY <1>3, <2>1 DEF Dequeued, RemoveAt, a, b
      <2> HIDE DEF d, w
      <2>7. d \in ClientType /\ d.waiting = w
            /\ Same(c, d, (Fixed \ {"waiting"}) \union Meta \union Link)
            BY <2>5, <2>6 DEF ClientType, Same, Fixed, Meta, Link
      <2>8. DOMAIN w = 1 .. Len(s) - 1
            BY <2>5, LenProperties
      <2>9. Range(w) = Range(s) \ {x}
            <3>1. ASSUME NEW k \in 1 .. Len(s) - 1 PROVE w[k] \in Range(s) \ {x}
                  <4>1. CASE k <= i - 1
                        <5>1. w[k] = s[k] /\ k # i /\ k \in DOMAIN s
                              BY <1>1, <2>2, <2>5, <4>1
                        <5> QED BY <1>1, <2>2, <5>1 DEF NoRepeats, Range
                  <4>2. CASE ~(k <= i - 1)
                        <5>1. w[k] = s[k + 1] /\ k + 1 # i /\ k + 1 \in DOMAIN s
                              BY <1>1, <2>2, <2>5, <4>2
                        <5> QED BY <1>1, <2>2, <5>1 DEF NoRepeats, Range
                  <4> QED BY <4>1, <4>2
            <3>2. ASSUME NEW k \in 1 .. Len(s), s[k] # x PROVE s[k] \in Range(w)
                  <4>1. CASE k < i
                        <5>1. k \in 1 .. Len(s) - 1 /\ w[k] = s[k]
                              BY <1>1, <2>2, <2>5, <4>1
                        <5> QED BY <2>8, <5>1 DEF Range
                  <4>2. CASE k > i
                        <5>1. k - 1 \in 1 .. Len(s) - 1 /\ w[k - 1] = s[k]
                              BY <1>1, <2>2, <2>5, <4>2
                        <5> QED BY <2>8, <5>1 DEF Range
                  <4> QED BY <2>2, <3>2, <4>1, <4>2
            <3> QED BY <1>1, <2>8, <3>1, <3>2 DEF Range
      <2>10. NoRepeats(w)
             <3>1. ASSUME NEW j \in 1 .. Len(s) - 1, NEW k \in 1 .. Len(s) - 1, w[j] = w[k]
                   PROVE  j = k
                   <4> DEFINE J == IF j <= i - 1 THEN j ELSE j + 1
                              K == IF k <= i - 1 THEN k ELSE k + 1
                   <4>1. J \in DOMAIN s /\ K \in DOMAIN s /\ s[J] = s[K]
                         BY <1>1, <2>5, <3>1
                   <4>2. J = K
                         BY <4>1 DEF NoRepeats
                   <4> QED BY <2>2, <4>2
             <3> QED BY <2>8, <3>1 DEF NoRepeats
      <2> QED BY <2>7, <2>9, <2>10 DEF d
<1> QED BY <1>2, <1>3

-----------------------------------------------------------------------------
(* The client in order, and the lookups of limbo documents.                *)

\* RemoteStore listens to the views and the lookups, no document is looked up
\* twice, and no more are than there are slots.
Fits(c) ==
  /\ DOMAIN c.targets = DOMAIN c.views \union Range(c.active)
  /\ DOMAIN c.active \intersect Range(c.waiting) = {}
  /\ c.received \subseteq DOMAIN c.active
  /\ NoRepeats(c.waiting)
  /\ Cardinality(DOMAIN c.active) <= MaxLimbo

\* The client is in order.
Ready(c) == c \in ClientType /\ Fits(c) /\ Linked(c) /\ Awake(c)

\* What is recorded of a target stays about the documents it is listened to for,
\* or is thrown away by an acknowledgement still to come.
Steady(c, d) ==
  IsOpen(c.stream) =>
    \A t \in DOMAIN d.targets :
      \/ Owed(d, t) > Owed(c, t)
      \/ DOMAIN StateOf(c.aggregator, t).changes = {}
      \/ t \in DOMAIN c.targets /\ KeysOf(d, t) = KeysOf(c, t)

\* A step of the SyncEngine or the RemoteStore that keeps the views and queries.
Moved(c, d) ==
  /\ Quiet(c, d) /\ Talk(c, d) /\ Steady(c, d)
  /\ DOMAIN d.views = DOMAIN c.views /\ DOMAIN d.queries = DOMAIN c.queries
  /\ Same(c, d, {"cache", "saved", "network"})

\* The documents that are looked up or wait for it, and those some view refers to.
Lookups(c) == DOMAIN c.active \union Range(c.waiting)
Wanted(c) == {ref[1] : ref \in c.refs}

\* None waits while a slot is free.
Busy(c) == c.waiting # <<>> => Cardinality(DOMAIN c.active) = MaxLimbo

\* What is referred to is looked up or waits, unless it was refused, and nothing else.
Chased(c) == Busy(c) /\ Lookups(c) \subseteq Wanted(c) /\ Wanted(c) \ Refused \subseteq Lookups(c)

\* The views and their references stay.
Kept(c, d) == d.refs = c.refs /\ SameViews(c, d)

\* The limbo documents of the views, each with its query.
Referred(c) == UNION {c.views[q].limbo \X {q} : q \in DOMAIN c.views}

\* The references are to the limbo documents of the views, and are looked up.
Tracks(c) == Chased(c) /\ c.refs = Referred(c)
Follows(c, d) == Tracks(c) => Tracks(d)

\* A queue without members is empty.
LEMMA EmptyQueue ==
  ASSUME NEW s \in Seq(Docs)
  PROVE  (s = <<>> <=> Range(s) = {}) /\ (s = <<>> <=> Len(s) = 0) /\ Len(s) \in Nat
<1>1. Len(s) \in Nat /\ DOMAIN s = 1 .. Len(s)
      BY LenProperties
<1>2. s = <<>> <=> Len(s) = 0
      BY EmptySeq
<1>3. Range(s) = {} <=> DOMAIN s = {}
      BY DEF Range
<1>4. Len(s) = 0 => DOMAIN s = {}
      BY <1>1
<1>5. Len(s) # 0 => 1 \in DOMAIN s
      BY <1>1
<1> QED BY <1>1, <1>2, <1>3, <1>4, <1>5

\* What is in limbo where.
LEMMA InLimbo ==
  ASSUME NEW c, NEW ref
  PROVE  ref \in Referred(c) <=>
           \E q \in DOMAIN c.views : \E x \in c.views[q].limbo : ref = <<x, q>>
BY DEF Referred

\* The lookups do not change where the references and the views do not.
LEMMA FollowsSame ==
  ASSUME NEW c, NEW d, d.refs = c.refs, d.active = c.active, d.waiting = c.waiting,
         SameViews(c, d)
  PROVE  Follows(c, d)
<1>1. \A ref : ref \in Referred(d) <=> ref \in Referred(c)
      BY InLimbo DEF SameViews
<1>2. Referred(d) = Referred(c)
      BY <1>1
<1> QED BY <1>2 DEF Follows, Tracks, Chased, Busy, Lookups, Wanted

\* So it is with a step aside.
LEMMA FollowsAside ==
  ASSUME NEW c, NEW d, Aside(c, d)
  PROVE  Follows(c, d)
BY FollowsSame DEF Aside, Same, Fixed

\* A view goes with its references.
LEMMA FollowsWithout ==
  ASSUME NEW c, NEW d, NEW q, d.refs = {x \in c.refs : x[2] # q},
         DOMAIN d.views = DOMAIN c.views \ {q},
         \A x \in DOMAIN d.views : d.views[x].limbo = c.views[x].limbo,
         Chased(c) => Chased(d)
  PROVE  Follows(c, d)
<1>1. ASSUME c.refs = Referred(c) PROVE d.refs = Referred(d)
      <2>1. ASSUME NEW ref PROVE ref \in d.refs <=> ref \in Referred(d)
            <3>1. ref \in d.refs <=>
                    \E y \in DOMAIN c.views : \E x \in c.views[y].limbo : ref = <<x, y>> /\ y # q
                  BY <1>1, InLimbo
            <3>2. ref \in Referred(d) <=>
                    \E y \in DOMAIN d.views : \E x \in d.views[y].limbo : ref = <<x, y>>
                  BY InLimbo
            <3> QED BY <3>1, <3>2
      <2> QED BY <2>1
<1> QED BY <1>1 DEF Follows, Tracks

\* A view comes with nothing in limbo.
LEMMA FollowsWith ==
  ASSUME NEW c, NEW d, NEW q, d.refs = c.refs, d.active = c.active, d.waiting = c.waiting,
         q \notin DOMAIN c.views, DOMAIN d.views = DOMAIN c.views \union {q},
         d.views[q].limbo = {}, \A x \in DOMAIN c.views : d.views[x].limbo = c.views[x].limbo
  PROVE  Follows(c, d)
<1>1. \A ref : ref \in Referred(d) <=> ref \in Referred(c)
      BY InLimbo
<1>2. Referred(d) = Referred(c)
      BY <1>1
<1> QED BY <1>2 DEF Follows, Tracks, Chased, Busy, Lookups, Wanted

\* A view takes documents in and out of limbo.
LEMMA FollowsChange ==
  ASSUME NEW c, NEW d, NEW q \in DOMAIN c.views, NEW after,
         d.refs = (c.refs \ ((c.views[q].limbo \ after) \X {q}))
                    \union ((after \ c.views[q].limbo) \X {q}),
         DOMAIN d.views = DOMAIN c.views, d.views[q].limbo = after,
         \A x \in DOMAIN c.views : x # q => d.views[x].limbo = c.views[x].limbo,
         Chased(c) => Chased(d)
  PROVE  Follows(c, d)
<1>1. ASSUME c.refs = Referred(c) PROVE d.refs = Referred(d)
      <2>1. ASSUME NEW ref PROVE ref \in d.refs <=> ref \in Referred(d)
            <3>1. ref \in c.refs <=> \E y \in DOMAIN c.views : \E x \in c.views[y].limbo : ref = <<x, y>>
                  BY <1>1, InLimbo
            <3>2. ref \in Referred(d) <=>
                    \E y \in DOMAIN d.views : \E x \in d.views[y].limbo : ref = <<x, y>>
                  BY InLimbo
            <3>3. ref \in (c.views[q].limbo \ after) \X {q}
                    <=> \E x \in c.views[q].limbo \ after : ref = <<x, q>>
                  OBVIOUS
            <3>4. ref \in (after \ c.views[q].limbo) \X {q}
                    <=> \E x \in after \ c.views[q].limbo : ref = <<x, q>>
                  OBVIOUS
            <3>5. ref \in d.refs <=>
                    \/ ref \in c.refs /\ ~\E x \in c.views[q].limbo \ after : ref = <<x, q>>
                    \/ \E x \in after \ c.views[q].limbo : ref = <<x, q>>
                  BY <3>3, <3>4
            <3>6. CASE \E y : y # q /\ \E x : ref = <<x, y>>
                  BY <3>1, <3>2, <3>5, <3>6
            <3>7. CASE \E x : ref = <<x, q>>
                  BY <3>1, <3>2, <3>5, <3>7
            <3> QED BY <3>1, <3>2, <3>5, <3>6, <3>7
      <2> QED BY <2>1
<1> QED BY <1>1 DEF Follows, Tracks

\* One steady step after another.
LEMMA SteadyTrans ==
  ASSUME NEW c \in ClientType, NEW d \in ClientType, NEW e \in ClientType,
         Talk(c, d), Talk(d, e), Steady(c, d), Steady(d, e)
  PROVE  Steady(c, e)
<1> SUFFICES ASSUME IsOpen(c.stream), NEW t \in DOMAIN e.targets
             PROVE  \/ Owed(e, t) > Owed(c, t)
                    \/ DOMAIN StateOf(c.aggregator, t).changes = {}
                    \/ t \in DOMAIN c.targets /\ KeysOf(e, t) = KeysOf(c, t)
    BY DEF Steady
<1>1. IsOpen(d.stream)
      BY DEF Talk
<1>2. t \in Targets
      BY PartialOut DEF ClientType
<1>3. Owed(c, t) \in Int /\ Owed(d, t) \in Int /\ Owed(e, t) \in Int
      BY OwedType
<1>4. /\ Owed(d, t) >= Owed(c, t) /\ Owed(e, t) >= Owed(d, t)
      /\ StateOf(d.aggregator, t).changes = StateOf(c.aggregator, t).changes
      BY <1>2 DEF Talk
<1>5. \/ Owed(e, t) > Owed(d, t)
      \/ DOMAIN StateOf(d.aggregator, t).changes = {}
      \/ t \in DOMAIN d.targets /\ KeysOf(e, t) = KeysOf(d, t)
      BY <1>1 DEF Steady
<1>6. t \in DOMAIN d.targets =>
        \/ Owed(d, t) > Owed(c, t)
        \/ DOMAIN StateOf(c.aggregator, t).changes = {}
        \/ t \in DOMAIN c.targets /\ KeysOf(d, t) = KeysOf(c, t)
      BY DEF Steady
<1> QED BY <1>3, <1>4, <1>5, <1>6

\* One such step after another.
LEMMA MovedTrans ==
  ASSUME NEW c \in ClientType, NEW d \in ClientType, NEW e \in ClientType, Moved(c, d), Moved(d, e)
  PROVE  Moved(c, e)
<1>1. Quiet(c, e) /\ Talk(c, e)
      BY QuietTrans, TalkTrans DEF Moved
<1>2. DOMAIN e.views = DOMAIN c.views /\ DOMAIN e.queries = DOMAIN c.queries
      BY DEF Moved
<1>3. Same(c, e, {"cache", "saved", "network"})
      BY SameTrans DEF Moved
<1> QED BY <1>1, <1>2, <1>3, SteadyTrans DEF Moved

\* A step aside is one of them, if the targets it adds are waited for.
LEMMA AsideMoved ==
  ASSUME NEW c \in ClientType, NEW d, Aside(c, d), Talk(c, d),
         IsOpen(c.stream) => \A t \in DOMAIN d.targets : t \in DOMAIN c.targets \/ Owed(d,
           t) > Owed(c, t)
  PROVE  Moved(c, d)
<1>1. Same(c, d, {"cache", "saved", "network"}) /\ Quiet(c, d) /\ DOMAIN d.views = DOMAIN c.views
      /\ DOMAIN d.queries = DOMAIN c.queries
      BY DEF Aside, Same, Fixed, SameViews
<1>2. \A t : KeysOf(d, t) = KeysOf(c, t)
      BY KeysAside
<1> QED BY <1>1, <1>2 DEF Moved, Steady

\* So is no step at all.
LEMMA MovedSelf ==
  ASSUME NEW c \in ClientType
  PROVE  Moved(c, c)
<1>1. Aside(c, c) /\ Talk(c, c)
      BY AsideSame, TalkSame DEF Same
<1> QED BY <1>1, AsideMoved

\* The target of a view is never that of a lookup.
LEMMA QueriesAreNoLookups ==
  ASSUME NEW c \in ClientType
  PROVE  DOMAIN c.views \intersect Range(c.active) = {}
<1>1. DOMAIN c.views \subseteq Asked /\ \A d \in DOMAIN c.active : c.active[d] \in Docs \X Nat
      BY PartialOut DEF ClientType, LookupType
<1>2. Range(c.active) \subseteq Docs \X Nat
      BY <1>1 DEF Range
<1> QED BY <1>1, <1>2, AskedAssumption, TargetsAssumption

\* The stream stays in order where it is left alone.
LEMMA LinkSame ==
  ASSUME NEW c, NEW d, Linked(c), Awake(c),
         Same(c, d, {"network", "targets", "stream", "aggregator", "online", "failed", "timer",
           "requests"})
  PROVE  Linked(d) /\ Awake(d)
<1>1. /\ d.network = c.network /\ d.targets = c.targets /\ d.stream = c.stream
      /\ d.aggregator = c.aggregator /\ d.online = c.online /\ d.failed = c.failed
         /\ d.timer = c.timer
      /\ d.requests = c.requests
      BY DEF Same
<1> QED BY <1>1 DEF Linked, Awake

\* A lookup starts when a slot is free.
LEMMA LookUpNextEffect ==
  ASSUME NEW c, Ready(c), c.waiting # <<>>, Cardinality(DOMAIN c.active) < MaxLimbo
  PROVE  LET d == LookUpNext(c)
         IN  /\ Ready(d) /\ Moved(c, d) /\ Kept(c, d) /\ Lookups(d) = Lookups(c)
             /\ Len(d.waiting) = Len(c.waiting) - 1
<1> DEFINE x == Head(c.waiting)
           t == <<x, c.nextLimbo>>
           c1 == [c EXCEPT !.active = Put(@, x, t), !.waiting = Tail(@), !.nextLimbo = @ + 1]
           d == LookUpNext(c)
<1>1. c \in ClientType /\ c.waiting \in Seq(Docs) /\ c.active \in Partial(Docs, Docs \X Nat)
      /\ Len(c.waiting) \in Nat /\ DOMAIN c.waiting = 1 .. Len(c.waiting)
      BY LenProperties DEF Ready, ClientType, LookupType
<1>2. /\ x \in Docs /\ Tail(c.waiting) \in Seq(Docs) /\ Len(Tail(c.waiting)) = Len(c.waiting) - 1
      /\ \A i \in 1 .. Len(c.waiting) - 1 : Tail(c.waiting)[i] = c.waiting[i + 1]
      /\ Len(c.waiting) > 0 /\ x = c.waiting[1]
      BY <1>1, HeadTailProperties
<1>3. /\ x \in Range(c.waiting) /\ x \notin DOMAIN c.active
      BY <1>1, <1>2 DEF Range, Ready, Fits
<1>4. /\ NoRepeats(Tail(c.waiting)) /\ Range(c.waiting) = Range(Tail(c.waiting)) \union {x}
      /\ x \notin Range(Tail(c.waiting))
      <2>1. DOMAIN Tail(c.waiting) = 1 .. Len(c.waiting) - 1
            BY <1>2, LenProperties
      <2>2. NoRepeats(c.waiting)
            BY DEF Ready, Fits
      <2>3. NoRepeats(Tail(c.waiting))
            <3> SUFFICES ASSUME NEW i \in 1 .. Len(c.waiting) - 1,
                           NEW j \in 1 .. Len(c.waiting) - 1,
                                Tail(c.waiting)[i] = Tail(c.waiting)[j]
                         PROVE  i = j
                BY <2>1 DEF NoRepeats
            <3>1. c.waiting[i + 1] = c.waiting[j + 1]
                  BY <1>2
            <3>2. i \in Int /\ j \in Int /\ i + 1 \in DOMAIN c.waiting /\ j + 1 \in DOMAIN c.waiting
                  BY <1>1
            <3>3. i + 1 = j + 1
                  BY <2>2, <3>1, <3>2 DEF NoRepeats
            <3> QED BY <3>2, <3>3
      <2>4. \A i \in 1 .. Len(c.waiting) - 1 : Tail(c.waiting)[i] \in Range(c.waiting)
            /\ Tail(c.waiting)[i] # x
            BY <1>1, <1>2, <2>2 DEF NoRepeats, Range
      <2>5. \A i \in 1 .. Len(c.waiting) : i = 1 \/ c.waiting[i] \in Range(Tail(c.waiting))
            <3>1. ASSUME NEW i \in 1 .. Len(c.waiting), i # 1
                  PROVE  i - 1 \in 1 .. Len(c.waiting) - 1 /\ Tail(c.waiting)[i - 1] = c.waiting[i]
                  <4>1. i - 1 \in 1 .. Len(c.waiting) - 1 /\ i - 1 + 1 = i
                        BY <1>1, <3>1
                  <4> QED BY <1>2, <4>1
            <3> QED BY <2>1, <3>1 DEF Range
      <2>6. Range(c.waiting) \subseteq Range(Tail(c.waiting)) \union {x}
            BY <1>1, <1>2, <2>5 DEF Range
      <2>7. Range(Tail(c.waiting)) \subseteq Range(c.waiting) /\ x \notin Range(Tail(c.waiting))
            BY <2>1, <2>4 DEF Range
      <2> QED BY <1>3, <2>3, <2>6, <2>7
<1>5. t \in Docs \X Nat /\ t[1] = x /\ t \in Targets
      BY <1>1, <1>2 DEF ClientType, Targets
<1> HIDE DEF t, x
<1>6. /\ Put(c.active, x, t) \in LookupType
      /\ DOMAIN Put(c.active, x, t) = DOMAIN c.active \union {x}
      /\ Range(Put(c.active, x, t)) = Range(c.active) \union {t}
      /\ \A y \in DOMAIN c.active : Put(c.active, x, t)[y] = c.active[y]
      <2>1. Put(c.active, x, t) \in Partial(Docs, Docs \X Nat)
            BY <1>1, <1>2, <1>5, PartialPut
      <2>2. c.active \in LookupType
            BY <1>1 DEF ClientType
      <2> QED BY <1>3, <1>5, <2>1, <2>2 DEF Put, LookupType, Range
<1>7. /\ c1 \in ClientType /\ c1.active = Put(c.active, x, t) /\ c1.waiting = Tail(c.waiting)
      /\ Same(c, c1, Meta \union Link \union {"refs", "received", "cache", "saved", "network"})
      <2>1. c.nextLimbo + 1 \in Nat
            BY <1>1 DEF ClientType
      <2>2. c1 \in ClientType
            BY <1>1, <1>2, <1>6, <2>1 DEF ClientType
      <2>3. c1.active = Put(c.active, x, t) /\ c1.waiting = Tail(c.waiting)
            BY <1>1 DEF ClientType
      <2>4. Same(c, c1, Meta \union Link \union {"refs", "received", "cache", "saved", "network"})
            BY <1>1 DEF ClientType, Same, Meta, Link
      <2> QED BY <2>2, <2>3, <2>4
<1>8. d = RemoteListen(c1, t, {})
      BY DEF LookUpNext, t, x
<1> HIDE DEF c1
<1>9. Linked(c1) /\ Awake(c1)
      <2>1. Same(c, c1, {"network", "targets", "stream", "aggregator", "online", "failed",
              "timer", "requests"})
            BY <1>7 DEF Same, Meta, Link
      <2> QED BY <2>1, LinkSame DEF Ready
<1> HIDE DEF d
<1>10. /\ Aside(c1, d) /\ Linked(d) /\ Awake(d) /\ Talk(c1, d)
       /\ DOMAIN d.targets = DOMAIN c1.targets \union {t}
       /\ IsOpen(c1.stream) /\ t \notin DOMAIN c1.targets => Owed(d, t) > Owed(c1, t)
       <2>1. {} \in Tokens
             BY DEF Tokens
       <2> QED BY <1>5, <1>7, <1>8, <1>9, <2>1, RemoteListenEffect
<1>11. Moved(c1, d)
       BY <1>7, <1>10, AsideMoved
<1>12. Moved(c, c1)
       <2>1. Same(c, c1, {"events", "queries"}) /\ Same(c, c1, {"cache", "saved", "network"})
             /\ c1.views = c.views /\ c1.received = c.received /\ c1.targets = c.targets
             /\ c1.requests = c.requests /\ c1.aggregator = c.aggregator /\ c1.stream = c.stream
             /\ c1.queries = c.queries
             BY <1>7 DEF Same, Meta, Link
       <2>2. Quiet(c, c1) /\ Talk(c, c1)
             BY <1>1, <2>1, QuietSame, TalkSame
       <2>3. \A u : KeysOf(c1, u) = KeysOf(c, u)
             BY <1>6, <1>7, <2>1 DEF KeysOf, Ready, Fits
       <2> QED BY <2>1, <2>2, <2>3 DEF Moved, Steady
<1>13. d \in ClientType
       BY <1>10 DEF Aside
<1>14. Fits(d)
       <2>1. /\ d.active = c1.active /\ d.waiting = c1.waiting /\ d.received = c.received
             /\ DOMAIN d.views = DOMAIN c.views /\ c1.targets = c.targets
             BY <1>7, <1>10 DEF Aside, Same, Fixed, SameViews, Meta, Link
       <2>2. Cardinality(DOMAIN c.active \union {x}) = Cardinality(DOMAIN c.active) + 1
             /\ Cardinality(DOMAIN c.active) \in Nat
             <3>1. IsFiniteSet(DOMAIN c.active)
                   BY <1>1, PartialOut
             <3> QED BY <1>3, <3>1, FS_AddElement, FS_CardinalityType
       <2> QED BY <1>3, <1>4, <1>6, <1>7, <1>10, <2>1, <2>2, LimboAssumption DEF Fits, Ready
<1>15. Kept(c, d)
       BY <1>7, <1>10 DEF Aside, Same, Fixed, Meta, SameViews, Kept
<1>16. d.active = c1.active /\ d.waiting = c1.waiting
       BY <1>10 DEF Aside, Same, Fixed
<1>17. Lookups(d) = Lookups(c) /\ Len(d.waiting) = Len(c.waiting) - 1
       BY <1>2, <1>4, <1>6, <1>7, <1>16 DEF Lookups
<1>18. Ready(d) /\ Moved(c, d)
       BY <1>1, <1>7, <1>10, <1>11, <1>12, <1>13, <1>14, MovedTrans DEF Ready
<1> QED BY <1>15, <1>17, <1>18 DEF d

\* SyncEngine::PumpEnqueuedLimboResolutions fills the slots.
LEMMA PumpEffect ==
  ASSUME NEW c, Ready(c)
  PROVE  LET d == Pump(c)
         IN  /\ Ready(d) /\ Moved(c, d) /\ Kept(c, d) /\ Lookups(d) = Lookups(c)
             /\ Busy(d)
<1> DEFINE T == {e \in ClientType : /\ Ready(e) /\ Moved(c, e) /\ Kept(c, e)
                                    /\ Lookups(e) = Lookups(c)}
           S == DOMAIN c.waiting
           Q == [D \in SUBSET S |->
                   {e \in T : Busy(e) \/ Len(e.waiting) + Cardinality(D) <= Len(c.waiting)}]
<1>1. c \in T
      BY MovedSelf DEF Ready, Kept, SameViews
<1>2. ASSUME NEW e \in T PROVE PumpOne(e) \in T
      <2>1. Ready(e) /\ Moved(c, e) /\ Kept(c, e) /\ Lookups(e) = Lookups(c) /\ c \in ClientType
            BY DEF Ready
      <2>2. CASE e.waiting # <<>> /\ Cardinality(DOMAIN e.active) < MaxLimbo
            <3> DEFINE d == LookUpNext(e)
            <3>1. Ready(d) /\ Moved(e, d) /\ Kept(e, d) /\ Lookups(d) = Lookups(e)
                  BY <2>1, <2>2, LookUpNextEffect
            <3> HIDE DEF d
            <3>2. Moved(c, d)
                  BY <2>1, <3>1, MovedTrans DEF Ready
            <3>3. Kept(c, d) /\ Lookups(d) = Lookups(c)
                  BY <2>1, <3>1 DEF Kept, SameViews
            <3> QED BY <2>2, <3>1, <3>2, <3>3 DEF PumpOne, d, Ready
      <2> QED BY <2>2 DEF PumpOne
<1>3. IsFiniteSet(S) /\ Cardinality(S) = Len(c.waiting) /\ Len(c.waiting) \in Nat
      <2>1. S = 1 .. Len(c.waiting) /\ Len(c.waiting) \in Nat
            BY LenProperties DEF Ready, ClientType
      <2>2. IsFiniteSet(1 .. Len(c.waiting)) /\ Cardinality(1 .. Len(c.waiting)) = Len(c.waiting)
            BY <2>1, FS_Interval
      <2> HIDE DEF S
      <2> QED BY <2>1, <2>2
<1>4. ASSUME NEW D \in SUBSET S, NEW y \in S \ D, NEW e \in T, e \in Q[D]
      PROVE  PumpOne(e) \in Q[D \union {y}]
      <2>1. PumpOne(e) \in T /\ D \union {y} \in SUBSET S
            BY <1>2
      <2>2. Busy(e) \/ Len(e.waiting) + Cardinality(D) <= Len(c.waiting)
            BY <1>4
      <2>3. Ready(e) /\ Cardinality(DOMAIN e.active) <= MaxLimbo
            BY DEF Ready, Fits
      <2>4. e.waiting \in Seq(Docs) /\ Len(e.waiting) \in Nat /\ Cardinality(DOMAIN e.active) \in Nat
            <3>1. e.waiting \in Seq(Docs) /\ IsFiniteSet(DOMAIN e.active)
                  BY <2>3, PartialOut DEF Ready, ClientType, LookupType
            <3> QED BY <3>1, LenProperties, FS_CardinalityType
      <2>5. Cardinality(D) \in Nat /\ Cardinality(D \union {y}) = Cardinality(D) + 1
            BY <1>3, FS_Subset, FS_AddElement, FS_CardinalityType
      <2>6. CASE e.waiting # <<>> /\ Cardinality(DOMAIN e.active) < MaxLimbo
            <3>1. ~Busy(e)
                  BY <2>4, <2>6, LimboAssumption DEF Busy
            <3>2. Len(PumpOne(e).waiting) = Len(e.waiting) - 1
                  BY <2>3, <2>6, LookUpNextEffect DEF PumpOne
            <3>3. Len(PumpOne(e).waiting) + Cardinality(D \union {y}) <= Len(c.waiting)
                  BY <1>3, <2>2, <2>4, <2>5, <3>1, <3>2
            <3> HIDE DEF T, S
            <3> QED BY <2>1, <3>3
      <2>7. CASE ~(e.waiting # <<>> /\ Cardinality(DOMAIN e.active) < MaxLimbo)
            <3>1. PumpOne(e) = e
                  BY <2>7 DEF PumpOne
            <3>2. Busy(e)
                  BY <2>3, <2>4, <2>7, LimboAssumption DEF Busy
            <3> HIDE DEF T, S
            <3> QED BY <2>1, <3>1, <3>2
      <2> QED BY <2>6, <2>7
<1>5. c \in Q[{}]
      <2>1. Cardinality({}) = 0 /\ {} \in SUBSET S
            BY FS_EmptySet
      <2> HIDE DEF T, S
      <2> QED BY <1>1, <1>3, <2>1
<1> HIDE DEF T, Q, S
<1>6. Pump(c) \in T /\ Pump(c) \in Q[S]
      BY <1>1, <1>2, <1>3, <1>4, <1>5, PumpStays DEF S
<1>7. Ready(Pump(c)) /\ Pump(c).waiting \in Seq(Docs)
      BY <1>6 DEF T, Ready, ClientType
<1>8. Busy(Pump(c)) \/ Len(Pump(c).waiting) + Cardinality(S) <= Len(c.waiting)
      <2>1. S \in SUBSET S
            OBVIOUS
      <2> QED BY <1>6, <2>1 DEF Q
<1>9. Busy(Pump(c))
      <2>1. CASE Len(Pump(c).waiting) + Cardinality(S) <= Len(c.waiting)
            <3>1. Len(Pump(c).waiting) \in Nat
                  BY <1>7, EmptyQueue
            <3>2. Len(Pump(c).waiting) = 0
                  <4>1. \A m, n \in Nat : m + n <= n => m = 0
                        OBVIOUS
                  <4> QED BY <1>3, <2>1, <3>1, <4>1, Zenon
            <3>3. Pump(c).waiting = <<>>
                  BY <1>7, <3>2, EmptyQueue
            <3> QED BY <3>3 DEF Busy
      <2> QED BY <1>8, <2>1
<1> QED BY <1>6, <1>9 DEF T

-----------------------------------------------------------------------------
(* The end of a lookup, and the limbo documents of a view.                 *)

\* One lookup fewer.
LEMMA RestrictLookups ==
  ASSUME NEW c \in ClientType, NEW x \in DOMAIN c.active
  PROVE  LET f == Restrict(c.active, DOMAIN c.active \ {x})
         IN  /\ f \in LookupType /\ DOMAIN f = DOMAIN c.active \ {x}
             /\ \A y \in DOMAIN f : f[y] = c.active[y] /\ f[y] # c.active[x]
             /\ Range(f) = Range(c.active) \ {c.active[x]}
             /\ Cardinality(DOMAIN f) <= Cardinality(DOMAIN c.active)
             /\ Cardinality(DOMAIN f) \in Nat /\ Cardinality(DOMAIN c.active) \in Nat
<1> DEFINE f == Restrict(c.active, DOMAIN c.active \ {x})
<1>1. c.active \in Partial(Docs, Docs \X Nat) /\ \A y \in DOMAIN c.active : c.active[y][1] = y
      BY DEF ClientType, LookupType
<1>2. f \in Partial(Docs, Docs \X Nat)
      BY <1>1, PartialRestrict
<1>3. DOMAIN f = DOMAIN c.active \ {x} /\ \A y \in DOMAIN f : f[y] = c.active[y]
      BY DEF Restrict
<1>4. IsFiniteSet(DOMAIN c.active)
      BY <1>1, PartialOut
<1>5. /\ Cardinality(DOMAIN c.active \ {x}) <= Cardinality(DOMAIN c.active)
      /\ Cardinality(DOMAIN c.active \ {x}) \in Nat /\ Cardinality(DOMAIN c.active) \in Nat
      <2>1. IsFiniteSet(DOMAIN c.active \ {x})
            BY <1>4, FS_Subset
      <2> QED BY <1>4, <2>1, FS_Subset, FS_CardinalityType
<1> HIDE DEF f
<1>6. f \in LookupType
      BY <1>1, <1>2, <1>3 DEF LookupType
<1>7. \A y \in DOMAIN f : f[y] # c.active[x]
      BY <1>1, <1>3
<1>8. Range(f) = Range(c.active) \ {c.active[x]}
      BY <1>3, <1>7 DEF Range
<1> QED BY <1>3, <1>5, <1>6, <1>7, <1>8 DEF f

\* SyncEngine::RemoveLimboTarget frees a slot and takes the next document, if the
\* document was looked up or waited at all.
LEMMA RemoveLimboTargetEffect ==
  ASSUME NEW c, Ready(c), NEW x
  PROVE  LET d == RemoveLimboTarget(c, x)
         IN  /\ Ready(d) /\ Moved(c, d) /\ Kept(c, d) /\ Lookups(d) = Lookups(c) \ {x}
             /\ Busy(c) => Busy(d)
<1> DEFINE off == Dequeued(c, x)
           t == off.active[x]
           stopped == RemoteStopListening(off, t)
           rest == [stopped EXCEPT !.active = Restrict(@, DOMAIN @ \ {x}), !.received = @ \ {x}]
<1>1. /\ off \in ClientType /\ Range(off.waiting) = Range(c.waiting) \ {x} /\ NoRepeats(off.waiting)
      /\ Same(c, off, (Fixed \ {"waiting"}) \union Meta \union Link) /\ c \in ClientType
      BY DequeuedEffect DEF Ready, Fits
<1>2. RemoveLimboTarget(c, x) = IF x \notin DOMAIN off.active THEN off ELSE Pump(rest)
      <2>1. off.active = c.active
            BY <1>1 DEF Same, Fixed
      <2> QED BY <2>1 DEF RemoveLimboTarget
<1> HIDE DEF off
<1>3. /\ off.views = c.views /\ off.active = c.active /\ off.received = c.received
      /\ off.targets = c.targets /\ off.requests = c.requests /\ off.aggregator = c.aggregator
      /\ off.stream = c.stream /\ off.queries = c.queries
      BY <1>1 DEF Same, Fixed, Meta, Link
<1>4. Ready(off)
      <2>1. Linked(off) /\ Awake(off)
            <3>1. Same(c, off, {"network", "targets", "stream", "aggregator", "online",
                                "failed", "timer", "requests"})
                  BY <1>1 DEF Same, Fixed, Meta, Link
            <3> QED BY <3>1, LinkSame DEF Ready
      <2> QED BY <1>1, <1>3, <2>1 DEF Ready, Fits
<1>5. Moved(c, off)
      <2>1. Same(c, off, {"events", "queries"}) /\ Same(c, off, {"cache", "saved", "network"})
            BY <1>1 DEF Same, Fixed, Meta
      <2>2. Quiet(c, off) /\ Talk(c, off)
            BY <1>1, <1>3, <2>1, QuietSame, TalkSame
      <2>3. \A u : KeysOf(off, u) = KeysOf(c, u)
            BY <1>3 DEF KeysOf
      <2> QED BY <1>3, <2>1, <2>2, <2>3 DEF Moved, Steady
<1>7. Kept(c, off)
      BY <1>1, <1>3 DEF Kept, SameViews, Same, Fixed
<1>8. CASE x \notin DOMAIN off.active
      <2>1. Lookups(off) = Lookups(c) \ {x}
            BY <1>1, <1>3, <1>8 DEF Lookups
      <2>2. c.waiting \in Seq(Docs) /\ off.waiting \in Seq(Docs)
            BY <1>1 DEF ClientType
      <2>3. Busy(c) => Busy(off)
            BY <1>1, <1>3, <2>2, EmptyQueue DEF Busy
      <2> QED BY <1>2, <1>4, <1>5, <1>7, <1>8, <2>1, <2>3
<1>6. CASE x \in DOMAIN off.active
      <2>1. t \in DOMAIN off.targets /\ t \in Docs \X Nat
            <3>1. t \in Range(off.active)
                  BY <1>6 DEF Range
            <3>2. t \in Docs \X Nat
                  BY <1>1, <1>6, PartialOut DEF ClientType, LookupType
            <3> QED BY <1>4, <3>1, <3>2 DEF Ready, Fits
      <2>2. t \notin DOMAIN off.views
            BY <1>1, <1>6, QueriesAreNoLookups DEF Range
      <2>3. PICK u : u = t
            OBVIOUS
      <2>4. /\ Aside(off, stopped) /\ Linked(stopped) /\ Awake(stopped) /\ Talk(off, stopped)
            /\ DOMAIN stopped.targets = DOMAIN off.targets \ {u}
            BY <1>4, <2>1, <2>3, RemoteStopListeningEffect DEF Ready
      <2> HIDE DEF stopped
      <2>5. /\ stopped \in ClientType /\ stopped.active = off.active
               /\ stopped.received = off.received
            /\ stopped.waiting = off.waiting /\ DOMAIN stopped.views = DOMAIN off.views
            BY <2>4 DEF Aside, Same, Fixed, SameViews
      <2> DEFINE f == Restrict(off.active, DOMAIN off.active \ {x})
      <2>6. /\ f \in LookupType /\ DOMAIN f = DOMAIN off.active \ {x}
            /\ \A y \in DOMAIN f : f[y] = off.active[y] /\ f[y] # u
            /\ Range(f) = Range(off.active) \ {u}
            /\ Cardinality(DOMAIN f) <= Cardinality(DOMAIN off.active)
            /\ Cardinality(DOMAIN f) \in Nat /\ Cardinality(DOMAIN off.active) \in Nat
            BY <1>1, <1>6, <2>3, RestrictLookups
      <2>7. rest = [stopped EXCEPT !.active = f, !.received = @ \ {x}]
            BY <2>5
      <2> HIDE DEF f
      <2>8. /\ rest \in ClientType /\ rest.active = f /\ rest.received = off.received \ {x}
            /\ rest.waiting = off.waiting
            /\ Same(stopped, rest, Meta \union Link \union {"refs", "cache", "saved", "network"})
            <3>1. rest \in ClientType
                  BY <2>5, <2>6, <2>7 DEF ClientType
            <3>2. rest.active = f /\ rest.received = off.received \ {x}
                  /\ rest.waiting = off.waiting
                  BY <2>5, <2>7 DEF ClientType
            <3>3. Same(stopped, rest, Meta \union Link \union {"refs", "cache", "saved", "network"})
                  BY <2>5, <2>7 DEF ClientType, Same, Meta, Link
            <3> QED BY <3>1, <3>2, <3>3
      <2> HIDE DEF rest
      <2>9. /\ rest.targets = stopped.targets /\ rest.views = stopped.views
            /\ rest.requests = stopped.requests /\ rest.aggregator = stopped.aggregator
            /\ rest.stream = stopped.stream /\ rest.queries = stopped.queries
            /\ rest.events = stopped.events
            BY <2>8 DEF Same, Meta, Link
      <2>10. Linked(rest) /\ Awake(rest)
             <3>1. Same(stopped, rest, {"network", "targets", "stream", "aggregator", "online",
                                         "failed", "timer", "requests"})
                   BY <2>8 DEF Same, Meta, Link
             <3> QED BY <2>4, <3>1, LinkSame
      <2>11. Fits(rest)
             BY <1>4, <2>2, <2>3, <2>4, <2>5, <2>6, <2>8, <2>9, LimboAssumption DEF Ready, Fits
      <2>12. Moved(off, stopped)
             BY <1>1, <2>4, AsideMoved
      <2>13. Moved(stopped, rest)
             <3>1. Quiet(stopped, rest) /\ Talk(stopped, rest)
                   <4>1. Same(stopped, rest, {"events", "queries"})
                         BY <2>9 DEF Same
                   <4> QED BY <2>5, <2>9, <4>1, QuietSame, TalkSame
             <3>2. Same(stopped, rest, {"cache", "saved", "network"})
                   BY <2>8 DEF Same
             <3>3. ASSUME NEW v \in DOMAIN rest.targets
                   PROVE  KeysOf(rest, v) = KeysOf(stopped, v)
                   <4>1. v # u
                         BY <2>4, <2>9, <3>3
                   <4>2. off.received \subseteq DOMAIN off.active /\ off.active[x] = u
                         BY <1>4, <2>3 DEF Ready, Fits
                   <4>3. ASSUME NEW y
                         PROVE  (y \in rest.received /\ rest.active[y] = v)
                                  <=> (y \in stopped.received /\ stopped.active[y] = v)
                         BY <2>5, <2>6, <2>8, <4>1, <4>2
                   <4> QED BY <2>9, <4>3 DEF KeysOf
             <3> QED BY <2>9, <3>1, <3>2, <3>3 DEF Moved, Steady
      <2>14. /\ Ready(Pump(rest)) /\ Moved(rest, Pump(rest)) /\ Kept(rest, Pump(rest))
             /\ Lookups(Pump(rest)) = Lookups(rest) /\ Busy(Pump(rest))
             BY <2>8, <2>10, <2>11, PumpEffect DEF Ready
      <2>15. Moved(off, rest) /\ Moved(off, Pump(rest))
             BY <1>1, <2>5, <2>8, <2>12, <2>13, <2>14, MovedTrans DEF Ready
      <2>16. Moved(c, Pump(rest))
             BY <1>1, <1>5, <2>14, <2>15, MovedTrans DEF Ready
      <2>17. Kept(c, Pump(rest))
             BY <1>7, <2>4, <2>8, <2>9, <2>14 DEF Kept, SameViews, Aside, Same, Fixed
      <2>18. Lookups(Pump(rest)) = Lookups(c) \ {x}
             BY <1>1, <1>3, <2>6, <2>8, <2>14 DEF Lookups
      <2> QED BY <1>2, <1>6, <2>14, <2>16, <2>17, <2>18
<1> QED BY <1>6, <1>8

\* A step that leaves the stream, the targets and the views alone.
LEMMA SideStep ==
  ASSUME NEW c, Ready(c), NEW d \in ClientType, Fits(d),
         Same(c, d, Meta \union Link \union {"active", "received", "cache", "saved", "network"})
  PROVE  Ready(d) /\ Moved(c, d)
<1>1. /\ Same(c, d, {"events", "queries"}) /\ Same(c, d, {"cache", "saved", "network"})
      /\ Same(c, d, {"network", "targets", "stream", "aggregator", "online", "failed", "timer",
           "requests"})
      /\ c \in ClientType
      BY DEF Same, Meta, Link, Ready
<1>2. /\ d.views = c.views /\ d.active = c.active /\ d.received = c.received
         /\ d.targets = c.targets
      /\ d.requests = c.requests /\ d.aggregator = c.aggregator /\ d.stream = c.stream
      /\ d.queries = c.queries
      BY DEF Same, Meta, Link
<1>3. Quiet(c, d) /\ Talk(c, d)
      BY <1>1, <1>2, QuietSame, TalkSame
<1>4. \A u : KeysOf(d, u) = KeysOf(c, u)
      BY <1>2 DEF KeysOf
<1>5. Linked(d) /\ Awake(d)
      BY <1>1, LinkSame DEF Ready
<1> QED BY <1>1, <1>2, <1>3, <1>4, <1>5 DEF Moved, Steady, Ready

\* The limbo references change alone.
LEMMA RefsEffect ==
  ASSUME NEW c, Ready(c), NEW refs \in SUBSET (Docs \X Asked)
  PROVE  LET d == [c EXCEPT !.refs = refs]
         IN  /\ Ready(d) /\ Moved(c, d) /\ SameViews(c, d) /\ d.refs = refs
             /\ Lookups(d) = Lookups(c) /\ (Busy(c) => Busy(d))
<1> DEFINE d == [c EXCEPT !.refs = refs]
<1>1. c \in ClientType
      BY DEF Ready
<1>2. d \in ClientType
      BY <1>1 DEF ClientType
<1>3. Same(c, d, Meta \union Link \union {"active", "received", "cache", "saved", "network",
        "waiting"})
      BY <1>1 DEF ClientType, Same, Meta, Link
<1>7. d.refs = refs
      BY <1>1 DEF ClientType
<1> HIDE DEF d
<1>4. Fits(d)
      BY <1>3 DEF Same, Meta, Link, Ready, Fits
<1>5. Same(c, d, Meta \union Link \union {"active", "received", "cache", "saved", "network"})
      BY <1>3 DEF Same
<1>6. Ready(d) /\ Moved(c, d)
      BY <1>2, <1>4, <1>5, SideStep
<1>8. d.views = c.views /\ d.active = c.active /\ d.waiting = c.waiting
      BY <1>3 DEF Same, Meta
<1>9. SameViews(c, d) /\ Lookups(d) = Lookups(c) /\ (Busy(c) => Busy(d))
      BY <1>8 DEF SameViews, Lookups, Busy
<1> QED BY <1>6, <1>7, <1>9 DEF d

\* A reference is dropped, and the lookup with the last of them.
LEMMA DereferencedEffect ==
  ASSUME NEW c, Ready(c), NEW x, NEW q
  PROVE  LET d == Dereferenced(c, x, q)
         IN  /\ Ready(d) /\ Moved(c, d) /\ SameViews(c, d) /\ d.refs = c.refs \ {<<x, q>>}
             /\ Chased(c) => Chased(d)
<1> DEFINE less == [c EXCEPT !.refs = @ \ {<<x, q>>}]
           refs == c.refs \ {<<x, q>>}
<1>1. c \in ClientType /\ refs \in SUBSET (Docs \X Asked)
      BY DEF Ready, ClientType
<1>2. less = [c EXCEPT !.refs = refs]
      OBVIOUS
<1> HIDE DEF refs, less
<1>3. /\ Ready(less) /\ Moved(c, less) /\ SameViews(c, less) /\ less.refs = refs
      /\ Lookups(less) = Lookups(c) /\ (Busy(c) => Busy(less))
      BY <1>1, <1>2, RefsEffect
<1>4. PICK d : d = Dereferenced(c, x, q)
      OBVIOUS
<1>5. d = IF Unreferenced(less, x) THEN RemoveLimboTarget(less, x) ELSE less
      BY <1>4 DEF Dereferenced, less
<1>6. \A y : y # x => (y \in Wanted(less) <=> y \in Wanted(c))
      BY <1>3 DEF Wanted, refs
<1>7. CASE Unreferenced(less, x)
      <2>1. /\ Ready(d) /\ Moved(less, d) /\ Kept(less, d) /\ Lookups(d) = Lookups(less) \ {x}
            /\ Busy(less) => Busy(d)
            BY <1>3, <1>5, <1>7, RemoveLimboTargetEffect
      <2>2. Moved(c, d)
            BY <1>1, <1>3, <2>1, MovedTrans DEF Ready
      <2>3. SameViews(c, d) /\ d.refs = refs
            BY <1>3, <2>1 DEF Kept, SameViews
      <2>4. x \notin Wanted(d) /\ Wanted(d) = Wanted(less)
            BY <1>7, <2>1 DEF Kept, Unreferenced, Wanted
      <2>5. Chased(c) => Chased(d)
            BY <1>3, <1>6, <2>1, <2>4 DEF Chased
      <2> QED BY <1>4, <2>1, <2>2, <2>3, <2>5 DEF refs
<1>8. CASE ~Unreferenced(less, x)
      <2>1. x \in Wanted(less) /\ Wanted(less) \subseteq Wanted(c)
            BY <1>3, <1>8 DEF Unreferenced, Wanted, refs
      <2>2. Wanted(less) = Wanted(c)
            BY <1>6, <2>1
      <2>3. Chased(c) => Chased(less)
            BY <1>3, <2>2 DEF Chased
      <2> QED BY <1>3, <1>4, <1>5, <1>8, <2>3 DEF refs
<1> QED BY <1>7, <1>8

\* A document comes into limbo: it is looked up, or waits.
LEMMA TrackLimboChangeEffect ==
  ASSUME NEW c, Ready(c), NEW x \in Docs, NEW q \in Asked
  PROVE  LET d == TrackLimboChange(c, x, q)
         IN  /\ Ready(d) /\ Moved(c, d) /\ SameViews(c, d) /\ d.refs = c.refs \union {<<x, q>>}
             /\ Chased(c) => Chased(d)
<1> DEFINE more == [c EXCEPT !.refs = @ \union {<<x, q>>}]
           refs == c.refs \union {<<x, q>>}
           queued == [more EXCEPT !.waiting = Append(@, x)]
<1>1. c \in ClientType /\ refs \in SUBSET (Docs \X Asked)
      BY DEF Ready, ClientType
<1>2. more = [c EXCEPT !.refs = refs]
      OBVIOUS
<1>3. /\ more.active = c.active /\ more.waiting = c.waiting
      BY <1>1 DEF ClientType
<1> HIDE DEF refs, more
<1>4. /\ Ready(more) /\ Moved(c, more) /\ more \in ClientType /\ SameViews(c, more)
      /\ more.refs = refs /\ Lookups(more) = Lookups(c) /\ (Busy(c) => Busy(more))
      BY <1>1, <1>2, RefsEffect DEF Ready
<1>7. Wanted(more) = Wanted(c) \union {x}
      <2>1. <<x, q>>[1] = x /\ \A ref : ref \in more.refs <=> ref \in c.refs \/ ref = <<x, q>>
            BY <1>4 DEF refs
      <2>2. Wanted(more) \subseteq Wanted(c) \union {x}
            BY <2>1 DEF Wanted
      <2>3. Wanted(c) \subseteq Wanted(more) /\ x \in Wanted(more)
            BY <2>1 DEF Wanted
      <2> QED BY <2>2, <2>3
<1>5. CASE x \in DOMAIN c.active \/ x \in Range(c.waiting)
      <2>1. x \in Lookups(more)
            BY <1>4, <1>5 DEF Lookups
      <2>2. Chased(c) => Chased(more)
            <3>1. Chased(c) => Lookups(c) \subseteq Wanted(c) /\ x \in Wanted(c)
                  BY <1>4, <2>1 DEF Chased
            <3> QED BY <1>4, <1>7, <2>1, <3>1 DEF Chased
      <2>3. TrackLimboChange(c, x, q) = more
            BY <1>5 DEF TrackLimboChange, more
      <2> QED BY <1>4, <2>2, <2>3 DEF refs
<1>6. CASE ~(x \in DOMAIN c.active \/ x \in Range(c.waiting))
      <2> DEFINE w == Append(more.waiting, x)
      <2>0. more.waiting \in Seq(Docs)
            BY <1>4 DEF ClientType
      <2>1. /\ w \in Seq(Docs) /\ Len(w) = Len(more.waiting) + 1 /\ Len(more.waiting) \in Nat
            /\ \A i \in 1 .. Len(more.waiting) : w[i] = more.waiting[i]
            /\ w[Len(more.waiting) + 1] = x
            BY <2>0, AppendProperties, LenProperties
      <2>2. DOMAIN w = 1 .. Len(more.waiting) + 1 /\ DOMAIN more.waiting = 1 .. Len(more.waiting)
            BY <2>0, <2>1, LenProperties
      <2> HIDE DEF w
      <2>3. Range(w) = Range(more.waiting) \union {x}
            <3>1. \A i \in 1 .. Len(more.waiting) : w[i] \in Range(more.waiting)
                  BY <2>1, <2>2 DEF Range
            <3>2. \A i \in 1 .. Len(more.waiting) : more.waiting[i] \in Range(w)
                  BY <2>1, <2>2 DEF Range
            <3>3. x \in Range(w)
                  BY <2>1, <2>2 DEF Range
            <3>4. Range(w) \subseteq Range(more.waiting) \union {x}
                  BY <2>1, <2>2, <3>1 DEF Range
            <3>5. Range(more.waiting) \subseteq Range(w)
                  BY <2>2, <3>2 DEF Range
            <3> QED BY <3>3, <3>4, <3>5
      <2>4. NoRepeats(w)
            <3>1. NoRepeats(more.waiting) /\ x \notin Range(more.waiting)
                  BY <1>3, <1>4, <1>6 DEF Ready, Fits
            <3>2. \A i \in 1 .. Len(more.waiting) : w[i] # x
                  BY <2>1, <2>2, <3>1 DEF Range
            <3> QED BY <2>1, <2>2, <3>1, <3>2 DEF NoRepeats
      <2>5. queued = [more EXCEPT !.waiting = w]
            BY DEF w
      <2>6. /\ queued \in ClientType /\ queued.waiting = w
            /\ Same(more, queued, Meta \union Link \union {"active", "received", "cache", "saved",
                 "network", "refs"})
            BY <1>4, <2>1, <2>5 DEF ClientType, Same, Meta, Link
      <2> HIDE DEF queued
      <2>7. Fits(queued)
            <3>1. /\ queued.targets = more.targets /\ queued.views = more.views
                  /\ queued.active = more.active /\ queued.received = more.received
                  BY <2>6 DEF Same, Meta, Link
            <3> QED BY <1>3, <1>4, <1>6, <2>3, <2>4, <2>6, <3>1 DEF Ready, Fits
      <2>8. Ready(queued) /\ Moved(more, queued)
            <3>1. Same(more, queued, Meta \union Link \union {"active", "received", "cache", "saved",
                         "network"})
                  BY <2>6 DEF Same
            <3> QED BY <1>4, <2>6, <2>7, <3>1, SideStep
      <2>9. /\ Ready(Pump(queued)) /\ Moved(queued, Pump(queued)) /\ Kept(queued, Pump(queued))
            /\ Lookups(Pump(queued)) = Lookups(queued) /\ Busy(Pump(queued))
            BY <2>8, PumpEffect
      <2>10. Moved(c, queued)
             BY <1>1, <1>4, <2>8, MovedTrans DEF Ready
      <2>11. Moved(c, Pump(queued))
             BY <1>1, <2>8, <2>9, <2>10, MovedTrans DEF Ready
      <2>12. TrackLimboChange(c, x, q) = Pump(queued)
             BY <1>6 DEF TrackLimboChange, queued, more
      <2>13. queued.refs = more.refs /\ queued.views = more.views /\ queued.active = more.active
             BY <2>6 DEF Same, Meta
      <2>14. SameViews(c, Pump(queued)) /\ Pump(queued).refs = refs
             BY <1>4, <2>9, <2>13 DEF Kept, SameViews
      <2>15. Lookups(Pump(queued)) = Lookups(c) \union {x}
             BY <1>4, <2>3, <2>6, <2>9, <2>13 DEF Lookups
      <2>16. Wanted(Pump(queued)) = Wanted(c) \union {x}
             BY <1>4, <1>7, <2>14 DEF Wanted
      <2>17. Chased(c) => Chased(Pump(queued))
             BY <2>9, <2>15, <2>16 DEF Chased
      <2> QED BY <2>9, <2>11, <2>12, <2>14, <2>17 DEF refs
<1> QED BY <1>5, <1>6

\* The loops over limbo documents: references are dropped, documents tracked, lookups
\* given up.
DroppedAll(c, q, S) == ForEach(LAMBDA x, d : Dereferenced(x, d, q), c, S)
TrackedAll(c, q, S) == ForEach(LAMBDA x, d : TrackLimboChange(x, d, q), c, S)
FreedAll(c, S) ==
  ForEach(LAMBDA x, d : IF Unreferenced(x, d) THEN RemoveLimboTarget(x, d) ELSE x, c, S)

\* What holds of a loop that drops references, one of them later.
Drops(q, P, T, c, S) ==
  /\ c \in T /\ IsFiniteSet(S) /\ c \in P[{}]
  /\ \A e \in T, y \in S : Dereferenced(e, y, q) \in T
  /\ \A D \in SUBSET S : \A y \in S \ D, e \in T :
       e \in P[D] => Dereferenced(e, y, q) \in P[D \union {y}]

\* What every reference dropped keeps, the loop over them keeps.
LEMMA DereferencedStays ==
  ASSUME NEW q, NEW P, NEW T, NEW c, NEW S, Drops(q, P, T, c, S)
  PROVE  DroppedAll(c, q, S) \in P[S]
<1> DEFINE order == SetToSeq(S)
           n == Len(order)
           Is(f) == f = [i \in 0 .. n |-> IF i = 0 THEN c ELSE Dereferenced(f[i - 1], order[i], q)]
           step == [x \in T |-> [y \in S |-> Dereferenced(x, y, q)]]
<1>0. c \in T /\ IsFiniteSet(S) /\ c \in P[{}] /\ \A x \in T, y \in S : Dereferenced(x, y, q) \in T
      BY DEF Drops
<1>1. n \in Nat /\ order \in [1 .. n -> S] /\ step \in Steps(T, S)
      BY <1>0, Listed DEF Steps
<1>2. PICK f : f \in [0 .. n -> T] /\ Run(f, step, c, order, n)
      <2> HIDE DEF order, n, step
      <2> QED BY <1>0, <1>1, RunExists
<1>3. Is(f)
      <2> HIDE DEF order, n
      <2>1. ASSUME NEW i \in 0 .. n
            PROVE  f[i] = IF i = 0 THEN c ELSE Dereferenced(f[i - 1], order[i], q)
            <3>1. CASE i = 0
                  BY <1>2, <3>1 DEF Run
            <3>2. CASE i # 0
                  <4>1. i \in 1 .. n /\ i - 1 \in 0 .. n
                        BY <1>1, <3>2
                  <4>2. f[i - 1] \in T /\ order[i] \in S /\ f[i] = step[f[i - 1]][order[i]]
                        BY <1>1, <1>2, <4>1 DEF Run
                  <4> QED BY <3>2, <4>2
            <3> QED BY <3>1, <3>2
      <2> QED BY <1>2, <2>1
<1>4. PICK g : g = (CHOOSE h : Is(h))
      OBVIOUS
<1>5. Is(g)
      <2> HIDE DEF Is
      <2> QED BY <1>3, <1>4
<1>6. DroppedAll(c, q, S) = g[n]
      BY <1>4 DEF ForEach, DroppedAll
<1>7. Along(g, n) /\ g[0] = c
      BY <1>1, <1>5 DEF Along
<1>8. ASSUME NEW i \in 1 .. n, g[i - 1] \in T PROVE g[i] = step[g[i - 1]][order[i]]
      <2>1. i \in 0 .. n /\ i # 0
            BY <1>1
      <2>2. g[i] = Dereferenced(g[i - 1], order[i], q)
            BY <1>5, <2>1
      <2>3. order[i] \in S
            <3> HIDE DEF order, n
            <3> QED BY <1>1
      <2> QED BY <1>8, <2>2, <2>3
<1>9. g \in [0 .. n -> T] /\ Run(g, step, c, order, n)
      <2> HIDE DEF Is, step, n, order
      <2>1. c \in T
            BY <1>0
      <2> QED BY <1>1, <1>7, <1>8, <2>1, RunWithin
<1>10. g[n] \in P[S]
       <2>1. Leads(P, T, S, step)
             BY DEF Leads, Drops
       <2> HIDE DEF step
       <2> QED BY <1>0, <1>1, <1>9, <2>1, RunEnds
<1> HIDE DEF n, order, Is, step
<1> QED BY <1>6, <1>10

\* The same of a loop that tracks documents.
Adds(q, P, T, c, S) ==
  /\ c \in T /\ IsFiniteSet(S) /\ c \in P[{}]
  /\ \A e \in T, y \in S : TrackLimboChange(e, y, q) \in T
  /\ \A D \in SUBSET S : \A y \in S \ D, e \in T :
       e \in P[D] => TrackLimboChange(e, y, q) \in P[D \union {y}]

\* What every document tracked keeps, the loop over them keeps.
LEMMA TrackedStays ==
  ASSUME NEW q, NEW P, NEW T, NEW c, NEW S, Adds(q, P, T, c, S)
  PROVE  TrackedAll(c, q, S) \in P[S]
<1> DEFINE order == SetToSeq(S)
           n == Len(order)
           Is(f) == f = [i \in 0 .. n |-> IF i = 0 THEN c
             ELSE TrackLimboChange(f[i - 1], order[i], q)]
           step == [x \in T |-> [y \in S |-> TrackLimboChange(x, y, q)]]
<1>0. /\ c \in T /\ IsFiniteSet(S) /\ c \in P[{}]
      /\ \A x \in T, y \in S : TrackLimboChange(x, y, q) \in T
      BY DEF Adds
<1>1. n \in Nat /\ order \in [1 .. n -> S] /\ step \in Steps(T, S)
      BY <1>0, Listed DEF Steps
<1>2. PICK f : f \in [0 .. n -> T] /\ Run(f, step, c, order, n)
      <2> HIDE DEF order, n, step
      <2> QED BY <1>0, <1>1, RunExists
<1>3. Is(f)
      <2> HIDE DEF order, n
      <2>1. ASSUME NEW i \in 0 .. n
            PROVE  f[i] = IF i = 0 THEN c ELSE TrackLimboChange(f[i - 1], order[i], q)
            <3>1. CASE i = 0
                  BY <1>2, <3>1 DEF Run
            <3>2. CASE i # 0
                  <4>1. i \in 1 .. n /\ i - 1 \in 0 .. n
                        BY <1>1, <3>2
                  <4>2. f[i - 1] \in T /\ order[i] \in S /\ f[i] = step[f[i - 1]][order[i]]
                        BY <1>1, <1>2, <4>1 DEF Run
                  <4> QED BY <3>2, <4>2
            <3> QED BY <3>1, <3>2
      <2> QED BY <1>2, <2>1
<1>4. PICK g : g = (CHOOSE h : Is(h))
      OBVIOUS
<1>5. Is(g)
      <2> HIDE DEF Is
      <2> QED BY <1>3, <1>4
<1>6. TrackedAll(c, q, S) = g[n]
      BY <1>4 DEF ForEach, TrackedAll
<1>7. Along(g, n) /\ g[0] = c
      BY <1>1, <1>5 DEF Along
<1>8. ASSUME NEW i \in 1 .. n, g[i - 1] \in T PROVE g[i] = step[g[i - 1]][order[i]]
      <2>1. i \in 0 .. n /\ i # 0
            BY <1>1
      <2>2. g[i] = TrackLimboChange(g[i - 1], order[i], q)
            BY <1>5, <2>1
      <2>3. order[i] \in S
            <3> HIDE DEF order, n
            <3> QED BY <1>1
      <2> QED BY <1>8, <2>2, <2>3
<1>9. g \in [0 .. n -> T] /\ Run(g, step, c, order, n)
      <2> HIDE DEF Is, step, n, order
      <2>1. c \in T
            BY <1>0
      <2> QED BY <1>1, <1>7, <1>8, <2>1, RunWithin
<1>10. g[n] \in P[S]
       <2>1. Leads(P, T, S, step)
             BY DEF Leads, Adds
       <2> HIDE DEF step
       <2> QED BY <1>0, <1>1, <1>9, <2>1, RunEnds
<1> HIDE DEF n, order, Is, step
<1> QED BY <1>6, <1>10

\* The same of a loop that gives lookups up.
Frees(P, T, c, S) ==
  /\ c \in T /\ IsFiniteSet(S) /\ c \in P[{}]
  /\ \A e \in T, y \in S : (IF Unreferenced(e, y) THEN RemoveLimboTarget(e, y) ELSE e) \in T
  /\ \A D \in SUBSET S : \A y \in S \ D, e \in T :
       e \in P[D] => (IF Unreferenced(e, y) THEN RemoveLimboTarget(e, y) ELSE e) \in P[D \union {y}]

\* What every lookup given up keeps, the loop over them keeps.
LEMMA FreedStays ==
  ASSUME NEW P, NEW T, NEW c, NEW S, Frees(P, T, c, S)
  PROVE  FreedAll(c, S) \in P[S]
<1> DEFINE order == SetToSeq(S)
           n == Len(order)
           Is(f) == f = [i \in 0 .. n |-> IF i = 0 THEN c ELSE (IF Unreferenced(f[i - 1],
             order[i]) THEN RemoveLimboTarget(f[i - 1], order[i]) ELSE f[i - 1])]
           step == [x \in T |-> [y \in S |-> (IF Unreferenced(x, y) THEN RemoveLimboTarget(x, y)
             ELSE x)]]
<1>0. /\ c \in T /\ IsFiniteSet(S) /\ c \in P[{}]
      /\ \A x \in T, y \in S :
            (IF Unreferenced(x, y) THEN RemoveLimboTarget(x, y) ELSE x) \in T
      BY DEF Frees
<1>1. n \in Nat /\ order \in [1 .. n -> S] /\ step \in Steps(T, S)
      BY <1>0, Listed DEF Steps
<1>2. PICK f : f \in [0 .. n -> T] /\ Run(f, step, c, order, n)
      <2> HIDE DEF order, n, step
      <2> QED BY <1>0, <1>1, RunExists
<1>3. Is(f)
      <2> HIDE DEF order, n
      <2>1. ASSUME NEW i \in 0 .. n
            PROVE  f[i] = IF i = 0 THEN c ELSE (IF Unreferenced(f[i - 1], order[i])
                     THEN RemoveLimboTarget(f[i - 1], order[i]) ELSE f[i - 1])
            <3>1. CASE i = 0
                  BY <1>2, <3>1 DEF Run
            <3>2. CASE i # 0
                  <4>1. i \in 1 .. n /\ i - 1 \in 0 .. n
                        BY <1>1, <3>2
                  <4>2. f[i - 1] \in T /\ order[i] \in S /\ f[i] = step[f[i - 1]][order[i]]
                        BY <1>1, <1>2, <4>1 DEF Run
                  <4> QED BY <3>2, <4>2
            <3> QED BY <3>1, <3>2
      <2> QED BY <1>2, <2>1
<1>4. PICK g : g = (CHOOSE h : Is(h))
      OBVIOUS
<1>5. Is(g)
      <2> HIDE DEF Is
      <2> QED BY <1>3, <1>4
<1>6. FreedAll(c, S) = g[n]
      BY <1>4 DEF ForEach, FreedAll
<1>7. Along(g, n) /\ g[0] = c
      BY <1>1, <1>5 DEF Along
<1>8. ASSUME NEW i \in 1 .. n, g[i - 1] \in T PROVE g[i] = step[g[i - 1]][order[i]]
      <2>1. i \in 0 .. n /\ i # 0
            BY <1>1
      <2>2. g[i] = (IF Unreferenced(g[i - 1], order[i])
                    THEN RemoveLimboTarget(g[i - 1], order[i]) ELSE g[i - 1])
            BY <1>5, <2>1
      <2>3. order[i] \in S
            <3> HIDE DEF order, n
            <3> QED BY <1>1
      <2> QED BY <1>8, <2>2, <2>3
<1>9. g \in [0 .. n -> T] /\ Run(g, step, c, order, n)
      <2> HIDE DEF Is, step, n, order
      <2>1. c \in T
            BY <1>0
      <2> QED BY <1>1, <1>7, <1>8, <2>1, RunWithin
<1>10. g[n] \in P[S]
       <2>1. Leads(P, T, S, step)
             BY DEF Leads, Frees
       <2> HIDE DEF step
       <2> QED BY <1>0, <1>1, <1>9, <2>1, RunEnds
<1> HIDE DEF n, order, Is, step
<1> QED BY <1>6, <1>10

\* The references of a query go with the documents that leave limbo and come with
\* those that enter it.
Retracked(c, d, q, before, after) ==
  d.refs = (c.refs \ ((before \ after) \X {q})) \union ((after \ before) \X {q})

\* SyncEngine::UpdateTrackedLimboDocuments, for documents in and out of limbo.
LEMMA UpdateTrackedLimboDocumentsEffect ==
  ASSUME NEW c, Ready(c), NEW q \in Asked, NEW before \in SUBSET Docs, NEW after \in SUBSET Docs
  PROVE  LET d == UpdateTrackedLimboDocuments(c, q, before, after)
         IN  /\ Ready(d) /\ Moved(c, d) /\ SameViews(c, d) /\ (Chased(c) => Chased(d))
             /\ Retracked(c, d, q, before, after)
<1> DEFINE gone == before \ after
           new == after \ before
           T == {e \in ClientType : /\ Ready(e) /\ Moved(c, e) /\ SameViews(c, e)
                                    /\ Chased(c) => Chased(e)}
           refs == c.refs \ (gone \X {q})
           less == DroppedAll(c, q, gone)
           more == TrackedAll(less, q, new)
           P == [D \in SUBSET gone |-> {e \in T : e.refs = c.refs \ (D \X {q})}]
           Q == [D \in SUBSET new |-> {e \in T : e.refs = refs \union (D \X {q})}]
<1>1. c \in T
      BY MovedSelf DEF Ready, SameViews
<1>2. IsFiniteSet(gone) /\ IsFiniteSet(new)
      BY DocsAssumption, FS_Subset
<1>14. gone \in SUBSET Docs /\ new \in SUBSET Docs
      OBVIOUS
<1> HIDE DEF gone, new
<1>3. ASSUME NEW e \in T, NEW y \in gone
      PROVE  Dereferenced(e, y, q) \in T /\ Dereferenced(e, y, q).refs = e.refs \ {<<y, q>>}
      <2>1. PICK d : d = Dereferenced(e, y, q)
            OBVIOUS
      <2>2. /\ Ready(d) /\ Moved(e, d) /\ SameViews(e, d) /\ d.refs = e.refs \ {<<y, q>>}
            /\ Chased(e) => Chased(d)
            BY <2>1, DereferencedEffect
      <2>3. Moved(c, d)
            BY <1>1, <2>2, MovedTrans DEF Ready
      <2>4. SameViews(c, d)
            BY <2>2 DEF SameViews
      <2> QED BY <2>1, <2>2, <2>3, <2>4 DEF Ready
<1>4. ASSUME NEW e \in T, NEW y \in new
      PROVE  /\ TrackLimboChange(e, y, q) \in T
             /\ TrackLimboChange(e, y, q).refs = e.refs \union {<<y, q>>}
      <2>1. PICK d : d = TrackLimboChange(e, y, q)
            OBVIOUS
      <2>2. /\ Ready(d) /\ Moved(e, d) /\ SameViews(e, d) /\ d.refs = e.refs \union {<<y, q>>}
            /\ Chased(e) => Chased(d)
            BY <1>14, <2>1, TrackLimboChangeEffect
      <2>3. Moved(c, d)
            BY <1>1, <2>2, MovedTrans DEF Ready
      <2>4. SameViews(c, d)
            BY <2>2 DEF SameViews
      <2> QED BY <2>1, <2>2, <2>3, <2>4 DEF Ready
<1> HIDE DEF T
<1>5. c \in P[{}]
      BY <1>1
<1>6. ASSUME NEW D \in SUBSET gone, NEW y \in gone \ D, NEW e \in T,
             e \in P[D]
      PROVE  Dereferenced(e, y, q) \in P[D \union {y}]
      <2>1. e.refs = c.refs \ (D \X {q}) /\ D \union {y} \in SUBSET gone
            BY <1>6
      <2>2. (D \union {y}) \X {q} = (D \X {q}) \union {<<y, q>>}
            OBVIOUS
      <2>3. Dereferenced(e, y, q) \in T /\ Dereferenced(e, y, q).refs = e.refs \ {<<y, q>>}
            BY <1>3
      <2> QED BY <2>1, <2>2, <2>3
<1> HIDE DEF P, less, more
<1>7. less \in P[gone]
      <2>1. Drops(q, P, T, c, gone)
            BY <1>1, <1>2, <1>3, <1>5, <1>6 DEF Drops
      <2> QED BY <2>1, DereferencedStays DEF less
<1>8. less \in T /\ less.refs = refs
      <2>1. gone \in SUBSET gone
            OBVIOUS
      <2> QED BY <1>7, <2>1 DEF P
<1> HIDE DEF refs
<1>9. less \in Q[{}]
      BY <1>8
<1>10. ASSUME NEW D \in SUBSET new, NEW y \in new \ D, NEW e \in T,
              e \in Q[D]
       PROVE  TrackLimboChange(e, y, q) \in Q[D \union {y}]
       <2>1. e.refs = refs \union (D \X {q}) /\ D \union {y} \in SUBSET new
             BY <1>10
       <2>2. (D \union {y}) \X {q} = (D \X {q}) \union {<<y, q>>}
             OBVIOUS
       <2>3. /\ TrackLimboChange(e, y, q) \in T
             /\ TrackLimboChange(e, y, q).refs = e.refs \union {<<y, q>>}
             BY <1>4
       <2> QED BY <2>1, <2>2, <2>3
<1> HIDE DEF Q
<1>11. more \in Q[new]
       <2>1. Adds(q, Q, T, less, new)
             BY <1>2, <1>4, <1>8, <1>9, <1>10 DEF Adds
       <2> QED BY <2>1, TrackedStays DEF more
<1>12. more \in T /\ more.refs = refs \union (new \X {q})
       <2>1. new \in SUBSET new
             OBVIOUS
       <2> QED BY <1>11, <2>1 DEF Q
<1>13. UpdateTrackedLimboDocuments(c, q, before, after) = more
       BY DEF UpdateTrackedLimboDocuments, DroppedAll, TrackedAll, more, less, gone, new
<1> QED BY <1>12, <1>13 DEF T, refs, gone, new, Retracked

\* The limbo documents of a view that goes are given up.
LEMMA CleanUpTargetEffect ==
  ASSUME NEW c, Ready(c), NEW q
  PROVE  LET d == CleanUpTarget(c, q)
         IN  /\ Ready(d) /\ Moved(c, d) /\ SameViews(c, d) /\ (Chased(c) => Chased(d))
             /\ d.refs = {x \in c.refs : x[2] # q}
<1> DEFINE keys == {ref[1] : ref \in {x \in c.refs : x[2] = q}}
           refs == {x \in c.refs : x[2] # q}
           freed == [c EXCEPT !.refs = {x \in @ : x[2] # q}]
           all == FreedAll(freed, keys)
           covers(e, D) == /\ Busy(e) /\ Lookups(e) \subseteq Wanted(e) \union (keys \ D)
                           /\ Wanted(e) \ Refused \subseteq Lookups(e)
           T == {e \in ClientType : /\ Ready(e) /\ Moved(c, e) /\ SameViews(c, e)
                                    /\ e.refs = refs}
           P == [D \in SUBSET keys |-> {e \in T : Chased(c) => covers(e, D)}]
<1>1. c \in ClientType /\ refs \in SUBSET (Docs \X Asked)
      BY DEF Ready, ClientType
<1>2. freed = [c EXCEPT !.refs = refs]
      OBVIOUS
<1>3. IsFiniteSet(keys)
      <2>1. keys \in SUBSET Docs
            BY <1>1 DEF ClientType
      <2> QED BY <2>1, DocsAssumption, FS_Subset
<1>4. CleanUpTarget(c, q) = all
      BY DEF CleanUpTarget, FreedAll
<1>5. Wanted(c) \subseteq {ref[1] : ref \in refs} \union keys /\ {ref[1] : ref \in refs} \subseteq Wanted(c)
      BY DEF Wanted
<1> HIDE DEF refs, freed, keys, all
<1>6. /\ Ready(freed) /\ Moved(c, freed) /\ SameViews(c, freed) /\ freed.refs = refs
      /\ Lookups(freed) = Lookups(c) /\ (Busy(c) => Busy(freed))
      BY <1>1, <1>2, RefsEffect
<1>7. freed \in T /\ (Chased(c) => covers(freed, {}))
      BY <1>5, <1>6 DEF Ready, Chased, Wanted
<1>8. freed \in P[{}]
      <2> HIDE DEF T, covers
      <2> QED BY <1>7
<1>9. ASSUME NEW e \in T, NEW y \in keys
      PROVE  LET d == IF Unreferenced(e, y) THEN RemoveLimboTarget(e, y) ELSE e
             IN  /\ d \in T
                 /\ \A D \in SUBSET keys : covers(e, D) => covers(d, D \union {y})
      <2>1. PICK d : d = IF Unreferenced(e, y) THEN RemoveLimboTarget(e, y) ELSE e
            OBVIOUS
      <2>2. CASE Unreferenced(e, y)
            <3>1. /\ Ready(d) /\ Moved(e, d) /\ Kept(e, d) /\ Lookups(d) = Lookups(e) \ {y}
                  /\ Busy(e) => Busy(d)
                  BY <2>1, <2>2, RemoveLimboTargetEffect
            <3>2. Moved(c, d)
                  BY <1>1, <3>1, MovedTrans DEF Ready
            <3>3. SameViews(c, d) /\ d.refs = refs
                  BY <3>1 DEF Kept, SameViews
            <3>4. y \notin Wanted(e) /\ Wanted(d) = Wanted(e)
                  BY <2>2, <3>1 DEF Kept, Unreferenced, Wanted
            <3>5. ASSUME NEW D \in SUBSET keys, covers(e, D) PROVE covers(d, D \union {y})
                  BY <3>1, <3>4, <3>5
            <3> QED BY <2>1, <3>1, <3>2, <3>3, <3>5 DEF Ready
      <2>3. CASE ~Unreferenced(e, y)
            <3>1. y \in Wanted(e)
                  BY <2>3 DEF Unreferenced, Wanted
            <3> QED BY <2>3, <3>1
      <2> QED BY <2>2, <2>3
<1> HIDE DEF T, covers
<1>10. ASSUME NEW D \in SUBSET keys, NEW y \in keys \ D, NEW e \in T, e \in P[D]
       PROVE  (IF Unreferenced(e, y) THEN RemoveLimboTarget(e, y) ELSE e) \in P[D \union {y}]
       <2>1. PICK d : d = IF Unreferenced(e, y) THEN RemoveLimboTarget(e, y) ELSE e
             OBVIOUS
       <2>2. d \in T /\ (covers(e, D) => covers(d, D \union {y})) /\ D \union {y} \in SUBSET keys
             BY <1>9, <2>1
       <2>3. Chased(c) => covers(e, D)
             BY <1>10
       <2>4. d \in P[D \union {y}]
             BY <2>2, <2>3
       <2> QED BY <2>1, <2>4
<1>11. all \in P[keys]
       <2> HIDE DEF P
       <2>1. Frees(P, T, freed, keys)
             BY <1>3, <1>7, <1>8, <1>9, <1>10 DEF Frees
       <2> QED BY <2>1, FreedStays DEF all
<1>12. all \in T /\ (Chased(c) => covers(all, keys))
       BY <1>11
<1>13. Chased(c) => Chased(all)
       BY <1>12 DEF Chased, covers
<1> QED BY <1>4, <1>12, <1>13 DEF T, refs

-----------------------------------------------------------------------------
(* Queries: a listener goes, a query fails, a listener comes.              *)

\* A step that may change views and queries.
Going(c, d) == Quiet(c, d) /\ Talk(c, d) /\ Steady(c, d)

\* One such step after another.
LEMMA GoingTrans ==
  ASSUME NEW c \in ClientType, NEW d \in ClientType, NEW e \in ClientType, Going(c, d), Going(d, e)
  PROVE  Going(c, e)
BY QuietTrans, TalkTrans, SteadyTrans DEF Going

\* The queries of the EventManager change alone.
LEMMA QueriesStep ==
  ASSUME NEW c, Ready(c), NEW Q \in Partial(Asked, EntryType)
  PROVE  LET d == [c EXCEPT !.queries = Q]
         IN  /\ Ready(d) /\ Talk(c, d) /\ Steady(c, d)
             /\ d.queries = Q /\ d.views = c.views /\ d.events = c.events
             /\ d.refs = c.refs /\ d.active = c.active /\ d.waiting = c.waiting
<1> DEFINE d == [c EXCEPT !.queries = Q]
<1>1. c \in ClientType
      BY DEF Ready
<1>2. d \in ClientType
      BY <1>1 DEF ClientType
<1>3. /\ d.queries = Q
      /\ Same(c, d, (Meta \ {"queries"}) \union Link \union Fixed)
      BY <1>1 DEF ClientType, Same, Meta, Link, Fixed
<1> HIDE DEF d
<1>4. /\ d.views = c.views /\ d.active = c.active /\ d.received = c.received
         /\ d.targets = c.targets
      /\ d.requests = c.requests /\ d.aggregator = c.aggregator /\ d.stream = c.stream
      /\ d.waiting = c.waiting /\ d.events = c.events /\ d.refs = c.refs
      /\ Same(c, d, {"network", "targets", "stream", "aggregator", "online", "failed", "timer",
           "requests"})
      BY <1>3 DEF Same, Meta, Link, Fixed
<1>5. Linked(d) /\ Awake(d)
      BY <1>4, LinkSame DEF Ready
<1>6. Fits(d)
      BY <1>4 DEF Ready, Fits
<1>7. Talk(c, d)
      BY <1>1, <1>4, TalkSame
<1>8. \A u : KeysOf(d, u) = KeysOf(c, u)
      BY <1>4 DEF KeysOf
<1> QED BY <1>2, <1>3, <1>4, <1>5, <1>6, <1>7, <1>8 DEF Ready, Steady, d

\* It is quiet when listeners only go.
LEMMA FewerListeners ==
  ASSUME NEW c \in ClientType, NEW d, d.events = c.events,
         \A q \in DOMAIN d.queries : /\ q \in DOMAIN c.queries
                                     /\ d.queries[q].listeners \subseteq c.queries[q].listeners
  PROVE  Quiet(c, d)
<1>1. Len(c.events) \in Nat
      BY LenProperties DEF ClientType
<1> QED BY <1>1 DEF Quiet

\* A view goes, and nothing else.
LEMMA WithoutViewEffect ==
  ASSUME NEW c \in ClientType, NEW q \in DOMAIN c.views
  PROVE  LET d == WithoutView(c, q)
         IN  /\ d \in ClientType /\ DOMAIN d.views = DOMAIN c.views \ {q}
             /\ \A x \in DOMAIN d.views : d.views[x] = c.views[x]
             /\ Same(c, d, Fixed \union Link \union (Meta \ {"views"}))
<1> DEFINE f == Restrict(c.views, DOMAIN c.views \ {q})
           d == WithoutView(c, q)
<1>1. c.views \in Partial(Asked, ViewType) /\ c.stream \in StreamType
      BY DEF ClientType
<1>2. f \in Partial(Asked, ViewType)
      BY <1>1, PartialRestrict
<1>3. DOMAIN f = DOMAIN c.views \ {q} /\ \A x \in DOMAIN f : f[x] = c.views[x]
      BY DEF Restrict
<1>4. HardAssert(c.stream, q \in DOMAIN c.views) = c.stream
      BY <1>1 DEF HardAssert, StreamType
<1>5. d = [[c EXCEPT !.stream = HardAssert(@, q \in DOMAIN c.views)] EXCEPT !.views = f]
      BY DEF WithoutView, Check
<1> HIDE DEF d, f
<1>6. d \in ClientType /\ d.views = f /\ Same(c, d, Fixed \union Link \union (Meta \ {"views"}))
      BY <1>2, <1>4, <1>5 DEF ClientType, Same, Fixed, Link, Meta
<1> QED BY <1>3, <1>6 DEF d

\* SyncEngine::StopListening removes one view with its target and its lookups.
LEMMA SyncStopListeningEffect ==
  ASSUME NEW c, Ready(c), NEW q \in DOMAIN c.views
  PROVE  LET d == SyncStopListening(c, q)
         IN  /\ Ready(d) /\ Going(c, d)
             /\ DOMAIN d.views = DOMAIN c.views \ {q} /\ DOMAIN d.queries = DOMAIN c.queries
             /\ Follows(c, d)
<1> DEFINE without == WithoutView(c, q)
           stopped == RemoteStopListening(without, q)
           d == CleanUpTarget(stopped, q)
<1>1. /\ without \in ClientType /\ DOMAIN without.views = DOMAIN c.views \ {q}
      /\ \A x \in DOMAIN without.views : without.views[x] = c.views[x]
      /\ Same(c, without, Fixed \union Link \union (Meta \ {"views"}))
      /\ c \in ClientType
      BY WithoutViewEffect DEF Ready
<1> HIDE DEF without
<1>2. /\ without.targets = c.targets /\ without.requests = c.requests /\ without.stream = c.stream
      /\ without.aggregator = c.aggregator /\ without.active = c.active
         /\ without.received = c.received
      /\ without.waiting = c.waiting /\ without.queries = c.queries /\ without.events = c.events
      /\ Same(c, without, {"network", "targets", "stream", "aggregator", "online",
                           "failed", "timer", "requests"})
      /\ Same(c, without, {"events", "queries"})
      BY <1>1 DEF Same, Fixed, Link, Meta
<1>3. Linked(without) /\ Awake(without) /\ q \in DOMAIN without.targets
      BY <1>2, LinkSame DEF Ready, Fits
<1>4. /\ Aside(without, stopped) /\ Linked(stopped) /\ Awake(stopped) /\ Talk(without, stopped)
      /\ DOMAIN stopped.targets = DOMAIN without.targets \ {q}
      BY <1>1, <1>3, RemoteStopListeningEffect
<1> HIDE DEF stopped
<1>5. /\ stopped \in ClientType /\ DOMAIN stopped.views = DOMAIN without.views
      /\ stopped.active = c.active /\ stopped.received = c.received /\ stopped.waiting = c.waiting
      /\ DOMAIN stopped.queries = DOMAIN c.queries
      BY <1>2, <1>4 DEF Aside, Same, Fixed, SameViews
<1>6. Ready(stopped)
      <2>1. q \notin Range(c.active)
            BY <1>1, QueriesAreNoLookups
      <2> QED BY <1>1, <1>2, <1>4, <1>5, <2>1 DEF Ready, Fits
<1>7. Going(c, stopped)
      <2>1. Quiet(c, without) /\ Talk(c, without)
            BY <1>1, <1>2, QuietSame, TalkSame
      <2>2. Quiet(c, stopped) /\ Talk(c, stopped)
            BY <1>1, <1>4, <1>5, <2>1, QuietTrans, TalkTrans DEF Aside
      <2>3. ASSUME NEW t \in DOMAIN stopped.targets
            PROVE  t \in DOMAIN c.targets /\ KeysOf(stopped, t) = KeysOf(c, t)
            <3>1. KeysOf(stopped, t) = KeysOf(without, t)
                  BY <1>1, <1>4, KeysAside
            <3>2. t # q /\ t \in DOMAIN c.targets
                  BY <1>2, <1>4
            <3>3. KeysOf(without, t) = KeysOf(c, t)
                  BY <1>1, <1>2, <3>2 DEF KeysOf
            <3> QED BY <3>1, <3>2, <3>3
      <2> QED BY <2>2, <2>3 DEF Going, Steady
<1>8. /\ Ready(d) /\ Moved(stopped, d) /\ SameViews(stopped, d)
      /\ Chased(stopped) => Chased(d)
      /\ d.refs = {x \in stopped.refs : x[2] # q}
      BY <1>6, CleanUpTargetEffect
<1>9. SyncStopListening(c, q) = d
      BY DEF SyncStopListening, stopped, without
<1> HIDE DEF d
<1>10. Going(c, d)
       <2>1. Going(stopped, d)
             BY <1>8 DEF Moved, Going
       <2> QED BY <1>1, <1>5, <1>7, <1>8, <2>1, GoingTrans DEF Ready
<1>11. Follows(c, d)
       <2>1. stopped.refs = c.refs
             BY <1>1, <1>4 DEF Aside, Same, Fixed
       <2>2. Chased(c) => Chased(d)
             BY <1>5, <1>8, <2>1 DEF Chased, Busy, Lookups, Wanted
       <2>3. /\ DOMAIN d.views = DOMAIN c.views \ {q}
             /\ \A x \in DOMAIN d.views : d.views[x].limbo = c.views[x].limbo
             BY <1>1, <1>4, <1>8 DEF Aside, SameViews
       <2> QED BY <1>8, <2>1, <2>2, <2>3, FollowsWithout
<1> QED BY <1>1, <1>5, <1>8, <1>9, <1>10, <1>11 DEF Moved

\* There is a view of every query, and of no other, and a lookup of every limbo
\* document of a view, and of no other.
Matched(c) == DOMAIN c.views = DOMAIN c.queries /\ Tracks(c)

\* It stays so where neither changes.
LEMMA MatchedSame ==
  ASSUME NEW c, NEW d, Matched(c), DOMAIN d.queries = DOMAIN c.queries,
         d.refs = c.refs, d.active = c.active, d.waiting = c.waiting, SameViews(c, d)
  PROVE  Matched(d)
<1>1. Follows(c, d)
      BY FollowsSame
<1> QED BY <1>1 DEF Matched, SameViews, Follows

\* So it is with a step aside.
LEMMA MatchedAside ==
  ASSUME NEW c, NEW d, Matched(c), Aside(c, d)
  PROVE  Matched(d)
<1>1. Follows(c, d)
      BY FollowsAside
<1> QED BY <1>1 DEF Matched, Aside, SameViews, Follows

\* So it is with the same views of other entries.
LEMMA MatchedViews ==
  ASSUME NEW c, NEW d, Matched(c), DOMAIN d.queries = DOMAIN c.queries, d.views = c.views,
         d.refs = c.refs, d.active = c.active, d.waiting = c.waiting
  PROVE  Matched(d)
BY MatchedSame DEF SameViews

\* So it is where none of this is touched.
LEMMA MatchedKept ==
  ASSUME NEW c, NEW d, Matched(c), Same(c, d, {"queries", "views", "refs", "active", "waiting"})
  PROVE  Matched(d)
BY MatchedViews DEF Same

\* EventManager::RemoveQueryListener: the last listener takes the query with it.
LEMMA RemoveQueryListenerEffect ==
  ASSUME NEW c, Ready(c), Matched(c), NEW r, NEW q
  PROVE  LET d == RemoveQueryListener(c, r, q) IN Ready(d) /\ Going(c, d) /\ Matched(d)
<1> DEFINE less == [c EXCEPT !.queries[q].listeners = @ \ {r}]
           gone == [less EXCEPT !.queries = Restrict(@, DOMAIN @ \ {q})]
           d == RemoveQueryListener(c, r, q)
<1>1. c \in ClientType /\ c.queries \in Partial(Asked, EntryType)
      BY DEF Ready, ClientType
<1>2. CASE q \notin DOMAIN c.queries
      <2>1. d = c
            BY <1>2 DEF RemoveQueryListener
      <2>2. Moved(c, c)
            BY <1>1, MovedSelf
      <2> QED BY <2>1, <2>2 DEF Moved, Going
<1>3. CASE q \in DOMAIN c.queries
      <2> DEFINE Q == [c.queries EXCEPT ![q].listeners = @ \ {r}]
      <2>1. /\ c.queries[q] \in EntryType /\ IsFiniteSet(DOMAIN c.queries)
            /\ c.queries \in [DOMAIN c.queries -> EntryType] /\ DOMAIN c.queries \subseteq Asked
            BY <1>1, <1>3, PartialOut
      <2>2. /\ DOMAIN Q = DOMAIN c.queries
            /\ \A x \in DOMAIN Q : /\ Q[x] \in EntryType
                                   /\ Q[x].listeners \subseteq c.queries[x].listeners
            BY <2>1 DEF EntryType
      <2>3. Q \in Partial(Asked, EntryType)
            <3>1. Q \in [DOMAIN c.queries -> EntryType]
                  BY <2>1, <2>2
            <3>2. DOMAIN c.queries \in SUBSET Asked
                  BY <2>1
            <3> QED BY <2>1, <3>1, <3>2, PartialIn
      <2>4. less = [c EXCEPT !.queries = Q]
            OBVIOUS
      <2> HIDE DEF Q, less
      <2>5. /\ Ready(less) /\ Talk(c, less) /\ Steady(c, less) /\ less.queries = Q
            /\ less.views = c.views /\ less.events = c.events
            /\ less.refs = c.refs /\ less.active = c.active /\ less.waiting = c.waiting
            BY <2>3, <2>4, QueriesStep
      <2>6. Quiet(c, less)
            BY <1>1, <2>2, <2>5, FewerListeners
      <2>7. CASE less.queries[q].listeners # {}
            <3>1. d = less
                  BY <1>3, <2>7 DEF RemoveQueryListener, less
            <3>2. Matched(less)
                  BY <2>2, <2>5, MatchedViews
            <3> QED BY <2>5, <2>6, <3>1, <3>2 DEF Going
      <2>8. CASE less.queries[q].listeners = {}
            <3> DEFINE R == Restrict(Q, DOMAIN Q \ {q})
            <3>1. R \in Partial(Asked, EntryType)
                  BY <2>3, PartialRestrict
            <3>2. DOMAIN R = DOMAIN Q \ {q} /\ \A x \in DOMAIN R : R[x] = Q[x]
                  BY DEF Restrict
            <3>3. gone = [less EXCEPT !.queries = R]
                  BY <2>5
            <3>4. d = SyncStopListening(gone, q)
                  BY <1>3, <2>8 DEF RemoveQueryListener, less
            <3> HIDE DEF R, gone, d
            <3>5. /\ Ready(gone) /\ Talk(less, gone) /\ Steady(less, gone) /\ gone.queries = R
                  /\ gone.views = c.views /\ gone.events = c.events
                  /\ gone.refs = c.refs /\ gone.active = c.active /\ gone.waiting = c.waiting
                  BY <2>5, <3>1, <3>3, QueriesStep
            <3>6. Quiet(less, gone)
                  BY <2>5, <3>2, <3>5, FewerListeners DEF Ready
            <3>7. /\ Ready(d) /\ Going(gone, d) /\ DOMAIN d.views = DOMAIN gone.views \ {q}
                  /\ DOMAIN d.queries = DOMAIN gone.queries /\ Follows(gone, d)
                  BY <1>3, <3>4, <3>5, SyncStopListeningEffect DEF Matched
            <3>8. Going(c, gone)
                  BY <1>1, <2>5, <2>6, <3>5, <3>6, GoingTrans DEF Going, Ready
            <3>9. Going(c, d)
                  BY <1>1, <3>5, <3>7, <3>8, GoingTrans DEF Ready
            <3>10. Matched(d)
                  <4>1. Follows(c, gone)
                        BY <3>5, FollowsSame DEF SameViews
                  <4> QED BY <2>2, <3>2, <3>5, <3>7, <4>1 DEF Matched, Follows
            <3> QED BY <3>7, <3>9, <3>10 DEF d
      <2> QED BY <2>7, <2>8
<1> QED BY <1>2, <1>3

\* A read listens to one query at most.
Distinct(c) ==
  \A q \in DOMAIN c.queries, x \in DOMAIN c.queries :
    c.queries[q].listeners \intersect c.queries[x].listeners # {} => q = x

\* It stays so where no read becomes a listener.
LEMMA DistinctKept ==
  ASSUME NEW c, NEW d, Distinct(c), Quiet(c, d)
  PROVE  Distinct(d)
BY DEF Distinct, Quiet

\* Raising events keeps the client in order.
LEMMA RaisedReady ==
  ASSUME NEW c, Ready(c), NEW news \in SUBSET EventType
  PROVE  LET d == Raise(c, news)
         IN  /\ Ready(d) /\ Talk(c, d) /\ Steady(c, d)
             /\ d.queries = c.queries /\ d.views = c.views
             /\ d.refs = c.refs /\ d.active = c.active /\ d.waiting = c.waiting
<1> DEFINE d == Raise(c, news)
<1>1. /\ d \in ClientType /\ c \in ClientType
      /\ Same(c, d, Fixed \union Link \union {"queries", "views", "timer", "failed", "online"})
      BY RaiseType DEF Ready
<1> HIDE DEF d
<1>2. /\ d.views = c.views /\ d.active = c.active /\ d.received = c.received
         /\ d.targets = c.targets
      /\ d.requests = c.requests /\ d.aggregator = c.aggregator /\ d.stream = c.stream
      /\ d.waiting = c.waiting /\ d.queries = c.queries /\ d.refs = c.refs
      /\ Same(c, d, {"network", "targets", "stream", "aggregator", "online", "failed", "timer",
           "requests"})
      BY <1>1 DEF Same, Link, Fixed
<1>3. Linked(d) /\ Awake(d) /\ Fits(d)
      BY <1>2, LinkSame DEF Ready, Fits
<1>4. Talk(c, d)
      BY <1>1, <1>2, TalkSame
<1>5. \A u : KeysOf(d, u) = KeysOf(c, u)
      BY <1>2 DEF KeysOf
<1> QED BY <1>1, <1>2, <1>3, <1>4, <1>5 DEF Ready, Steady, d

\* EventManager::OnError: the listeners hear the error, and the query goes.
LEMMA OnErrorEffect ==
  ASSUME NEW c, Ready(c), Distinct(c), NEW q
  PROVE  LET d == OnError(c, q)
         IN  /\ Ready(d) /\ Going(c, d) /\ d.views = c.views
             /\ DOMAIN d.queries = DOMAIN c.queries \ {q}
             /\ d.refs = c.refs /\ d.active = c.active /\ d.waiting = c.waiting
<1> DEFINE d == OnError(c, q)
<1>0. c \in ClientType /\ c.queries \in Partial(Asked, EntryType)
      BY DEF Ready, ClientType
<1>1. CASE q \notin DOMAIN c.queries
      <2>1. d = c
            BY <1>1 DEF OnError
      <2>2. Moved(c, c)
            BY <1>0, MovedSelf
      <2> QED BY <1>1, <2>1, <2>2 DEF Moved, Going
<1>2. CASE q \in DOMAIN c.queries
      <2> DEFINE R == Restrict(c.queries, DOMAIN c.queries \ {q})
                 less == [c EXCEPT !.queries = R]
                 news == {Event(r, "error") : r \in c.queries[q].listeners}
                 order == SetToSeq(news)
      <2>1. d = Raise(less, news)
            BY <1>2 DEF OnError
      <2>2. R \in Partial(Asked, EntryType) /\ c.queries[q] \in EntryType
            BY <1>0, <1>2, PartialRestrict, PartialOut
      <2>3. DOMAIN R = DOMAIN c.queries \ {q} /\ \A x \in DOMAIN R : R[x] = c.queries[x]
            BY DEF Restrict
      <2>4. /\ news \in SUBSET EventType
            /\ \A e \in news : e.read \in c.queries[q].listeners /\ e.what = "error"
            /\ \A e \in news, f \in news : e.read = f.read => e = f
            BY <2>2 DEF EntryType, EventType, Event
      <2> HIDE DEF R, less, news, d
      <2>5. /\ Ready(less) /\ Talk(c, less) /\ Steady(c, less)
            /\ less.queries = R /\ less.views = c.views /\ less.events = c.events
            /\ less.refs = c.refs /\ less.active = c.active /\ less.waiting = c.waiting
            BY <2>2, QueriesStep DEF less
      <2>6. /\ Ready(d) /\ Talk(less, d) /\ Steady(less, d) /\ d.queries = R /\ d.views = c.views
            /\ d.refs = c.refs /\ d.active = c.active /\ d.waiting = c.waiting
            BY <2>1, <2>4, <2>5, RaisedReady
      <2>7. d.events = c.events \o order
            BY <2>1, <2>4, <2>5, RaiseType DEF Ready
      <2>8. /\ order \in Seq(EventType) /\ Len(order) \in Nat
            /\ \A i \in 1 .. Len(order) : order[i] \in news
            /\ \A i, j \in 1 .. Len(order) : order[i] = order[j] => i = j
            <3>1. IsFiniteSet(news)
                  BY <2>4, AllEvents, FS_Subset
            <3>2. /\ order \in Seq(news) /\ Len(order) = Cardinality(news)
                     /\ Cardinality(news) \in Nat
                  /\ \A i, j \in 1 .. Cardinality(news) : order[i] = order[j] => i = j
                  BY <3>1, Listed
            <3>3. order \in Seq(EventType)
                  BY <2>4, <3>2, SeqMonotonic
            <3> QED BY <3>2, <3>3, ElementOfSeq
      <2> HIDE DEF order
      <2>9. c.events \in Seq(EventType) /\ Len(c.events) \in Nat
            BY <1>0, LenProperties DEF ClientType
      <2>10. /\ Len(d.events) = Len(c.events) + Len(order)
             /\ \A i \in 1 .. Len(c.events) : d.events[i] = c.events[i]
             /\ \A i \in Len(c.events) + 1 .. Len(d.events) : d.events[i] = order[i - Len(c.events)]
             BY <2>7, <2>8, <2>9, ConcatProperties
      <2>11. c.queries[q].listeners \subseteq Listens(c)
             BY <1>2 DEF Listens
      <2>12. c.queries[q].listeners \intersect Listens(d) = {}
             BY <1>2, <2>3, <2>6 DEF Listens, Distinct
      <2>13. ASSUME NEW i \in Len(c.events) + 1 .. Len(d.events)
             PROVE  /\ d.events[i].read \in Listens(c) /\ d.events[i].read \notin Listens(d)
                    /\ \A j \in i + 1 .. Len(d.events) : d.events[j].read # d.events[i].read
             <3>1. /\ i - Len(c.events) \in 1 .. Len(order)
                   /\ d.events[i] = order[i - Len(c.events)]
                   BY <2>8, <2>9, <2>10
             <3>2. d.events[i] \in news
                   BY <2>8, <3>1
             <3>3. ASSUME NEW j \in i + 1 .. Len(d.events), d.events[j].read = d.events[i].read
                   PROVE  FALSE
                   <4>1. /\ j - Len(c.events) \in 1 .. Len(order)
                            /\ j - Len(c.events) # i - Len(c.events)
                         /\ d.events[j] = order[j - Len(c.events)]
                         BY <2>8, <2>9, <2>10
                   <4>2. d.events[j] \in news
                         BY <2>8, <4>1
                   <4>3. d.events[j] = d.events[i]
                         BY <2>4, <3>2, <3>3, <4>2
                   <4> QED BY <2>8, <3>1, <4>1, <4>3
             <3> QED BY <2>4, <2>11, <2>12, <3>2, <3>3
      <2>14. Quiet(c, d)
             BY <2>3, <2>6, <2>8, <2>9, <2>10, <2>13 DEF Quiet
      <2>15. Talk(c, d) /\ Steady(c, d)
             BY <1>0, <2>5, <2>6, TalkTrans, SteadyTrans DEF Ready
      <2> QED BY <2>3, <2>6, <2>14, <2>15 DEF Going, d
<1> QED BY <1>1, <1>2

\* The snapshot of one query.
LEMMA OneSnapshot ==
  ASSUME NEW q \in Asked
  PROVE  [x \in {q} |-> "cache"] \in SnapshotsType
<1>1. IsFiniteSet({q}) /\ {q} \in SUBSET Asked
      /\ [x \in {q} |-> "cache"] \in [{q} -> {"server", "cache"}]
      BY FS_Singleton
<1> QED BY <1>1, PartialIn DEF SnapshotsType

\* SyncEngine::Listen adds one view with its target.
LEMMA SyncListenEffect ==
  ASSUME NEW c, Ready(c), NEW q \in Asked, q \notin DOMAIN c.views
  PROVE  LET d == SyncListen(c, q)
         IN  /\ Ready(d) /\ Going(c, d) /\ DOMAIN d.views = DOMAIN c.views \union {q}
             /\ DOMAIN d.queries = DOMAIN c.queries /\ Follows(c, d)
<1> DEFINE f == Put(c.views, q, NewView(c.saved[q].keys))
           viewed == [Check(c, q \notin DOMAIN c.views) EXCEPT !.views = f]
           shown == OnViewSnapshots(viewed, [x \in {q} |-> "cache"])
           d == RemoteListen(shown, q, c.saved[q].token)
<1>1. /\ c \in ClientType /\ c.views \in Partial(Asked, ViewType) /\ c.stream \in StreamType
      /\ c.saved[q] \in SavedType
      BY DEF Ready, ClientType
<1>2. SyncListen(c, q) = d
      <2>1. viewed = [Check(c, q \notin DOMAIN c.views)
                        EXCEPT !.views = Put(@, q, NewView(c.saved[q].keys))]
            BY <1>1 DEF Check, ClientType
      <2> QED BY <2>1 DEF SyncListen
<1>3. NewView(c.saved[q].keys) \in ViewType
      BY <1>1 DEF NewView, ViewType, SavedType
<1>4. f \in Partial(Asked, ViewType)
      BY <1>1, <1>3, PartialPut
<1>5. /\ DOMAIN f = DOMAIN c.views \union {q} /\ \A x \in DOMAIN c.views : f[x] = c.views[x]
      /\ f[q].limbo = {}
      BY DEF Put, NewView
<1>6. HardAssert(c.stream, q \notin DOMAIN c.views) = c.stream
      BY <1>1 DEF HardAssert, StreamType
<1> HIDE DEF f
<1>7. viewed \in ClientType /\ viewed.views = f
      /\ Same(c, viewed, Fixed \union Link \union (Meta \ {"views"}))
      BY <1>1, <1>4, <1>6 DEF ClientType, Same, Fixed, Link, Meta, Check
<1> HIDE DEF viewed
<1>8. /\ viewed.targets = c.targets /\ viewed.requests = c.requests /\ viewed.stream = c.stream
      /\ viewed.aggregator = c.aggregator /\ viewed.active = c.active
         /\ viewed.received = c.received
      /\ viewed.waiting = c.waiting /\ viewed.queries = c.queries /\ viewed.events = c.events
      /\ viewed.network = c.network /\ viewed.online = c.online /\ viewed.failed = c.failed
      /\ viewed.timer = c.timer
      /\ Same(c, viewed, {"events", "queries"})
      BY <1>7 DEF Same, Fixed, Link, Meta
<1>9. /\ Aside(viewed, shown)
         /\ Same(viewed, shown, Link \union {"timer", "failed", "online", "views"})
      /\ shown \in ClientType
      BY <1>7, OneSnapshot, OnViewSnapshotsAside DEF Aside
<1> HIDE DEF shown
<1>10. /\ shown.targets = c.targets /\ shown.requests = c.requests /\ shown.stream = c.stream
       /\ shown.aggregator = c.aggregator /\ DOMAIN shown.views = DOMAIN f
          /\ shown.active = c.active
       /\ Same(c, shown, {"network", "targets", "stream", "aggregator", "online", "failed",
                          "timer", "requests"})
       BY <1>7, <1>8, <1>9 DEF Aside, Same, Fixed, Link
<1>11. Linked(shown) /\ Awake(shown)
       BY <1>10, LinkSame DEF Ready
<1>12. q \in Targets /\ c.saved[q].token \in Tokens
       BY <1>1, AskedAssumption DEF Targets, SavedType
<1>13. /\ Aside(shown, d) /\ Linked(d) /\ Awake(d) /\ Talk(shown, d)
       /\ DOMAIN d.targets = DOMAIN shown.targets \union {q}
       /\ IsOpen(shown.stream) /\ q \notin DOMAIN shown.targets => Owed(d, q) > Owed(shown, q)
       BY <1>9, <1>11, <1>12, RemoteListenEffect
<1> HIDE DEF d
<1>14. /\ d \in ClientType /\ Aside(viewed, d)
       BY <1>7, <1>9, <1>13, AsideTrans DEF Aside
<1>15. /\ DOMAIN d.views = DOMAIN c.views \union {q} /\ d.active = c.active
          /\ d.received = c.received
       /\ d.waiting = c.waiting /\ DOMAIN d.queries = DOMAIN c.queries
       BY <1>5, <1>7, <1>8, <1>14 DEF Aside, Same, Fixed, SameViews
<1>16. q \notin DOMAIN c.targets
       <2>1. q \notin Range(c.active)
             <3>1. \A x \in DOMAIN c.active : c.active[x] \in Docs \X Nat
                   BY <1>1, PartialOut DEF ClientType, LookupType
             <3> QED BY <3>1, AskedAssumption, TargetsAssumption DEF Range
       <2> QED BY <2>1 DEF Ready, Fits
<1>17. Ready(d)
       BY <1>10, <1>13, <1>14, <1>15 DEF Ready, Fits
<1>18. Talk(c, d)
       <2>1. Talk(c, shown)
             BY <1>1, <1>10, TalkSame
       <2> QED BY <1>1, <1>9, <1>13, <1>14, <2>1, TalkTrans
<1>19. Quiet(c, d)
       <2>1. Quiet(c, viewed) /\ Quiet(viewed, d)
             BY <1>1, <1>8, <1>14, QuietSame DEF Aside
       <2> QED BY <1>1, <1>7, <1>14, <2>1, QuietTrans
<1>20. Steady(c, d)
       <2> SUFFICES ASSUME IsOpen(c.stream), NEW t \in DOMAIN d.targets, t # q
                    PROVE  t \in DOMAIN c.targets /\ KeysOf(d, t) = KeysOf(c, t)
           <3>1. IsOpen(c.stream) => Owed(d, q) > Owed(c, q)
                 BY <1>10, <1>13, <1>16 DEF Owed
           <3> QED BY <3>1 DEF Steady
       <2>1. KeysOf(d, t) = KeysOf(viewed, t)
             BY <1>7, <1>14, KeysAside
       <2>2. KeysOf(viewed, t) = KeysOf(c, t)
             BY <1>5, <1>7, <1>8 DEF KeysOf
       <2> QED BY <1>10, <1>13, <2>1, <2>2
<1>21. Follows(c, d)
       <2>1. d.refs = c.refs
             BY <1>7, <1>14 DEF Aside, Same, Fixed
       <2>2. d.views[q].limbo = {} /\ \A x \in DOMAIN c.views : d.views[x].limbo = c.views[x].limbo
             BY <1>5, <1>7, <1>14 DEF Aside, SameViews
       <2> QED BY <1>15, <2>1, <2>2, FollowsWith
<1> QED BY <1>2, <1>15, <1>17, <1>18, <1>19, <1>20, <1>21 DEF Going

\* The listener of a read is put in its place.
Joined(c, r, q) ==
  LET entry == IF q \in DOMAIN c.queries THEN c.queries[q]
                                         ELSE [listeners |-> {}, snapshot |-> Nothing]
  IN  [c EXCEPT !.queries = Put(@, q, [entry EXCEPT !.listeners = @ \union {r}])]

\* No other query is touched by it.
LEMMA JoinedEffect ==
  ASSUME NEW c, Ready(c), NEW r \in Reads, NEW q \in Asked
  PROVE  LET d == Joined(c, r, q)
         IN  /\ Ready(d) /\ Talk(c, d) /\ Steady(c, d) /\ d.views = c.views /\ d.events = c.events
             /\ d.refs = c.refs /\ d.active = c.active /\ d.waiting = c.waiting
             /\ DOMAIN d.queries = DOMAIN c.queries \union {q}
             /\ \A x \in DOMAIN c.queries : x # q => d.queries[x].listeners = c.queries[x].listeners
             /\ r \in d.queries[q].listeners
             /\ d.queries[q].listeners \subseteq
                  {r} \union (IF q \in DOMAIN c.queries THEN c.queries[q].listeners ELSE {})
<1> DEFINE entry == IF q \in DOMAIN c.queries THEN c.queries[q]
                                              ELSE [listeners |-> {}, snapshot |-> Nothing]
           more == [entry EXCEPT !.listeners = @ \union {r}]
           Q == Put(c.queries, q, more)
<1>1. c \in ClientType /\ c.queries \in Partial(Asked, EntryType)
      BY DEF Ready, ClientType
<1>2. entry \in EntryType
      <2>1. q \in DOMAIN c.queries => c.queries[q] \in EntryType
            BY <1>1, PartialOut
      <2> QED BY <2>1 DEF EntryType
<1>3. more \in EntryType /\ more.listeners = entry.listeners \union {r}
      BY <1>2 DEF EntryType
<1>4. entry.listeners = IF q \in DOMAIN c.queries THEN c.queries[q].listeners ELSE {}
      OBVIOUS
<1>5. Joined(c, r, q) = [c EXCEPT !.queries = Q]
      BY DEF Joined
<1> HIDE DEF entry, more
<1>6. Q \in Partial(Asked, EntryType)
      BY <1>1, <1>3, PartialPut
<1>7. /\ DOMAIN Q = DOMAIN c.queries \union {q} /\ Q[q] = more
      /\ \A x \in DOMAIN c.queries : x # q => Q[x] = c.queries[x]
      BY DEF Put
<1> HIDE DEF Q
<1>8. LET d == Joined(c, r, q)
      IN  /\ Ready(d) /\ Talk(c, d) /\ Steady(c, d) /\ d.queries = Q
          /\ d.views = c.views /\ d.events = c.events
          /\ d.refs = c.refs /\ d.active = c.active /\ d.waiting = c.waiting
      BY <1>5, <1>6, QueriesStep
<1> QED BY <1>3, <1>4, <1>7, <1>8

\* EventManager::AddQueryListener: the first listener brings the view with it.
LEMMA AddQueryListenerEffect ==
  ASSUME NEW c, Ready(c), Matched(c), NEW r \in Reads, NEW q \in Asked
  PROVE  LET d == AddQueryListener(c, r, q)
         IN  /\ Ready(d) /\ Matched(d) /\ Talk(c, d) /\ Steady(c, d)
             /\ Quiet(Joined(c, r, q), d)
<1> DEFINE known == q \in DOMAIN c.queries
           entry == IF known THEN c.queries[q] ELSE [listeners |-> {}, snapshot |-> Nothing]
           added == Joined(c, r, q)
           news == {Event(r, entry.snapshot)}
           hears == entry.snapshot # Nothing /\ Hears(added, r, entry.snapshot)
           shown == IF hears THEN Raise(added, news) ELSE added
           d == AddQueryListener(c, r, q)
<1>1. c \in ClientType /\ c.queries \in Partial(Asked, EntryType)
      BY DEF Ready, ClientType
<1>2. /\ Ready(added) /\ Talk(c, added) /\ Steady(c, added) /\ added.views = c.views
      /\ added.events = c.events /\ DOMAIN added.queries = DOMAIN c.queries \union {q}
      /\ added.refs = c.refs /\ added.active = c.active /\ added.waiting = c.waiting
      /\ r \in added.queries[q].listeners
      BY JoinedEffect
<1>3. d = IF known THEN shown ELSE SyncListen(shown, q)
      BY DEF AddQueryListener, Joined
<1> HIDE DEF added, d
<1>4. entry.snapshot \in {"server", "cache", Nothing}
      <2>1. q \in DOMAIN c.queries => c.queries[q] \in EntryType
            BY <1>1, PartialOut
      <2> QED BY <2>1 DEF EntryType
<1>5. /\ Ready(shown) /\ Talk(added, shown) /\ Steady(added, shown) /\ Quiet(added, shown)
      /\ shown.views = added.views /\ DOMAIN shown.queries = DOMAIN added.queries
      /\ shown.refs = added.refs /\ shown.active = added.active /\ shown.waiting = added.waiting
      <2>1. CASE hears
            <3>1. news \in SUBSET EventType /\ \A e \in news : e.read \in Listens(added)
                  /\ e.what # "error"
                  BY <1>2, <1>4, <2>1 DEF Event, EventType, Listens
            <3> HIDE DEF news
            <3>2. Aside(added, Raise(added, news))
                  BY <1>2, <3>1, RaiseQuiet DEF Ready
            <3>3. LET e == Raise(added, news)
                  IN  /\ Ready(e) /\ Talk(added, e) /\ Steady(added, e)
                      /\ e.queries = added.queries /\ e.views = added.views
                      /\ e.refs = added.refs /\ e.active = added.active
                      /\ e.waiting = added.waiting
                  BY <1>2, <3>1, RaisedReady
            <3> QED BY <2>1, <3>2, <3>3 DEF Aside
      <2>2. CASE ~hears
            <3>1. Moved(added, added)
                  BY <1>2, MovedSelf DEF Ready
            <3> QED BY <1>2, <2>2, <3>1 DEF Moved
      <2> QED BY <2>1, <2>2
<1> HIDE DEF shown
<1>6. Talk(c, shown) /\ Steady(c, shown)
      BY <1>1, <1>2, <1>5, TalkTrans, SteadyTrans DEF Ready
<1>7. Follows(c, shown)
      BY <1>2, <1>5, FollowsSame DEF SameViews
<1>8. CASE known
      <2>1. Matched(shown)
            BY <1>2, <1>5, <1>8, <1>7 DEF Matched, Follows
      <2> QED BY <1>3, <1>5, <1>6, <1>8, <2>1 DEF d, added
<1>9. CASE ~known
      <2> DEFINE e == SyncListen(shown, q)
      <2>1. q \notin DOMAIN shown.views
            BY <1>2, <1>5, <1>9 DEF Matched
      <2>2. /\ Ready(e) /\ Going(shown, e) /\ DOMAIN e.views = DOMAIN shown.views \union {q}
            /\ DOMAIN e.queries = DOMAIN shown.queries /\ Follows(shown, e)
            BY <1>5, <2>1, SyncListenEffect
      <2> HIDE DEF e
      <2>3. Talk(c, e) /\ Steady(c, e) /\ Quiet(added, e)
            BY <1>1, <1>2, <1>5, <1>6, <2>2, TalkTrans, SteadyTrans, QuietTrans DEF Ready, Going
      <2>4. Matched(e)
            BY <1>2, <1>5, <1>7, <2>2 DEF Matched, Follows
      <2>5. d = e
            BY <1>3, <1>9 DEF e
      <2> QED BY <2>2, <2>3, <2>4, <2>5 DEF d, added
<1> QED BY <1>8, <1>9

-----------------------------------------------------------------------------
(* The SyncEngine: views, snapshots and remote events.                     *)

\* A step aside keeps the client in order.
LEMMA AsideReady ==
  ASSUME NEW c, Ready(c), NEW d, Aside(c, d), Same(c, d, Link \union {"timer", "failed", "online"})
  PROVE  Ready(d) /\ Moved(c, d)
<1>1. c \in ClientType /\ d \in ClientType
      BY DEF Ready, Aside
<1>2. /\ d.active = c.active /\ d.received = c.received /\ d.waiting = c.waiting
      /\ DOMAIN d.views = DOMAIN c.views /\ d.targets = c.targets
      /\ d.requests = c.requests /\ d.aggregator = c.aggregator /\ d.stream = c.stream
      /\ Same(c, d, {"network", "targets", "stream", "aggregator", "online", "failed", "timer",
           "requests"})
      BY DEF Aside, Same, Fixed, SameViews, Link
<1>3. Linked(d) /\ Awake(d) /\ Fits(d)
      BY <1>2, LinkSame DEF Ready, Fits
<1>4. Talk(c, d)
      BY <1>1, <1>2, TalkSame
<1>5. Moved(c, d)
      BY <1>1, <1>2, <1>4, AsideMoved
<1> QED BY <1>1, <1>3, <1>5 DEF Ready

\* A view is replaced by the next, which has the same documents if the aggregator
\* still has records of them.
LEMMA ViewUpdatedEffect ==
  ASSUME NEW c, Ready(c), NEW e, Ready(e), Moved(c, e), NEW q \in DOMAIN c.views,
         NEW before \in ViewType, NEW after \in ViewType,
         after.synced = c.views[q].synced \/ DOMAIN StateOf(c.aggregator, q).changes = {}
  PROVE  LET d == ViewUpdated(e, q, before, after)
         IN  /\ Ready(d) /\ Moved(c, d)
             /\ \A x \in DOMAIN c.views : x # q => d.views[x].limbo = e.views[x].limbo
             /\ e.views[q].limbo = before.limbo => Follows(e, d)
<1> DEFINE f == [e.views EXCEPT ![q] = after]
           turned == [e EXCEPT !.views[q] = after]
<1>1. c \in ClientType /\ e \in ClientType /\ e.views \in Partial(Asked, ViewType)
      BY DEF Ready, ClientType
<1>2. q \in DOMAIN e.views /\ q \in Asked /\ q \in DOMAIN c.targets
      <2>1. q \in DOMAIN e.views
            BY DEF Moved
      <2>2. q \in Asked
            BY <1>1, <2>1, PartialOut
      <2> QED BY <2>1, <2>2 DEF Ready, Fits
<1>3. /\ f \in Partial(Asked, ViewType) /\ DOMAIN f = DOMAIN e.views
      /\ f[q] = after /\ \A x \in DOMAIN f : x # q => f[x] = e.views[x]
      <2>1. /\ e.views \in [DOMAIN e.views -> ViewType] /\ IsFiniteSet(DOMAIN e.views)
            /\ DOMAIN e.views \in SUBSET Asked
            BY <1>1, PartialOut
      <2>2. f \in [DOMAIN e.views -> ViewType]
            BY <2>1
      <2>3. f \in Partial(Asked, ViewType)
            BY <2>1, <2>2, PartialIn
      <2> QED BY <1>2, <2>3
<1>4. turned = [e EXCEPT !.views = f]
      OBVIOUS
<1> HIDE DEF f, turned
<1>5. /\ turned \in ClientType /\ turned.views = f
      /\ Same(e, turned, Link \union Fixed \union (Meta \ {"views"}))
      BY <1>1, <1>3, <1>4 DEF ClientType, Same, Link, Fixed, Meta
<1>6. /\ turned.active = e.active /\ turned.received = e.received /\ turned.targets = e.targets
      /\ turned.requests = e.requests /\ turned.aggregator = e.aggregator
         /\ turned.stream = e.stream
      /\ turned.waiting = e.waiting /\ turned.queries = e.queries /\ turned.refs = e.refs
      /\ Same(e, turned, {"events", "queries"}) /\ Same(e, turned, {"cache", "saved", "network"})
      /\ Same(e, turned, {"network", "targets", "stream", "aggregator", "online", "failed",
                          "timer", "requests"})
      BY <1>5 DEF Same, Link, Fixed, Meta
<1>7. Ready(turned)
      BY <1>3, <1>5, <1>6, LinkSame DEF Ready, Fits
<1>8. Quiet(e, turned) /\ Talk(e, turned)
      BY <1>1, <1>6, QuietSame, TalkSame
<1>9. Quiet(c, turned) /\ Talk(c, turned)
      BY <1>1, <1>5, <1>8, QuietTrans, TalkTrans DEF Moved
<1>10. Steady(c, turned)
       <2> SUFFICES ASSUME IsOpen(c.stream), NEW t \in DOMAIN turned.targets
                    PROVE  \/ Owed(turned, t) > Owed(c, t)
                           \/ DOMAIN StateOf(c.aggregator, t).changes = {}
                           \/ t \in DOMAIN c.targets /\ KeysOf(turned, t) = KeysOf(c, t)
           BY DEF Steady
       <2>1. CASE t = q
             BY <1>2, <1>3, <1>5, <2>1 DEF KeysOf
       <2>2. CASE t # q
             <3>1. KeysOf(turned, t) = KeysOf(e, t)
                   BY <1>3, <1>5, <1>6, <2>2 DEF KeysOf
             <3>2. Owed(turned, t) = Owed(e, t)
                   BY <1>6 DEF Owed
             <3> QED BY <1>6, <3>1, <3>2 DEF Moved, Steady
       <2> QED BY <2>1, <2>2
<1>11. Moved(c, turned)
       <2>1. Same(c, turned, {"cache", "saved", "network"})
             BY <1>6, SameTrans DEF Moved
       <2> QED BY <1>3, <1>5, <1>6, <1>9, <1>10, <2>1 DEF Moved
<1> DEFINE d == UpdateTrackedLimboDocuments(turned, q, before.limbo, after.limbo)
<1>12. /\ Ready(d) /\ Moved(turned, d) /\ SameViews(turned, d) /\ (Chased(turned) => Chased(d))
       /\ Retracked(turned, d, q, before.limbo, after.limbo)
       <2>1. PICK b, a : b = before.limbo /\ a = after.limbo
             OBVIOUS
       <2>2. b \in SUBSET Docs /\ a \in SUBSET Docs
             BY <2>1 DEF ViewType
       <2>3. PICK x : x = UpdateTrackedLimboDocuments(turned, q, b, a)
             OBVIOUS
       <2>4. /\ Ready(x) /\ Moved(turned, x) /\ SameViews(turned, x) /\ (Chased(turned) => Chased(x))
             /\ Retracked(turned, x, q, b, a)
             BY ONLY <1>2, <1>7, <2>2, <2>3, UpdateTrackedLimboDocumentsEffect
       <2> QED BY <2>1, <2>3, <2>4
<1>13. ViewUpdated(e, q, before, after) = d
       BY DEF ViewUpdated, turned
<1> HIDE DEF d
<1>14. Moved(c, d)
       BY <1>1, <1>5, <1>11, <1>12, MovedTrans DEF Ready
<1>15. /\ DOMAIN d.views = DOMAIN e.views /\ d.views[q].limbo = after.limbo
       /\ \A x \in DOMAIN e.views : x # q => d.views[x].limbo = e.views[x].limbo
       BY <1>2, <1>3, <1>5, <1>12 DEF SameViews
<1>16. ASSUME e.views[q].limbo = before.limbo PROVE Follows(e, d)
       <2>1. Chased(e) => Chased(d)
             BY <1>6, <1>12 DEF Chased, Busy, Lookups, Wanted
       <2>2. d.refs = (e.refs \ ((e.views[q].limbo \ after.limbo) \X {q}))
                        \union ((after.limbo \ e.views[q].limbo) \X {q})
             BY <1>6, <1>12, <1>16 DEF Retracked
       <2> QED BY <1>2, <1>15, <2>1, <2>2, FollowsChange
<1>17. \A x \in DOMAIN c.views : x # q => d.views[x].limbo = e.views[x].limbo
       BY <1>15 DEF Moved
<1> QED BY <1>12, <1>13, <1>14, <1>16, <1>17

\* What every view replaced keeps, the loop over them keeps.
LEMMA UpdatedStays ==
  ASSUME NEW before, NEW after, NEW T, NEW c \in T, IsFiniteSet(DOMAIN before),
         \A e \in T, y \in DOMAIN before : ViewUpdated(e, y, before[y], after[y]) \in T
  PROVE  /\ ViewsUpdated(c, before, after) \in T
         /\ \A P : /\ c \in P[{}]
                   /\ \A D \in SUBSET DOMAIN before : \A y \in DOMAIN before \ D, e \in T :
                        e \in P[D] => ViewUpdated(e, y, before[y], after[y]) \in P[D \union {y}]
                   => ViewsUpdated(c, before, after) \in P[DOMAIN before]
<1> DEFINE order == SetToSeq(DOMAIN before)
           n == Len(order)
           Is(f) == f = [i \in 0 .. n |-> IF i = 0 THEN c
             ELSE ViewUpdated(f[i - 1], order[i], before[order[i]], after[order[i]])]
           step == [x \in T |-> [y \in DOMAIN before |-> ViewUpdated(x, y, before[y], after[y])]]
<1>1. n \in Nat /\ order \in [1 .. n -> DOMAIN before] /\ step \in Steps(T, DOMAIN before)
      BY Listed DEF Steps
<1>2. PICK f : f \in [0 .. n -> T] /\ Run(f, step, c, order, n)
      <2> HIDE DEF order, n, step
      <2> QED BY <1>1, RunExists
<1>3. Is(f)
      <2> HIDE DEF order, n
      <2>1. ASSUME NEW i \in 0 .. n
            PROVE  f[i] = IF i = 0 THEN c
                     ELSE ViewUpdated(f[i - 1], order[i], before[order[i]], after[order[i]])
            <3>1. CASE i = 0
                  BY <1>2, <3>1 DEF Run
            <3>2. CASE i # 0
                  <4>1. i \in 1 .. n /\ i - 1 \in 0 .. n
                        BY <1>1, <3>2
                  <4>2. f[i - 1] \in T /\ order[i] \in DOMAIN before
                        /\ f[i] = step[f[i - 1]][order[i]]
                        BY <1>1, <1>2, <4>1 DEF Run
                  <4> QED BY <3>2, <4>2
            <3> QED BY <3>1, <3>2
      <2> QED BY <1>2, <2>1
<1>4. PICK g : g = (CHOOSE h : Is(h))
      OBVIOUS
<1>5. Is(g)
      <2> HIDE DEF Is
      <2> QED BY <1>3, <1>4
<1>6. ViewsUpdated(c, before, after) = g[n]
      BY <1>4 DEF ViewsUpdated, ForEach
<1>7. Along(g, n) /\ g[0] = c
      BY <1>1, <1>5 DEF Along
<1>8. ASSUME NEW i \in 1 .. n, g[i - 1] \in T PROVE g[i] = step[g[i - 1]][order[i]]
      <2>1. i \in 0 .. n /\ i # 0
            BY <1>1
      <2>2. g[i] = ViewUpdated(g[i - 1], order[i], before[order[i]], after[order[i]])
            BY <1>5, <2>1
      <2>3. order[i] \in DOMAIN before
            <3> HIDE DEF order, n
            <3> QED BY <1>1
      <2> QED BY <1>8, <2>2, <2>3
<1>9. g \in [0 .. n -> T] /\ Run(g, step, c, order, n)
      <2> HIDE DEF Is, step, n, order
      <2> QED BY <1>1, <1>7, <1>8, RunWithin
<1>10. ASSUME NEW Q, c \in Q[{}],
              \A D \in SUBSET DOMAIN before : \A y \in DOMAIN before \ D, e \in T :
                e \in Q[D] => ViewUpdated(e, y, before[y], after[y]) \in Q[D \union {y}]
       PROVE  g[n] \in Q[DOMAIN before]
       <2>1. Leads(Q, T, DOMAIN before, step)
             BY <1>10 DEF Leads
       <2> HIDE DEF step
       <2> QED BY <1>1, <1>9, <1>10, <2>1, RunEnds
<1>11. g[n] \in T
       <2> HIDE DEF n, order, Is, step
       <2> QED BY <1>1, <1>9
<1> HIDE DEF n, order, Is, step
<1> QED BY <1>6, <1>10, <1>11

\* All the views are replaced.
LEMMA ViewsUpdatedEffect ==
  ASSUME NEW c, Ready(c), NEW after \in [DOMAIN c.views -> ViewType],
         \A q \in DOMAIN c.views : \/ after[q].synced = c.views[q].synced
                                   \/ DOMAIN StateOf(c.aggregator, q).changes = {}
  PROVE  LET d == ViewsUpdated(c, c.views, after) IN Ready(d) /\ Moved(c, d) /\ Follows(c, d)
<1> DEFINE T == {e \in ClientType : Ready(e) /\ Moved(c, e)}
           left(e, D) == \A q \in DOMAIN c.views \ D : e.views[q].limbo = c.views[q].limbo
           P == [D \in SUBSET DOMAIN c.views |-> {e \in T : Follows(c, e) /\ left(e, D)}]
<1>1. c \in T
      BY MovedSelf DEF Ready
<1>2. IsFiniteSet(DOMAIN c.views) /\ \A q \in DOMAIN c.views : c.views[q] \in ViewType
      BY PartialOut DEF Ready, ClientType
<1>3. ASSUME NEW e \in T, NEW q \in DOMAIN c.views
      PROVE  LET d == ViewUpdated(e, q, c.views[q], after[q])
             IN  /\ d \in T
                 /\ \A x \in DOMAIN c.views : x # q => d.views[x].limbo = e.views[x].limbo
                 /\ e.views[q].limbo = c.views[q].limbo => Follows(e, d)
      <2>1. LET d == ViewUpdated(e, q, c.views[q], after[q])
            IN  /\ Ready(d) /\ Moved(c, d)
                /\ \A x \in DOMAIN c.views : x # q => d.views[x].limbo = e.views[x].limbo
                /\ e.views[q].limbo = c.views[q].limbo => Follows(e, d)
            BY <1>2, ViewUpdatedEffect
      <2> QED BY <2>1 DEF Ready
<1> HIDE DEF T
<1>4. c \in P[{}]
      BY <1>1 DEF Follows
<1>5. ASSUME NEW D \in SUBSET DOMAIN c.views, NEW q \in DOMAIN c.views \ D, NEW e \in T, e \in P[D]
      PROVE  ViewUpdated(e, q, c.views[q], after[q]) \in P[D \union {q}]
      <2>1. PICK d : d = ViewUpdated(e, q, c.views[q], after[q])
            OBVIOUS
      <2>2. Follows(c, e) /\ left(e, D) /\ D \union {q} \in SUBSET DOMAIN c.views
            BY <1>5
      <2>3. /\ d \in T /\ \A x \in DOMAIN c.views : x # q => d.views[x].limbo = e.views[x].limbo
            /\ Follows(e, d)
            BY <1>3, <2>1, <2>2
      <2>4. Follows(c, d) /\ left(d, D \union {q})
            BY <2>2, <2>3 DEF Follows
      <2> HIDE DEF left
      <2>5. d \in P[D \union {q}]
            BY <2>2, <2>3, <2>4
      <2> QED BY <2>1, <2>5
<1>6. PICK before : before = c.views
      OBVIOUS
<1>7. ViewsUpdated(c, before, after) \in P[DOMAIN before]
      <2> HIDE DEF P
      <2>1. IsFiniteSet(DOMAIN before)
            BY <1>2, <1>6
      <2>2. \A e \in T, y \in DOMAIN before : ViewUpdated(e, y, before[y], after[y]) \in T
            BY <1>3, <1>6
      <2>3. \A D \in SUBSET DOMAIN before : \A y \in DOMAIN before \ D, e \in T :
              e \in P[D] => ViewUpdated(e, y, before[y], after[y]) \in P[D \union {y}]
            BY <1>5, <1>6
      <2> QED BY ONLY <1>1, <1>4, <2>1, <2>2, <2>3, UpdatedStays
<1>8. ViewsUpdated(c, c.views, after) \in T /\ Follows(c, ViewsUpdated(c, c.views, after))
      BY <1>6, <1>7
<1> QED BY <1>8 DEF T

\* The result of a query is a set of documents.
LEMMA ResultType ==
  ASSUME NEW q \in Asked, NEW stored
  PROVE  Result(q, stored) \in SUBSET Docs
<1>1. CASE q = Deck
      BY <1>1 DEF Result
<1>2. CASE q # Deck
      BY <1>2, AskedAssumption DEF Result, KeyOf
<1> QED BY <1>1, <1>2

\* A view hears of modified documents only if it has them.
FitsViews(c, event) ==
  \A q \in DOMAIN c.views \intersect DOMAIN event.changes :
    Changed(event.changes[q], "modified") \subseteq c.views[q].synced

\* A lookup hears of a document modified or removed only after it was added.
FitsLookups(c, event) ==
  \A d \in DOMAIN c.active :
    c.active[d] \in DOMAIN event.changes =>
      LET how == Range(event.changes[c.active[d]].changes)
      IN  "modified" \in how \/ "removed" \in how => d \in c.received

\* The aggregator has no records left of the targets of an event.
Settled(c, event) ==
  \A t \in DOMAIN event.changes : DOMAIN StateOf(c.aggregator, t).changes = {}

\* The next view has other documents only if the event is about its target.
LEMMA NextViewType ==
  ASSUME NEW c \in ClientType, NEW event \in RemoteEventType, NEW q \in DOMAIN c.views
  PROVE  /\ NextView(c, q, event) \in ViewType
         /\ q \notin DOMAIN event.changes => NextView(c, q, event).synced = c.views[q].synced
<1>1. q \in Asked /\ c.views[q] \in ViewType
      BY PartialOut DEF ClientType
<1>2. Result(q, c.cache) \in SUBSET Docs
      BY <1>1, ResultType
<1>3. ASSUME q \in DOMAIN event.changes
      PROVE  Changing(c.views[q], event.changes[q]) \in ViewType
      <2>1. event.changes[q] \in TargetStateType
            BY <1>3, PartialOut DEF RemoteEventType
      <2>2. DOMAIN event.changes[q].changes \subseteq Docs /\ event.changes[q].current \in BOOLEAN
            BY <2>1, PartialOut DEF TargetStateType
      <2> QED BY <1>1, <2>2 DEF Changing, ViewType, Changed
<1>4. ASSUME NEW v \in ViewType
      PROVE  WithLimbo(v, Result(q, c.cache)) \in ViewType
             /\ WithLimbo(v, Result(q, c.cache)).synced = v.synced
      BY <1>2 DEF WithLimbo, ViewType
<1> QED BY <1>1, <1>3, <1>4 DEF NextView

\* SyncEngine::EmitNewSnapshots replaces the views, raises what they show, and
\* looks up what is new in limbo.
LEMMA EmitNewSnapshotsEffect ==
  ASSUME NEW c, Ready(c), NEW before, NEW event \in RemoteEventType, FitsViews(c, event),
         Settled(c, event)
  PROVE  LET d == EmitNewSnapshots(c, before, event) IN Ready(d) /\ Moved(c, d) /\ Follows(c, d)
<1> DEFINE next == [q \in DOMAIN c.views |-> NextView(c, q, event)]
           differs(q) == \/ Result(q, c.cache) # Result(q, before)
                         \/ \E d \in Result(q, c.cache) : c.cache[d] # before[d]
                         \/ InSync(next[q]) # InSync(c.views[q])
           sound == \A q \in DOMAIN c.views \intersect DOMAIN event.changes :
                      Changed(event.changes[q], "modified") \subseteq c.views[q].synced
           news == {q \in DOMAIN c.views : differs(q)}
           s == [q \in news |-> SnapshotOf(next[q])]
           updated == ViewsUpdated(Check(c, sound), c.views, next)
           d == OnViewSnapshots(updated, s)
<1>1. EmitNewSnapshots(c, before, event) = d
      BY DEF EmitNewSnapshots
<1>2. /\ c \in ClientType /\ c.stream \in StreamType /\ IsFiniteSet(DOMAIN c.views)
      /\ DOMAIN c.views \subseteq Asked
      BY PartialOut DEF Ready, ClientType
<1>3. Check(c, sound) = c
      <2>1. sound
            BY DEF FitsViews
      <2> HIDE DEF sound
      <2>2. HardAssert(c.stream, sound) = c.stream
            BY <1>2, <2>1 DEF HardAssert, StreamType
      <2> QED BY <1>2, <2>2 DEF Check, ClientType
<1>4. s \in SnapshotsType
      <2>1. news \in SUBSET Asked /\ IsFiniteSet(news)
            BY <1>2, FS_Subset
      <2> HIDE DEF news, next
      <2>2. s \in [news -> {"server", "cache"}]
            BY DEF SnapshotOf
      <2> QED BY <2>1, <2>2, PartialIn DEF SnapshotsType
<1> HIDE DEF sound, s
<1>5. next \in [DOMAIN c.views -> ViewType]
      BY <1>2, NextViewType
<1>6. \A q \in DOMAIN c.views : \/ next[q].synced = c.views[q].synced
                                \/ DOMAIN StateOf(c.aggregator, q).changes = {}
      BY <1>2, NextViewType DEF Settled
<1> HIDE DEF next, d
<1>7. Ready(updated) /\ Moved(c, updated) /\ Follows(c, updated)
      BY <1>3, <1>5, <1>6, ViewsUpdatedEffect
<1> HIDE DEF updated
<1>8. /\ Aside(updated, OnViewSnapshots(updated, s))
      /\ Same(updated, OnViewSnapshots(updated, s),
           Link \union {"timer", "failed", "online", "views"})
      BY <1>4, <1>7, OnViewSnapshotsAside DEF Ready
<1>9. Same(updated, OnViewSnapshots(updated, s), Link \union {"timer", "failed", "online"})
      BY <1>8 DEF Same
<1>10. Ready(d) /\ Moved(updated, d)
      BY <1>7, <1>8, <1>9, AsideReady DEF d
<1>11. Moved(c, d)
      BY <1>2, <1>7, <1>10, MovedTrans DEF Ready
<1>12. Follows(c, d)
       <2>1. Follows(updated, d)
             BY <1>8, FollowsAside DEF d
       <2> QED BY <1>7, <2>1 DEF Follows
<1> QED BY <1>1, <1>10, <1>11, <1>12

\* A map over a function on all of D is one.
LEMMA OverlayTotal ==
  ASSUME NEW D, NEW R, NEW f \in [D -> R], NEW g, DOMAIN g \subseteq D,
         \A x \in DOMAIN g : g[x] \in R
  PROVE  Overlay(g, f) \in [D -> R]
BY DEF Overlay

\* SyncEngine::ApplyRemoteEvent fails no assertion if the event fits.
LEMMA ApplyRemoteEventEffect ==
  ASSUME NEW c, Ready(c), NEW event \in RemoteEventType, FitsViews(c, event),
         FitsLookups(c, event), Settled(c, event)
  PROVE  LET d == ApplyRemoteEvent(c, event)
         IN  /\ Ready(d) /\ Going(c, d) /\ DOMAIN d.views = DOMAIN c.views
             /\ DOMAIN d.queries = DOMAIN c.queries /\ Follows(c, d)
<1> DEFINE limbo == {d \in DOMAIN c.active : c.active[d] \in DOMAIN event.changes}
           how(d) == event.changes[c.active[d]].changes
           found == {d \in limbo : "added" \in Range(how(d))}
           lost == {d \in limbo : "removed" \in Range(how(d))}
           sound == \A d \in limbo : "modified" \in Range(how(d)) \/ d \in lost => d \in c.received
           stored(q) ==
             LET change == event.changes[q]
             IN  [keys |-> (c.saved[q].keys \union Changed(change, "added"))
                              \ Changed(change, "removed"),
                  token |-> IF q \in event.mismatches THEN {}
                            ELSE IF change.token = {} THEN c.saved[q].token ELSE change.token]
           saved == [q \in DOMAIN event.changes \intersect DOMAIN c.views |-> stored(q)]
           received == (c.received \union found) \ lost
           applied == [c EXCEPT !.received = (@ \union found) \ lost,
                                !.saved = Overlay(saved, @),
                                !.cache = Overlay(event.documents, @)]
           d == EmitNewSnapshots(applied, c.cache, event)
<1>1. /\ c \in ClientType /\ c.stream \in StreamType /\ DOMAIN c.views \subseteq Asked
      /\ DOMAIN c.active \subseteq Docs
      BY PartialOut DEF Ready, ClientType, LookupType
<1>2. ApplyRemoteEvent(c, event) = EmitNewSnapshots(Check(applied, sound), c.cache, event)
      BY DEF ApplyRemoteEvent
<1>3. sound
      BY DEF FitsLookups
<1>4. \A q \in DOMAIN event.changes \intersect DOMAIN c.views : saved[q] \in SavedType
      <2> SUFFICES ASSUME NEW q \in DOMAIN event.changes, q \in DOMAIN c.views
                   PROVE  stored(q) \in SavedType
          OBVIOUS
      <2>1. event.changes[q] \in TargetStateType
            BY PartialOut DEF RemoteEventType
      <2>2. DOMAIN event.changes[q].changes \subseteq Docs /\ event.changes[q].token \in Tokens
            BY <2>1, PartialOut DEF TargetStateType
      <2>3. c.saved[q] \in SavedType
            BY <1>1 DEF ClientType
      <2> QED BY <2>2, <2>3 DEF SavedType, Tokens, Changed
<1>5. Overlay(saved, c.saved) \in [Asked -> SavedType]
      <2>1. DOMAIN saved = DOMAIN event.changes \intersect DOMAIN c.views
            OBVIOUS
      <2> HIDE DEF saved
      <2>2. c.saved \in [Asked -> SavedType]
            BY <1>1 DEF ClientType
      <2> QED BY <1>1, <1>4, <2>1, <2>2, OverlayTotal
<1>6. Overlay(event.documents, c.cache) \in [Docs -> Status]
      <2>1. event.documents \in Partial(Docs, Status) /\ c.cache \in [Docs -> Status]
            BY <1>1 DEF RemoteEventType, ClientType
      <2>2. DOMAIN event.documents \subseteq Docs
            /\ \A x \in DOMAIN event.documents : event.documents[x] \in Status
            BY <2>1, PartialOut
      <2> QED BY <2>1, <2>2, OverlayTotal
<1>7. /\ received \in SUBSET Docs /\ received \subseteq DOMAIN c.active
      /\ \A x \in received : x \in c.received \/ c.active[x] \in DOMAIN event.changes
      /\ \A x \in c.received : x \in received \/ c.active[x] \in DOMAIN event.changes
      BY <1>1 DEF Ready, Fits
<1>8. applied = [c EXCEPT !.received = received, !.saved = Overlay(saved, @),
                          !.cache = Overlay(event.documents, @)]
      BY <1>1 DEF ClientType
<1> HIDE DEF saved, received, limbo, found, lost, applied, sound
<1>9. applied \in ClientType
      BY <1>1, <1>5, <1>6, <1>7, <1>8 DEF ClientType
<1>10. /\ applied.received = received
       /\ Same(c, applied, Meta \union Link \union {"refs", "active", "waiting", "nextLimbo",
            "network"})
      BY <1>1, <1>7, <1>8 DEF ClientType, Same, Meta, Link
<1>11. Check(applied, sound) = applied
      <2>1. applied.stream \in StreamType
            BY <1>9 DEF ClientType
      <2>2. HardAssert(applied.stream, sound) = applied.stream
            BY <1>3, <2>1 DEF HardAssert, StreamType
      <2> QED BY <1>9, <2>2 DEF Check, ClientType
<1>12. /\ applied.active = c.active /\ applied.waiting = c.waiting /\ applied.targets = c.targets
       /\ applied.views = c.views /\ applied.requests = c.requests /\ applied.stream = c.stream
       /\ applied.refs = c.refs
       /\ applied.aggregator = c.aggregator /\ applied.queries = c.queries
       /\ Same(c, applied, {"events", "queries"})
       /\ Same(c, applied, {"network", "targets", "stream", "aggregator", "online", "failed",
                            "timer", "requests"})
      BY <1>10 DEF Same, Meta, Link
<1>13. Ready(applied)
      BY <1>7, <1>9, <1>10, <1>12, LinkSame DEF Ready, Fits
<1>14. Going(c, applied)
      <2>1. Quiet(c, applied) /\ Talk(c, applied)
            BY <1>1, <1>12, QuietSame, TalkSame
      <2>2. ASSUME NEW t \in DOMAIN applied.targets, t \notin DOMAIN event.changes
            PROVE  KeysOf(applied, t) = KeysOf(c, t)
            <3>1. ASSUME NEW x
                  PROVE  (x \in applied.received /\ c.active[x] = t)
                           <=> (x \in c.received /\ c.active[x] = t)
                  BY <1>7, <1>10, <2>2
            <3> QED BY <1>12, <3>1 DEF KeysOf
      <2>3. \A t \in DOMAIN event.changes : DOMAIN StateOf(c.aggregator, t).changes = {}
            BY DEF Settled
      <2> QED BY <1>12, <2>1, <2>2, <2>3 DEF Going, Steady
<1>15. FitsViews(applied, event) /\ Settled(applied, event)
      BY <1>12 DEF FitsViews, Settled
<1> HIDE DEF d
<1>16. Ready(d) /\ Moved(applied, d) /\ Follows(applied, d)
      BY <1>13, <1>15, EmitNewSnapshotsEffect DEF d
<1>17. Going(c, d)
      <2>1. Going(applied, d)
            BY <1>16 DEF Moved, Going
      <2> QED BY <1>1, <1>9, <1>14, <1>16, <2>1, GoingTrans DEF Ready
<1>18. Follows(c, d)
      <2>1. Follows(c, applied)
            BY <1>12, FollowsSame DEF SameViews
      <2> QED BY <1>16, <2>1 DEF Follows
<1> QED BY <1>2, <1>11, <1>12, <1>16, <1>17, <1>18 DEF Moved, d

-----------------------------------------------------------------------------
(* A target the server refuses.                                            *)

\* Everything is as it should be but for t, which RemoteStore has forgotten.
Dropped(c, t) ==
  /\ c \in ClientType /\ Linked(c) /\ Awake(c)
  /\ t \in DOMAIN c.views \union Range(c.active)
  /\ DOMAIN c.targets = (DOMAIN c.views \union Range(c.active)) \ {t}
  /\ DOMAIN c.active \intersect Range(c.waiting) = {}
  /\ c.received \subseteq DOMAIN c.active
  /\ NoRepeats(c.waiting)
  /\ Cardinality(DOMAIN c.active) <= MaxLimbo

\* A lookup is of one document.
LEMMA KeyOfLookup ==
  ASSUME NEW t \in Docs \X Nat
  PROVE  KeyOf(t) = {t[1]}
<1>1. t # Deck /\ t \notin Docs
      BY TargetsAssumption
<1> QED BY <1>1 DEF KeyOf

\* The client without the lookup of a document.
LookupOver(c, x) == [c EXCEPT !.active = Restrict(@, DOMAIN @ \ {x}), !.received = @ \ {x}]

\* A lookup refused is over.
LEMMA RejectedLookup ==
  ASSUME NEW c, NEW x, NEW t, Dropped(c, t), x \in DOMAIN c.active, c.active[x] = t
  PROVE  LET d == LookupOver(c, x)
         IN  /\ Ready(d) /\ Going(c, d) /\ d.views = c.views /\ d.queries = c.queries
             /\ d.aggregator = c.aggregator /\ d.refs = c.refs
             /\ Lookups(d) = Lookups(c) \ {x}
<1> DEFINE d == LookupOver(c, x)
           f == Restrict(c.active, DOMAIN c.active \ {x})
<1>1. c \in ClientType
      BY DEF Dropped
<1>2. /\ f \in LookupType /\ DOMAIN f = DOMAIN c.active \ {x}
      /\ \A y \in DOMAIN f : f[y] = c.active[y] /\ f[y] # t
      /\ Range(f) = Range(c.active) \ {t}
      /\ Cardinality(DOMAIN f) <= Cardinality(DOMAIN c.active)
      /\ Cardinality(DOMAIN f) \in Nat /\ Cardinality(DOMAIN c.active) \in Nat
      BY <1>1, RestrictLookups
<1>3. d = [c EXCEPT !.active = f, !.received = @ \ {x}]
      BY DEF LookupOver
<1> HIDE DEF f
<1>4. /\ d \in ClientType /\ d.active = f /\ d.received = c.received \ {x}
      /\ Same(c, d, Meta \union Link \union {"refs", "waiting", "cache", "saved", "network"})
      BY <1>1, <1>2, <1>3 DEF ClientType, Same, Meta, Link
<1> HIDE DEF d
<1>5. /\ d.waiting = c.waiting /\ d.targets = c.targets /\ d.views = c.views
      /\ d.requests = c.requests /\ d.stream = c.stream /\ d.aggregator = c.aggregator
      /\ d.queries = c.queries /\ d.refs = c.refs /\ Same(c, d, {"events", "queries"})
      /\ Same(c, d, {"network", "targets", "stream", "aggregator", "online", "failed",
                     "timer", "requests"})
      BY <1>4 DEF Same, Meta, Link
<1>6. Linked(d) /\ Awake(d)
      BY <1>5, LinkSame DEF Dropped
<1>7. t \notin DOMAIN c.views
      BY <1>1, QueriesAreNoLookups DEF Range, Dropped
<1>8. Fits(d)
      BY <1>2, <1>4, <1>5, <1>7, LimboAssumption DEF Fits, Dropped
<1>9. Quiet(c, d) /\ Talk(c, d)
      BY <1>1, <1>5, QuietSame, TalkSame
<1>10. ASSUME NEW u \in DOMAIN d.targets
       PROVE  u \in DOMAIN c.targets /\ KeysOf(d, u) = KeysOf(c, u)
       <2>1. u # t
             BY <1>5 DEF Dropped
       <2>2. ASSUME NEW y
             PROVE  (y \in d.received /\ d.active[y] = u) <=> (y \in c.received /\ c.active[y] = u)
             BY <1>2, <1>4, <2>1 DEF Dropped
       <2> QED BY <1>5, <2>2 DEF KeysOf
<1>11. Lookups(d) = Lookups(c) \ {x}
       <2>1. x \notin Range(c.waiting)
             BY DEF Dropped
       <2> QED BY <1>2, <1>4, <1>5, <2>1 DEF Lookups
<1> QED BY <1>4, <1>5, <1>6, <1>8, <1>9, <1>10, <1>11 DEF Ready, Going, Steady, d

\* SyncEngine::HandleRejectedListen, of a query or of a lookup.
LEMMA HandleRejectedListenEffect ==
  ASSUME NEW c, NEW t, Dropped(c, t), Matched(c), Distinct(c), ~MayListen(t)
  PROVE  LET d == HandleRejectedListen(c, t) IN Ready(d) /\ Matched(d) /\ Going(c, d)
<1> DEFINE x == CHOOSE y \in KeyOf(t) : TRUE
           less == LookupOver(c, x)
           event == [changes |-> NoEntries, documents |-> [y \in {x} |-> "gone"], mismatches |-> {}]
           d == HandleRejectedListen(c, t)
<1>1. c \in ClientType
      BY DEF Dropped
<1>2. d = IF t \in Range(c.active) THEN ApplyRemoteEvent(Pump(less), event)
          ELSE CleanUpTarget(OnError(WithoutView(c, t), t), t)
      BY DEF HandleRejectedListen, LookupOver
<1>3. CASE t \in Range(c.active)
      <2>1. PICK y \in DOMAIN c.active : c.active[y] = t
            BY <1>3 DEF Range
      <2>2. t \in Docs \X Nat /\ t[1] = y /\ y \in Docs
            BY <1>1, <2>1, PartialOut DEF ClientType, LookupType
      <2>3. x = y
            BY <2>2, KeyOfLookup
      <2> HIDE DEF x
      <2>4. /\ Ready(less) /\ Going(c, less) /\ less.views = c.views /\ less.queries = c.queries
            /\ less.refs = c.refs /\ Lookups(less) = Lookups(c) \ {x}
            BY <2>1, <2>3, RejectedLookup
      <2> HIDE DEF less
      <2> DEFINE freed == Pump(less)
      <2>5. /\ Ready(freed) /\ Moved(less, freed) /\ Kept(less, freed)
            /\ Lookups(freed) = Lookups(less) /\ Busy(freed)
            BY <2>4, PumpEffect
      <2>6. event \in RemoteEventType /\ DOMAIN event.changes = {}
            <3>1. [z \in {x} |-> "gone"] \in Partial(Docs, Status)
                  <4>1. {x} \in SUBSET Docs /\ IsFiniteSet({x})
                        BY <2>2, <2>3, FS_Singleton
                  <4>2. [z \in {x} |-> "gone"] \in [{x} -> Status]
                        BY DEF Status
                  <4> QED BY <4>1, <4>2, PartialIn
            <3>2. NoEntries \in Partial(Targets, TargetStateType) /\ DOMAIN NoEntries = {}
                  BY PartialNone
            <3> QED BY <3>1, <3>2 DEF RemoteEventType
      <2> HIDE DEF freed, event
      <2>7. FitsViews(freed, event) /\ FitsLookups(freed, event) /\ Settled(freed, event)
            BY <2>6 DEF FitsViews, FitsLookups, Settled
      <2> DEFINE e == ApplyRemoteEvent(freed, event)
      <2>8. /\ Ready(e) /\ Going(freed, e) /\ DOMAIN e.views = DOMAIN freed.views
            /\ DOMAIN e.queries = DOMAIN freed.queries /\ Follows(freed, e)
            BY <2>5, <2>6, <2>7, ApplyRemoteEventEffect
      <2>9. d = e
            BY <1>2, <1>3 DEF freed
      <2> HIDE DEF d, e
      <2>10. Going(c, freed)
             BY <1>1, <2>4, <2>5, GoingTrans DEF Moved, Going, Ready
      <2>11. Going(c, e)
             BY <1>1, <2>5, <2>8, <2>10, GoingTrans DEF Ready
      <2>12. Matched(e)
             <3>1. x \in Refused
                   <4>1. KeyOf(t) = {x} /\ t # Deck
                         BY <2>2, <2>3, KeyOfLookup, TargetsAssumption
                   <4> QED BY <4>1 DEF MayListen
             <3>2. freed.refs = c.refs /\ SameViews(c, freed)
                   BY <2>4, <2>5 DEF Kept, SameViews
             <3>3. Chased(c) => Chased(freed)
                   BY <2>4, <2>5, <3>1, <3>2 DEF Chased, Wanted
             <3>4. Referred(freed) = Referred(c)
                   <4>1. \A ref : ref \in Referred(freed) <=> ref \in Referred(c)
                         BY <3>2, InLimbo DEF SameViews
                   <4> QED BY <4>1
             <3>5. Tracks(freed)
                   BY <3>2, <3>3, <3>4 DEF Matched, Tracks
             <3> QED BY <2>4, <2>5, <2>8, <3>5 DEF Matched, Moved, Follows
      <2> QED BY <2>8, <2>9, <2>11, <2>12 DEF d
<1>4. CASE t \notin Range(c.active)
      <2> DEFINE without == WithoutView(c, t)
                 heard == OnError(without, t)
                 e == CleanUpTarget(heard, t)
      <2>1. t \in DOMAIN c.views
            BY <1>4 DEF Dropped
      <2>2. /\ without \in ClientType /\ DOMAIN without.views = DOMAIN c.views \ {t}
            /\ \A y \in DOMAIN without.views : without.views[y] = c.views[y]
            /\ Same(c, without, Fixed \union Link \union (Meta \ {"views"}))
            BY <1>1, <2>1, WithoutViewEffect
      <2> HIDE DEF without
      <2>3. /\ without.targets = c.targets /\ without.requests = c.requests
            /\ without.stream = c.stream /\ without.aggregator = c.aggregator
            /\ without.active = c.active /\ without.received = c.received /\ without.refs = c.refs
            /\ without.waiting = c.waiting /\ without.queries = c.queries
            /\ Same(c, without, {"network", "targets", "stream", "aggregator", "online", "failed",
                                 "timer", "requests"})
            /\ Same(c, without, {"events", "queries"})
            BY <2>2 DEF Same, Fixed, Link, Meta
      <2>4. Ready(without)
            <3>1. Linked(without) /\ Awake(without)
                  BY <2>3, LinkSame DEF Dropped
            <3> QED BY <1>4, <2>2, <2>3, <3>1 DEF Dropped, Ready, Fits
      <2>5. Going(c, without)
            <3>1. Quiet(c, without) /\ Talk(c, without)
                  BY <1>1, <2>3, QuietSame, TalkSame
            <3>2. ASSUME NEW u \in DOMAIN without.targets
                  PROVE  u \in DOMAIN c.targets /\ KeysOf(without, u) = KeysOf(c, u)
                  <4>1. u # t
                        BY <2>3 DEF Dropped
                  <4> QED BY <2>2, <2>3, <4>1 DEF KeysOf
            <3> QED BY <3>1, <3>2 DEF Going, Steady
      <2>6. Distinct(without)
            BY <2>3 DEF Distinct
      <2>7. /\ Ready(heard) /\ Going(without, heard) /\ heard.views = without.views
            /\ DOMAIN heard.queries = DOMAIN without.queries \ {t}
            /\ heard.refs = without.refs /\ heard.active = without.active
            /\ heard.waiting = without.waiting
            BY <2>4, <2>6, OnErrorEffect
      <2> HIDE DEF heard
      <2>8. /\ Ready(e) /\ Moved(heard, e) /\ SameViews(heard, e) /\ (Chased(heard) => Chased(e))
            /\ e.refs = {y \in heard.refs : y[2] # t}
            BY <2>7, CleanUpTargetEffect
      <2>9. d = e
            BY <1>2, <1>4 DEF heard, without
      <2> HIDE DEF d, e
      <2>10. Going(c, heard)
             BY <1>1, <2>2, <2>5, <2>7, GoingTrans DEF Ready
      <2>11. Going(c, e)
             BY <1>1, <2>7, <2>8, <2>10, GoingTrans DEF Ready, Moved, Going
      <2>12. Matched(e)
             <3>1. Chased(c) => Chased(e)
                   BY <2>3, <2>7, <2>8 DEF Chased, Busy, Lookups, Wanted
             <3>2. /\ DOMAIN e.views = DOMAIN c.views \ {t}
                   /\ \A y \in DOMAIN e.views : e.views[y].limbo = c.views[y].limbo
                   BY <2>2, <2>7, <2>8 DEF SameViews
             <3>3. e.refs = {y \in c.refs : y[2] # t}
                   BY <2>3, <2>7, <2>8
             <3>4. Follows(c, e)
                   BY <3>1, <3>2, <3>3, FollowsWithout
             <3> QED BY <2>3, <2>7, <2>8, <3>2, <3>4 DEF Matched, Moved, Follows
      <2> QED BY <2>8, <2>9, <2>11, <2>12 DEF d
<1> QED BY <1>3, <1>4

-----------------------------------------------------------------------------
(* Counting messages, and what the aggregator may believe.                 *)

\* Numbers moved along stay as many.
LEMMA Shifted ==
  ASSUME NEW J \in SUBSET Nat, IsFiniteSet(J), NEW k \in Nat
  PROVE  IsFiniteSet({j + k : j \in J}) /\ Cardinality({j + k : j \in J}) = Cardinality(J)
<1> DEFINE K == {j + k : j \in J}
           f == [j \in J |-> j + k]
<1>1. f \in Bijection(J, K)
      <2>1. f \in [J -> K]
            OBVIOUS
      <2>2. \A i, j \in J : f[i] = f[j] => i = j
            OBVIOUS
      <2>3. \A y \in K : \E j \in J : f[j] = y
            OBVIOUS
      <2> HIDE DEF f, K
      <2> QED BY <2>1, <2>2, <2>3 DEF Bijection, Injection, Surjection, IsInjective
<1>2. ExistsBijection(J, K)
      BY <1>1 DEF ExistsBijection
<1> QED BY <1>2, FS_Bijection

\* The places that are counted are finitely many.
LEMMA CountFinite ==
  ASSUME NEW S, NEW s \in Seq(S), NEW A
  PROVE  LET I == {i \in DOMAIN s : s[i] \in A}
         IN  IsFiniteSet(I) /\ I \in SUBSET Nat /\ Cardinality(I) \in Nat /\ I \subseteq 1 .. Len(s)
<1>1. DOMAIN s = 1 .. Len(s) /\ Len(s) \in Nat
      BY LenProperties
<1>2. IsFiniteSet(1 .. Len(s))
      BY <1>1, FS_Interval
<1>3. {i \in DOMAIN s : s[i] \in A} \subseteq 1 .. Len(s)
      BY <1>1
<1>4. IsFiniteSet({i \in DOMAIN s : s[i] \in A})
      BY <1>2, <1>3, FS_Subset
<1> QED BY <1>1, <1>3, <1>4, FS_CardinalityType

\* The count of two sequences, one after the other.
LEMMA CountConcat ==
  ASSUME NEW S, NEW s \in Seq(S), NEW u \in Seq(S), NEW A
  PROVE  Count(s \o u, A) = Count(s, A) + Count(u, A)
<1> DEFINE I == {i \in DOMAIN s : s[i] \in A}
           J == {i \in DOMAIN u : u[i] \in A}
           K == {i \in DOMAIN (s \o u) : (s \o u)[i] \in A}
           L == {j + Len(s) : j \in J}
<1>1. /\ DOMAIN s = 1 .. Len(s) /\ DOMAIN u = 1 .. Len(u) /\ Len(s) \in Nat /\ Len(u) \in Nat
      /\ DOMAIN (s \o u) = 1 .. Len(s) + Len(u)
      /\ \A i \in 1 .. Len(s) : (s \o u)[i] = s[i]
      /\ \A i \in 1 .. Len(u) : (s \o u)[i + Len(s)] = u[i]
      <2>1. /\ s \o u \in Seq(S) /\ Len(s \o u) = Len(s) + Len(u)
            /\ \A i \in 1 .. Len(s) + Len(u) :
                 (s \o u)[i] = IF i <= Len(s) THEN s[i] ELSE u[i - Len(s)]
            BY ConcatProperties
      <2>2. DOMAIN s = 1 .. Len(s) /\ DOMAIN u = 1 .. Len(u) /\ Len(s) \in Nat /\ Len(u) \in Nat
            BY LenProperties
      <2>3. DOMAIN (s \o u) = 1 .. Len(s) + Len(u)
            BY <2>1, LenProperties
      <2>4. \A i \in 1 .. Len(s) : (s \o u)[i] = s[i]
            BY <2>1, <2>2
      <2>5. ASSUME NEW i \in 1 .. Len(u) PROVE (s \o u)[i + Len(s)] = u[i]
            <3>1. i + Len(s) \in 1 .. Len(s) + Len(u) /\ ~(i + Len(s) <= Len(s))
                  /\ i + Len(s) - Len(s) = i
                  BY <2>2
            <3> QED BY <2>1, <3>1
      <2> QED BY <2>2, <2>3, <2>4, <2>5
<1>2. /\ IsFiniteSet(I) /\ I \subseteq 1 .. Len(s) /\ Cardinality(I) \in Nat
      /\ IsFiniteSet(J) /\ J \in SUBSET Nat /\ J \subseteq 1 .. Len(u) /\ Cardinality(J) \in Nat
      <2>1. LET X == {i \in DOMAIN s : s[i] \in A}
            IN  IsFiniteSet(X) /\ X \in SUBSET Nat /\ Cardinality(X) \in Nat
                /\ X \subseteq 1 .. Len(s)
            BY CountFinite
      <2>2. LET X == {i \in DOMAIN u : u[i] \in A}
            IN  IsFiniteSet(X) /\ X \in SUBSET Nat /\ Cardinality(X) \in Nat
                /\ X \subseteq 1 .. Len(u)
            BY CountFinite
      <2> QED BY <2>1, <2>2
<1>3. IsFiniteSet(L) /\ Cardinality(L) = Cardinality(J)
      BY <1>1, <1>2, Shifted
<1>4. K = I \union L
      <2>1. I \subseteq K
            BY <1>1
      <2>2. L \subseteq K
            BY <1>1
      <2>3. ASSUME NEW i \in K, i \notin I PROVE i \in L
            <3>1. i \in 1 .. Len(s) + Len(u) /\ (s \o u)[i] \in A
                  BY <1>1
            <3>2. ~(i \in 1 .. Len(s))
                  BY <1>1, <2>3, <3>1
            <3>3. i - Len(s) \in 1 .. Len(u) /\ i = (i - Len(s)) + Len(s)
                  BY <1>1, <3>1, <3>2
            <3>4. u[i - Len(s)] \in A
                  BY <1>1, <3>1, <3>3
            <3> QED BY <1>1, <3>3, <3>4
      <2> QED BY <2>1, <2>2, <2>3
<1>5. I \intersect L = {}
      BY <1>1, <1>2
<1> HIDE DEF I, J, K, L
<1>6. Cardinality(K) = Cardinality(I) + Cardinality(J)
      <2>1. Cardinality(I \union L) = Cardinality(I) + Cardinality(L) - Cardinality(I \intersect L)
            BY <1>2, <1>3, FS_Union
      <2>2. Cardinality(I \intersect L) = 0
            BY <1>5, FS_EmptySet
      <2> QED BY <1>2, <1>3, <1>4, <2>1, <2>2
<1> QED BY <1>6 DEF Count, I, J, K

\* The count without the first.
LEMMA CountTail ==
  ASSUME NEW S, NEW s \in Seq(S), s # <<>>, NEW A
  PROVE  Count(s, A) = Count(Tail(s), A) + (IF Head(s) \in A THEN 1 ELSE 0)
<1> DEFINE I == {i \in DOMAIN s : s[i] \in A}
           J == {i \in DOMAIN Tail(s) : Tail(s)[i] \in A}
           L == {j + 1 : j \in J}
<1>1. /\ DOMAIN s = 1 .. Len(s) /\ Len(s) \in Nat /\ Len(s) > 0
      /\ Tail(s) \in Seq(S) /\ DOMAIN Tail(s) = 1 .. Len(s) - 1
      /\ \A i \in 1 .. Len(s) - 1 : Tail(s)[i] = s[i + 1]
      /\ Head(s) = s[1]
      <2>1. /\ Head(s) \in S /\ Tail(s) \in Seq(S) /\ Len(Tail(s)) = Len(s) - 1
            /\ \A i \in 1 .. Len(Tail(s)) : Tail(s)[i] = s[i + 1]
            BY HeadTailProperties
      <2> QED BY <2>1, LenProperties
<1>2. /\ IsFiniteSet(J) /\ J \in SUBSET Nat /\ J \subseteq 1 .. Len(s) - 1 /\ Cardinality(J) \in Nat
      <2>1. LET X == {i \in DOMAIN Tail(s) : Tail(s)[i] \in A}
            IN  IsFiniteSet(X) /\ X \in SUBSET Nat /\ Cardinality(X) \in Nat
            <3>1. PICK w \in Seq(S) : w = Tail(s)
                  BY <1>1
            <3>2. LET X == {i \in DOMAIN w : w[i] \in A}
                  IN  /\ IsFiniteSet(X) /\ X \in SUBSET Nat /\ Cardinality(X) \in Nat
                      /\ X \subseteq 1 .. Len(w)
                  BY CountFinite
            <3> QED BY <3>1, <3>2
      <2> QED BY <1>1, <2>1
<1>3. IsFiniteSet(L) /\ Cardinality(L) = Cardinality(J)
      BY <1>2, Shifted
<1>4. I = IF Head(s) \in A THEN L \union {1} ELSE L
      <2>1. L \subseteq I
            BY <1>1
      <2>2. ASSUME NEW i \in I, i # 1 PROVE i \in L
            <3>1. i - 1 \in 1 .. Len(s) - 1 /\ i = (i - 1) + 1
                  BY <1>1, <2>2
            <3>2. Tail(s)[i - 1] \in A
                  BY <1>1, <3>1
            <3> QED BY <1>1, <3>1, <3>2
      <2>3. 1 \in I <=> Head(s) \in A
            BY <1>1
      <2>4. 1 \notin L
            BY <1>1, <1>2
      <2> HIDE DEF I, L
      <2>5. CASE Head(s) \in A
            BY <2>1, <2>2, <2>3, <2>5
      <2>6. CASE Head(s) \notin A
            BY <2>1, <2>2, <2>3, <2>6
      <2> QED BY <2>5, <2>6
<1>5. 1 \notin L
      BY <1>1, <1>2
<1> HIDE DEF I, J, L
<1>6. Cardinality(I) = Cardinality(J) + (IF Head(s) \in A THEN 1 ELSE 0)
      <2>1. Cardinality(L \union {1}) = Cardinality(L) + 1
            BY <1>3, <1>5, FS_AddElement
      <2> QED BY <1>2, <1>3, <1>4, <2>1
<1> QED BY <1>6 DEF Count, I, J

\* The messages of the server.
MessageType ==
  [type : {"added", "removed", "rejected"}, target : Targets]
    \union [type : {"documents"}, target : Targets, found : Partial(Docs, Status),
            removed : Partial(Docs, {"gone", Unnamed})]
    \union [type : {"filter"}, target : Targets, count : Nat]
    \union [type : {"current"}, target : Targets, token : Tokens]
    \union [type : {"snapshot"}, target : {Nothing}, tokens : Partial(Targets, Tokens)]

\* Those that acknowledge a request of t.
AcksOf(t) == {m \in MessageType : m.type \in {"added", "removed"} /\ m.target = t}

\* The aggregator waits for the requests the server has not seen and for the
\* acknowledgements among the messages s, and for no more.
Counted(c, s) == \A t \in Targets : MayListen(t) => Balance(c, t) = Count(s, AcksOf(t))

\* Documents recorded as modified or removed are among the keys.
Truthful(s, keys) == \A d \in DOMAIN s.changes : s.changes[d] \in {"modified", "removed"}
  => d \in keys

\* Nothing is recorded of a target the server refuses.  Of one that is listened to
\* and owed no acknowledgement, what is recorded is truthful and will be raised.
Heeds(c) ==
  \A t \in Targets :
    LET s == StateOf(c.aggregator, t)
    IN  /\ ~MayListen(t) => DOMAIN s.changes = {}
        /\ t \in DOMAIN c.targets /\ s.outstanding = 0 =>
             Truthful(s, KeysOf(c, t)) /\ (~s.dirty => DOMAIN s.changes = {})

\* Steps that talk and are steady keep both.
LEMMA HeedsKept ==
  ASSUME NEW c \in ClientType, NEW d \in ClientType, Linked(c), Talk(c, d), Steady(c, d),
         NEW s \in Seq(MessageType), Heeds(c), Counted(c, s)
  PROVE  Heeds(d) /\ Counted(d, s)
<1>1. Counted(d, s)
      BY DEF Counted, Talk
<1>2. ASSUME NEW t \in Targets
      PROVE  LET s2 == StateOf(d.aggregator, t)
             IN  /\ ~MayListen(t) => DOMAIN s2.changes = {}
                 /\ t \in DOMAIN d.targets /\ s2.outstanding = 0 =>
                      Truthful(s2, KeysOf(d, t)) /\ (~s2.dirty => DOMAIN s2.changes = {})
      <2> DEFINE s1 == StateOf(c.aggregator, t)
                 s2 == StateOf(d.aggregator, t)
      <2>1. /\ s2.changes = s1.changes /\ s2.dirty = s1.dirty
            /\ s1.outstanding = Owed(c, t) /\ s2.outstanding = Owed(d, t)
            BY DEF Talk, Owed
      <2>2. /\ ~MayListen(t) => DOMAIN s1.changes = {}
            /\ t \in DOMAIN c.targets /\ s1.outstanding = 0 =>
                 Truthful(s1, KeysOf(c, t)) /\ (~s1.dirty => DOMAIN s1.changes = {})
            BY DEF Heeds
      <2> HIDE DEF s1, s2
      <2>3. CASE DOMAIN s1.changes = {}
            BY <2>1, <2>3 DEF Truthful, s2
      <2>4. CASE DOMAIN s1.changes # {}
            <3>1. MayListen(t)
                  BY <2>2, <2>4
            <3>2. IsOpen(c.stream)
                  <4>1. ASSUME ~IsOpen(c.stream) PROVE FALSE
                        <5>1. c.aggregator = NewAggregator
                              BY <4>1 DEF Linked
                        <5>2. s1 = NewTargetState
                              BY <5>1 DEF s1, StateOf, NewAggregator, NoEntries
                        <5> QED BY <2>4, <5>2 DEF NewTargetState, NoEntries
                  <4> QED BY <4>1
            <3>3. Owed(c, t) \in Nat
                  <4>1. Owed(c, t) \in Int /\ Count(c.requests, RequestsOf(t)) \in Nat
                        BY OwedType
                  <4>2. Count(s, AcksOf(t)) \in Nat
                        BY CountType
                  <4> QED BY <3>1, <4>1, <4>2 DEF Counted, Balance
            <3>4. Owed(d, t) >= Owed(c, t) /\ Owed(d, t) \in Int
                  BY OwedType DEF Talk
            <3>5. ASSUME t \in DOMAIN d.targets, s2.outstanding = 0
                  PROVE  Truthful(s2, KeysOf(d, t)) /\ (~s2.dirty => DOMAIN s2.changes = {})
                  <4>1. Owed(c, t) = 0 /\ Owed(d, t) = 0
                        BY <2>1, <3>3, <3>4, <3>5
                  <4>2. t \in DOMAIN c.targets /\ KeysOf(d, t) = KeysOf(c, t)
                        BY <2>4, <3>2, <3>5, <4>1 DEF Steady, s1
                  <4> QED BY <2>1, <2>2, <4>1, <4>2 DEF Truthful
            <3> QED BY <3>1, <3>5 DEF s2
      <2> QED BY <2>3, <2>4
<1> QED BY <1>1, <1>2 DEF Heeds

-----------------------------------------------------------------------------
(* The aggregator.                                                         *)

\* b is what a becomes when the server speaks of t, whose documents are keys.
Revised(a, b, t, keys) ==
  /\ b \in AggregatorType
  /\ \A u : u # t => StateOf(b, u) = StateOf(a, u)
  /\ StateOf(b, t).outstanding = StateOf(a, t).outstanding
  /\ Truthful(StateOf(a, t), keys) => Truthful(StateOf(b, t), keys)
  /\ StateOf(b, t) = StateOf(a, t) \/ StateOf(b, t).dirty

\* It may have said nothing new.
LEMMA RevisedSelf ==
  ASSUME NEW a \in AggregatorType, NEW t, NEW keys
  PROVE  Revised(a, a, t, keys)
BY DEF Revised

\* The server has said all there is of t.
LEMMA TargetCurrentRevised ==
  ASSUME NEW a \in AggregatorType, NEW t \in Targets, NEW keys, NEW token \in Tokens, NEW tracked
  PROVE  Revised(a, TargetCurrent(a, t, token, tracked), t, keys)
<1> DEFINE s == StateOf(a, t)
           s1 == [s EXCEPT !.current = TRUE, !.dirty = TRUE, !.token = token]
<1>1. s \in TargetStateType
      BY StateType
<1>2. /\ s1 \in TargetStateType /\ s1.outstanding = s.outstanding /\ s1.changes = s.changes
      /\ s1.dirty
      BY <1>1 DEF TargetStateType
<1> HIDE DEF s1
<1>3. /\ WithState(a, t, s1) \in AggregatorType /\ StateOf(WithState(a, t, s1), t) = s1
      /\ \A u : u # t => StateOf(WithState(a, t, s1), u) = StateOf(a, u)
      BY <1>2, WithStateType
<1>4. Revised(a, WithState(a, t, s1), t, keys)
      BY <1>2, <1>3 DEF Revised, Truthful
<1> QED BY <1>4, RevisedSelf DEF TargetCurrent, s1

\* The server sends documents, or says they are gone.
LEMMA HandleDocumentChangeRevised ==
  ASSUME NEW a \in AggregatorType, NEW t \in Targets, NEW found \in Partial(Docs, Status),
         NEW removed \in Partial(Docs, {"gone", Unnamed}), NEW keys \in SUBSET Docs, NEW tracked
  PROVE  /\ Revised(a, HandleDocumentChange(a, t, found, removed, keys, tracked), t, keys)
         /\ HandleDocumentChange(a, t, found, removed, keys, tracked).resets = a.resets
<1> DEFINE s == StateOf(a, t)
           left == DOMAIN removed
           before == s.changes
           rest == Restrict(before, DOMAIN before \ left)
           gone == [d \in left \intersect keys |-> "removed"]
           after == Overlay(gone, rest)
           come == [d \in DOMAIN found |-> IF d \in keys THEN "modified" ELSE "added"]
           changes == Overlay(come, after)
           named == {d \in left : removed[d] # Unnamed}
           s1 == [s EXCEPT !.dirty = TRUE, !.changes = changes]
           documents == Overlay(found, Overlay(Restrict(removed, named), a.documents))
           b == [WithState(a, t, s1) EXCEPT !.documents = documents]
           Hows == {"added", "modified", "removed"}
<1>1. /\ s \in TargetStateType /\ before \in Partial(Docs, Hows)
      BY StateType DEF TargetStateType
<1>2. /\ left \subseteq Docs /\ IsFiniteSet(left)
         /\ \A d \in left : removed[d] \in {"gone", Unnamed}
      /\ DOMAIN found \subseteq Docs /\ IsFiniteSet(DOMAIN found)
      BY PartialOut
<1>3. HandleDocumentChange(a, t, found, removed, keys, tracked)
        = IF IsActive(a, t, tracked) THEN b ELSE a
      <2>1. b = [WithState(a, t, s1) EXCEPT
                   !.documents = Overlay(found, Overlay(Restrict(removed, named), @))]
            BY DEF WithState, AggregatorType
      <2> QED BY <2>1 DEF HandleDocumentChange
<1>4. changes \in Partial(Docs, Hows)
      <2>1. rest \in Partial(Docs, Hows)
            BY <1>1, PartialRestrict
      <2>2. gone \in Partial(Docs, Hows)
            <3>1. left \intersect keys \in SUBSET Docs /\ IsFiniteSet(left \intersect keys)
                  BY <1>2, FS_Subset
            <3>2. gone \in [left \intersect keys -> Hows]
                  OBVIOUS
            <3> QED BY <3>1, <3>2, PartialIn
      <2>3. come \in Partial(Docs, Hows)
            <3>1. come \in [DOMAIN found -> Hows]
                  OBVIOUS
            <3> QED BY <1>2, <3>1, PartialIn
      <2> HIDE DEF rest, gone, come
      <2>4. after \in Partial(Docs, Hows)
            BY <2>1, <2>2, PartialOverlay
      <2> QED BY <2>3, <2>4, PartialOverlay
<1>5. ASSUME Truthful(s, keys), NEW d \in DOMAIN changes, changes[d] \in {"modified", "removed"}
      PROVE  d \in keys
      <2>1. CASE d \in DOMAIN found
            BY <1>5, <2>1 DEF Overlay
      <2>2. CASE d \notin DOMAIN found /\ d \in left \intersect keys
            BY <2>2
      <2>3. CASE d \notin DOMAIN found /\ d \notin left \intersect keys
            <3>1. d \in DOMAIN before /\ changes[d] = before[d]
                  BY <2>3 DEF Overlay, Restrict
            <3> QED BY <1>5, <3>1 DEF Truthful
      <2> QED BY <2>1, <2>2, <2>3
<1>6. documents \in Partial(Docs, Status)
      <2>1. Restrict(removed, named) \in Partial(Docs, Status)
            <3>1. named \in SUBSET Docs /\ IsFiniteSet(named)
                  BY <1>2, FS_Subset
            <3>2. \A d \in named : removed[d] \in Status
                  BY <1>2 DEF Status
            <3>3. Restrict(removed, named) \in [named -> Status]
                  BY <3>2 DEF Restrict
            <3> QED BY <3>1, <3>3, PartialIn
      <2>2. a.documents \in Partial(Docs, Status)
            BY DEF AggregatorType
      <2> HIDE DEF named
      <2>3. Overlay(Restrict(removed, named), a.documents) \in Partial(Docs, Status)
            BY <2>1, <2>2, PartialOverlay
      <2> QED BY <2>3, PartialOverlay
<1> HIDE DEF changes, documents
<1>7. s1 \in TargetStateType /\ s1.outstanding = s.outstanding /\ s1.dirty /\ s1.changes = changes
      BY <1>1, <1>4 DEF TargetStateType
<1> HIDE DEF s1
<1>8. /\ WithState(a, t, s1) \in AggregatorType /\ StateOf(WithState(a, t, s1), t) = s1
      /\ \A u : u # t => StateOf(WithState(a, t, s1), u) = StateOf(a, u)
      /\ WithState(a, t, s1).resets = a.resets
      BY <1>7, WithStateType
<1>9. /\ b \in AggregatorType /\ b.targets = WithState(a, t, s1).targets /\ b.resets = a.resets
      BY <1>6, <1>8 DEF AggregatorType
<1> HIDE DEF b
<1>10. \A u : StateOf(b, u) = StateOf(WithState(a, t, s1), u)
       BY <1>9 DEF StateOf
<1>11. Revised(a, b, t, keys)
       <2>1. Truthful(s, keys) => Truthful(s1, keys)
             BY <1>5, <1>7 DEF Truthful
       <2> QED BY <1>7, <1>8, <1>9, <1>10, <2>1 DEF Revised
<1> QED BY <1>3, <1>9, <1>11, RevisedSelf

\* The server counts the documents of t; a count that differs resets it.
LEMMA HandleExistenceFilterRevised ==
  ASSUME NEW a \in AggregatorType, NEW t \in Targets, NEW count, NEW key \in SUBSET Docs,
         NEW keys \in SUBSET Docs, NEW tracked
  PROVE  Revised(a, HandleExistenceFilter(a, t, count, key, keys, tracked), t, keys)
<1> DEFINE b == HandleExistenceFilter(a, t, count, key, keys, tracked)
           gone == [d \in key |-> "gone"]
           dropped == [d \in keys |-> Unnamed]
           fresh == WithState(a, t, NewTargetState)
           reset == HandleDocumentChange(fresh, t, NoEntries, dropped, keys, tracked)
           counted == Cardinality(keys) + Cardinality(Changed(StateOf(a, t), "added"))
                        - Cardinality(Changed(StateOf(a, t), "removed"))
<1>1. b = IF ~IsActive(a, t, tracked) THEN a
          ELSE IF key # {}
          THEN IF count = 0 THEN HandleDocumentChange(a, t, NoEntries, gone, keys, tracked) ELSE a
          ELSE IF counted = count THEN a ELSE [reset EXCEPT !.resets = @ \union {t}]
      BY DEF HandleExistenceFilter, ResetTarget
<1> HIDE DEF b, counted
<1>2. NoEntries \in Partial(Docs, Status)
      BY PartialNone
<1>3. gone \in Partial(Docs, {"gone", Unnamed})
      <2>1. IsFiniteSet(key) /\ gone \in [key -> {"gone", Unnamed}]
            BY DocsAssumption, FS_Subset
      <2> QED BY <2>1, PartialIn
<1>4. dropped \in Partial(Docs, {"gone", Unnamed})
      <2>1. IsFiniteSet(keys) /\ dropped \in [keys -> {"gone", Unnamed}]
            BY DocsAssumption, FS_Subset
      <2> QED BY <2>1, PartialIn
<1> HIDE DEF gone, dropped
<1>5. Revised(a, HandleDocumentChange(a, t, NoEntries, gone, keys, tracked), t, keys)
      BY <1>2, <1>3, HandleDocumentChangeRevised
<1>6. ASSUME IsActive(a, t, tracked)
      PROVE  Revised(a, [reset EXCEPT !.resets = @ \union {t}], t, keys)
      <2>1. NewTargetState \in TargetStateType
            BY PartialNone DEF NewTargetState, TargetStateType, Tokens
      <2>2. /\ fresh \in AggregatorType /\ StateOf(fresh, t) = NewTargetState
            /\ \A u : u # t => StateOf(fresh, u) = StateOf(a, u)
            BY <2>1, WithStateType
      <2> HIDE DEF fresh
      <2>3. Revised(fresh, reset, t, keys)
            BY <1>2, <1>4, <2>2, HandleDocumentChangeRevised
      <2> HIDE DEF reset
      <2> DEFINE e == [reset EXCEPT !.resets = @ \union {t}]
      <2>4. e \in AggregatorType /\ e.targets = reset.targets
            BY <2>3 DEF Revised, AggregatorType
      <2> HIDE DEF e
      <2>5. \A u : StateOf(e, u) = StateOf(reset, u)
            BY <2>4 DEF StateOf
      <2>6. Truthful(NewTargetState, keys) /\ NewTargetState.dirty /\ NewTargetState.outstanding = 0
            BY DEF Truthful, NewTargetState, NoEntries
      <2>7. StateOf(a, t).outstanding = 0
            BY <1>6 DEF IsActive, IsPending
      <2> QED BY <2>2, <2>3, <2>4, <2>5, <2>6, <2>7 DEF Revised, e
<1> QED BY <1>1, <1>5, <1>6, RevisedSelf DEF b

\* Records are cleared, and nothing that is waited for.
LEMMA ClearedType ==
  ASSUME NEW s \in TargetStateType
  PROVE  /\ ClearPendingChanges(s) \in TargetStateType
         /\ ClearPendingChanges(s).outstanding = s.outstanding
         /\ DOMAIN ClearPendingChanges(s).changes = {}
<1>1. NoEntries \in Partial(Docs, {"added", "modified", "removed"}) /\ DOMAIN NoEntries = {}
      BY PartialNone
<1> QED BY <1>1 DEF ClearPendingChanges, TargetStateType

\* An acknowledgement counts down, and the last one clears what was recorded.
Acknowledges(a, b, t) ==
  /\ b \in AggregatorType
  /\ \A u : u # t => StateOf(b, u) = StateOf(a, u)
  /\ StateOf(b, t).outstanding = StateOf(a, t).outstanding - 1
  /\ StateOf(b, t).outstanding = 0 \/ DOMAIN StateOf(a, t).changes = {}
       => DOMAIN StateOf(b, t).changes = {}

\* The aggregator forgets a target.
LEMMA RemoveTargetEffect ==
  ASSUME NEW a \in AggregatorType, NEW t
  PROVE  /\ RemoveTarget(a, t) \in AggregatorType
         /\ StateOf(RemoveTarget(a, t), t) = NewTargetState
         /\ \A u : u # t => StateOf(RemoveTarget(a, t), u) = StateOf(a, u)
<1> DEFINE f == Restrict(a.targets, DOMAIN a.targets \ {t})
<1>1. a.targets \in Partial(Targets, TargetStateType)
      BY DEF AggregatorType
<1>2. f \in Partial(Targets, TargetStateType)
      BY <1>1, PartialRestrict
<1>3. DOMAIN f = DOMAIN a.targets \ {t} /\ \A u \in DOMAIN f : f[u] = a.targets[u]
      BY DEF Restrict
<1>4. RemoveTarget(a, t) = [a EXCEPT !.targets = f]
      BY DEF RemoveTarget
<1> HIDE DEF f
<1>5. RemoveTarget(a, t) \in AggregatorType /\ RemoveTarget(a, t).targets = f
      BY <1>2, <1>4 DEF AggregatorType
<1> QED BY <1>3, <1>5 DEF StateOf

\* The server acknowledges a listen.
LEMMA TargetAddedAcknowledges ==
  ASSUME NEW a \in AggregatorType, NEW t \in Targets
  PROVE  Acknowledges(a, TargetAdded(a, t), t)
<1> DEFINE s == [StateOf(a, t) EXCEPT !.outstanding = @ - 1]
           s1 == IF s.outstanding = 0 THEN ClearPendingChanges(s) ELSE s
<1>1. StateOf(a, t) \in TargetStateType
      BY StateType
<1>2. /\ s \in TargetStateType /\ s.outstanding = StateOf(a, t).outstanding - 1
      /\ s.changes = StateOf(a, t).changes
      BY <1>1 DEF TargetStateType
<1>3. TargetAdded(a, t) = WithState(a, t, s1)
      BY DEF TargetAdded
<1> HIDE DEF s
<1>4. /\ s1 \in TargetStateType /\ s1.outstanding = s.outstanding
      /\ s1.outstanding = 0 \/ DOMAIN s.changes = {} => DOMAIN s1.changes = {}
      BY <1>2, ClearedType
<1> HIDE DEF s1
<1>5. /\ WithState(a, t, s1) \in AggregatorType /\ StateOf(WithState(a, t, s1), t) = s1
      /\ \A u : u # t => StateOf(WithState(a, t, s1), u) = StateOf(a, u)
      BY <1>4, WithStateType
<1> QED BY <1>2, <1>3, <1>4, <1>5 DEF Acknowledges

\* The server acknowledges an unlisten.
LEMMA TargetRemovedAcknowledges ==
  ASSUME NEW a \in AggregatorType, NEW t \in Targets
  PROVE  Acknowledges(a, TargetRemoved(a, t), t)
<1> DEFINE s == [StateOf(a, t) EXCEPT !.outstanding = @ - 1]
<1>1. StateOf(a, t) \in TargetStateType
      BY StateType
<1>2. /\ s \in TargetStateType /\ s.outstanding = StateOf(a, t).outstanding - 1
      /\ s.changes = StateOf(a, t).changes
      BY <1>1 DEF TargetStateType
<1>3. TargetRemoved(a, t) = IF s.outstanding = 0 THEN RemoveTarget(a, t) ELSE WithState(a, t, s)
      BY DEF TargetRemoved
<1> HIDE DEF s
<1>4. CASE s.outstanding = 0
      <2>1. /\ RemoveTarget(a, t) \in AggregatorType
            /\ StateOf(RemoveTarget(a, t), t) = NewTargetState
            /\ \A u : u # t => StateOf(RemoveTarget(a, t), u) = StateOf(a, u)
            BY RemoveTargetEffect
      <2>2. NewTargetState.outstanding = 0 /\ DOMAIN NewTargetState.changes = {}
            BY PartialNone DEF NewTargetState
      <2> QED BY <1>2, <1>3, <1>4, <2>1, <2>2 DEF Acknowledges
<1>5. CASE s.outstanding # 0
      <2>1. /\ WithState(a, t, s) \in AggregatorType /\ StateOf(WithState(a, t, s), t) = s
            /\ \A u : u # t => StateOf(WithState(a, t, s), u) = StateOf(a, u)
            BY <1>2, WithStateType
      <2> QED BY <1>2, <1>3, <1>5, <2>1 DEF Acknowledges
<1> QED BY <1>4, <1>5

-----------------------------------------------------------------------------
(* The watch stream takes a message.                                       *)

\* The key of a target is a set of documents.
LEMMA KeyOfType ==
  ASSUME NEW t \in Targets
  PROVE  KeyOf(t) \in SUBSET Docs
<1>1. CASE t = Deck
      BY <1>1 DEF KeyOf
<1>2. CASE t # Deck /\ t \in Docs
      BY <1>2 DEF KeyOf
<1>3. CASE t # Deck /\ t \notin Docs
      <2>1. t \in Docs \X Nat
            BY <1>3 DEF Targets
      <2>2. KeyOf(t) = {t[1]} /\ t[1] \in Docs
            BY <2>1, KeyOfLookup
      <2> QED BY <2>2
<1> QED BY <1>1, <1>2, <1>3

\* So are the documents the client has for it.
LEMMA KeysOfType ==
  ASSUME NEW c \in ClientType, NEW t
  PROVE  KeysOf(c, t) \in SUBSET Docs
<1>1. t \in DOMAIN c.views => c.views[t] \in ViewType
      BY PartialOut DEF ClientType
<1>2. c.received \in SUBSET Docs
      BY DEF ClientType
<1> QED BY <1>1, <1>2 DEF KeysOf, ViewType

\* A change of the online state keeps the client in order.
LEMMA UpdateStateReady ==
  ASSUME NEW c, Ready(c), NEW state \in OnlineStates
  PROVE  LET d == UpdateState(c, state)
         IN  Ready(d) /\ Moved(c, d) /\ Same(c, d, Link) /\ Aside(c, d)
<1> DEFINE d == UpdateState(c, state)
<1>1. c \in ClientType
      BY DEF Ready
<1>2. Aside(c, d) /\ Same(c, d, Link) /\ d.online = state /\ ~d.timer /\ ~d.failed
      /\ d \in ClientType
      BY <1>1, UpdateStateAside DEF Aside
<1> HIDE DEF d
<1>3. /\ d.active = c.active /\ d.received = c.received /\ d.waiting = c.waiting
      /\ DOMAIN d.views = DOMAIN c.views /\ d.targets = c.targets /\ d.network = c.network
      /\ d.requests = c.requests /\ d.aggregator = c.aggregator /\ d.stream = c.stream
      BY <1>2 DEF Aside, Same, Fixed, SameViews, Link
<1>4. Linked(d) /\ Awake(d) /\ Fits(d)
      BY <1>2, <1>3 DEF Ready, Fits, Linked, Awake
<1>5. Talk(c, d)
      BY <1>1, <1>3, TalkSame
<1>6. Moved(c, d)
      BY <1>1, <1>2, <1>3, <1>5, AsideMoved
<1> QED BY <1>2, <1>4, <1>6 DEF Ready, d

\* What the server said goes into the aggregator.
LEMMA IntoEffect ==
  ASSUME NEW c, Ready(c), IsOpen(c.stream), NEW a \in AggregatorType
  PROVE  LET d == [c EXCEPT !.aggregator = a]
         IN  /\ Ready(d) /\ Quiet(c, d) /\ d.aggregator = a /\ \A t : KeysOf(d, t) = KeysOf(c, t)
             /\ Same(c, d, Fixed \union Meta \union {"targets", "requests", "stream"})
<1> DEFINE d == [c EXCEPT !.aggregator = a]
<1>1. c \in ClientType
      BY DEF Ready
<1>2. /\ d \in ClientType /\ d.aggregator = a
      /\ Same(c, d, Fixed \union Meta \union {"targets", "requests", "stream"})
      BY <1>1 DEF ClientType, Same, Fixed, Meta
<1> HIDE DEF d
<1>3. /\ d.active = c.active /\ d.received = c.received /\ d.waiting = c.waiting
      /\ d.views = c.views /\ d.targets = c.targets /\ d.network = c.network
      /\ d.requests = c.requests /\ d.stream = c.stream /\ d.online = c.online
      /\ d.timer = c.timer /\ d.failed = c.failed /\ Same(c, d, {"events", "queries"})
      BY <1>2 DEF Same, Fixed, Meta
<1>4. Linked(d) /\ Awake(d) /\ Fits(d)
      BY <1>3 DEF Ready, Fits, Linked, Awake
<1>5. Quiet(c, d)
      BY <1>1, <1>3, QuietSame
<1>6. \A t : KeysOf(d, t) = KeysOf(c, t)
      BY <1>3 DEF KeysOf
<1> QED BY <1>2, <1>4, <1>5, <1>6 DEF Ready, d

\* A message that acknowledges nothing is not missed.
LEMMA CountsTail ==
  ASSUME NEW c, NEW s \in Seq(MessageType), s # <<>>, Counted(c, s),
         Head(s).type \notin {"added", "removed"}
  PROVE  Counted(c, Tail(s))
<1>1. PICK w : w = Tail(s)
      OBVIOUS
<1>2. w \in Seq(MessageType)
      BY <1>1
<1>3. ASSUME NEW t \in Targets
      PROVE  Count(s, AcksOf(t)) = Count(w, AcksOf(t))
      <2>1. Head(s) \notin AcksOf(t)
            BY DEF AcksOf
      <2>2. Count(s, AcksOf(t)) = Count(w, AcksOf(t)) + (IF Head(s) \in AcksOf(t) THEN 1 ELSE 0)
            BY <1>1, CountTail
      <2>3. Count(w, AcksOf(t)) \in Nat
            BY <1>2, CountType
      <2> QED BY <2>1, <2>2, <2>3
<1> QED BY <1>1, <1>3 DEF Counted

\* The server says something of a target the client may listen to.
LEMMA RevisedHeeds ==
  ASSUME NEW c \in ClientType, NEW d \in ClientType, NEW t \in Targets, MayListen(t), Heeds(c),
         Revised(c.aggregator, d.aggregator, t, KeysOf(c, t)), d.targets = c.targets,
         d.requests = c.requests, \A u : KeysOf(d, u) = KeysOf(c, u), NEW s, Counted(c, s)
  PROVE  Heeds(d) /\ Counted(d, s)
<1>1. \A u \in Targets : Owed(d, u) = Owed(c, u)
      BY DEF Revised, Owed
<1>2. Counted(d, s)
      BY <1>1 DEF Counted, Balance
<1>3. ASSUME NEW u \in Targets
      PROVE  LET s2 == StateOf(d.aggregator, u)
             IN  /\ ~MayListen(u) => DOMAIN s2.changes = {}
                 /\ u \in DOMAIN d.targets /\ s2.outstanding = 0 =>
                      Truthful(s2, KeysOf(d, u)) /\ (~s2.dirty => DOMAIN s2.changes = {})
      <2>1. CASE u # t
            BY <2>1 DEF Revised, Heeds
      <2>2. CASE u = t
            BY <2>2 DEF Revised, Heeds
      <2> QED BY <2>1, <2>2
<1> QED BY <1>2, <1>3 DEF Heeds

\* The server acknowledges a request.
LEMMA AcknowledgesHeeds ==
  ASSUME NEW c \in ClientType, NEW d \in ClientType, NEW t \in Targets, Heeds(c),
         Acknowledges(c.aggregator, d.aggregator, t), d.targets = c.targets,
         d.requests = c.requests, \A u : KeysOf(d, u) = KeysOf(c, u),
         NEW s \in Seq(MessageType), s # <<>>, Counted(c, s),
         Head(s).type \in {"added", "removed"}, Head(s).target = t
  PROVE  Heeds(d) /\ Counted(d, Tail(s))
<1>1. PICK w : w = Tail(s)
      OBVIOUS
<1>2. w \in Seq(MessageType) /\ Head(s) \in MessageType
      BY <1>1
<1>3. ASSUME NEW u \in Targets, MayListen(u)
      PROVE  Balance(d, u) = Count(w, AcksOf(u))
      <2>1. Count(s, AcksOf(u)) = Count(w, AcksOf(u)) + (IF Head(s) \in AcksOf(u) THEN 1 ELSE 0)
            BY <1>1, CountTail
      <2>2. Count(w, AcksOf(u)) \in Nat
            BY <1>2, CountType
      <2>3. Head(s) \in AcksOf(u) <=> u = t
            BY <1>2 DEF AcksOf
      <2>4. Owed(d, u) = IF u = t THEN Owed(c, u) - 1 ELSE Owed(c, u)
            BY DEF Owed, Acknowledges
      <2>5. Balance(c, u) = Count(s, AcksOf(u))
            BY <1>3 DEF Counted
      <2>6. Owed(c, u) \in Int /\ Count(c.requests, RequestsOf(u)) \in Nat
            BY OwedType
      <2> QED BY <2>1, <2>2, <2>3, <2>4, <2>5, <2>6 DEF Balance
<1>4. ASSUME NEW u \in Targets
      PROVE  LET s2 == StateOf(d.aggregator, u)
             IN  /\ ~MayListen(u) => DOMAIN s2.changes = {}
                 /\ u \in DOMAIN d.targets /\ s2.outstanding = 0 =>
                      Truthful(s2, KeysOf(d, u)) /\ (~s2.dirty => DOMAIN s2.changes = {})
      <2>1. CASE u # t
            BY <2>1 DEF Acknowledges, Heeds
      <2>2. CASE u = t
            BY <2>2 DEF Acknowledges, Heeds, Truthful
      <2> QED BY <2>1, <2>2
<1> QED BY <1>1, <1>3, <1>4 DEF Heeds, Counted

\* A request keeps the client in order.
LEMMA SendRequestReady ==
  ASSUME NEW c, Ready(c), IsOpen(c.stream), NEW x \in RequestType
  PROVE  LET d == SendRequest(c, x)
         IN  Ready(d) /\ Moved(c, d) /\ Same(c, d, Fixed \union Meta \union {"targets"})
<1> DEFINE d == SendRequest(c, x)
<1>1. c \in ClientType /\ c.stream.sound
      BY DEF Ready, Linked
<1>2. /\ d \in ClientType /\ Same(c, d, Fixed \union Meta \union {"targets"})
      /\ d.stream = [c.stream EXCEPT !.idle = FALSE] /\ Talk(c, d)
      BY <1>1, SendRequestEffect
<1> HIDE DEF d
<1>3. /\ d.active = c.active /\ d.received = c.received /\ d.waiting = c.waiting
      /\ d.views = c.views /\ d.targets = c.targets /\ d.network = c.network
      /\ d.online = c.online /\ d.timer = c.timer /\ d.failed = c.failed
      /\ Same(c, d, Fixed \union {"events", "queries", "views"})
      BY <1>2 DEF Same, Fixed, Meta
<1>4. /\ d.stream.sound = c.stream.sound /\ d.stream.state = c.stream.state
      /\ d.stream.asked = c.stream.asked /\ d.stream.backoff = c.stream.backoff /\ ~d.stream.idle
      BY <1>1, <1>2 DEF ClientType, StreamType
<1>5. Linked(d) /\ Awake(d) /\ Fits(d)
      BY <1>3, <1>4 DEF Ready, Fits, Linked, Awake, IsOpen, IsStarted
<1>6. Moved(c, d)
      BY <1>1, <1>2, <1>3, AsideSame, AsideMoved
<1> QED BY <1>2, <1>5, <1>6 DEF Ready, d

\* A snapshot brings tokens and no news of documents.
LEMMA UpdateResumeTokensEffect ==
  ASSUME NEW a \in AggregatorType, NEW tokens \in Partial(Targets, Tokens), NEW tracked
  PROVE  LET b == UpdateResumeTokens(a, tokens, tracked)
         IN  /\ b \in AggregatorType /\ b.resets = a.resets
             /\ \A t : /\ StateOf(b, t).outstanding = StateOf(a, t).outstanding
                       /\ StateOf(b, t).changes = StateOf(a, t).changes
                       /\ ~StateOf(b, t).dirty => ~StateOf(a, t).dirty
<1> DEFINE renewed(t) == IsActive(a, t, tracked) /\ t \in DOMAIN tokens
           f == [t \in DOMAIN a.targets |->
                   IF renewed(t) THEN [a.targets[t] EXCEPT !.dirty = TRUE, !.token = tokens[t]]
                                 ELSE a.targets[t]]
           b == [a EXCEPT !.targets = f]
<1>1. /\ DOMAIN a.targets \subseteq Targets /\ IsFiniteSet(DOMAIN a.targets)
      /\ \A t \in DOMAIN a.targets : a.targets[t] \in TargetStateType
      BY PartialOut DEF AggregatorType
<1>2. \A t \in DOMAIN tokens : tokens[t] \in Tokens
      BY PartialOut
<1>3. UpdateResumeTokens(a, tokens, tracked) = b
      BY DEF UpdateResumeTokens, AggregatorType
<1>4. ASSUME NEW t \in DOMAIN a.targets
      PROVE  /\ f[t] \in TargetStateType /\ f[t].outstanding = a.targets[t].outstanding
             /\ f[t].changes = a.targets[t].changes /\ (~f[t].dirty => ~a.targets[t].dirty)
      <2> HIDE DEF renewed
      <2>1. renewed(t) => tokens[t] \in Tokens
            BY <1>2 DEF renewed
      <2> QED BY <1>1, <2>1 DEF TargetStateType
<1>5. DOMAIN f = DOMAIN a.targets
      OBVIOUS
<1> HIDE DEF f
<1>6. f \in Partial(Targets, TargetStateType)
      <2>1. DOMAIN a.targets \in SUBSET Targets /\ f \in [DOMAIN a.targets -> TargetStateType]
            <3>1. f = [t \in DOMAIN a.targets |-> f[t]]
                  BY DEF f
            <3> QED BY <1>1, <1>4, <3>1
      <2> QED BY <1>1, <2>1, PartialIn
<1>7. b \in AggregatorType /\ b.targets = f /\ b.resets = a.resets
      BY <1>6 DEF AggregatorType
<1> HIDE DEF b
<1>8. ASSUME NEW t
      PROVE  /\ StateOf(b, t).outstanding = StateOf(a, t).outstanding
             /\ StateOf(b, t).changes = StateOf(a, t).changes
             /\ ~StateOf(b, t).dirty => ~StateOf(a, t).dirty
      <2>1. CASE t \in DOMAIN a.targets
            BY <1>4, <1>5, <1>7, <2>1 DEF StateOf
      <2>2. CASE t \notin DOMAIN a.targets
            BY <1>5, <1>7, <2>2 DEF StateOf
      <2> QED BY <2>1, <2>2
<1> QED BY <1>3, <1>7, <1>8

\* What the aggregator raises is of targets that are listened to and owed no
\* acknowledgement.
LEMMA EventOfEffect ==
  ASSUME NEW c \in ClientType, NEW a \in AggregatorType
  PROVE  LET event == EventOf(c, a)
         IN  /\ event \in RemoteEventType /\ event.mismatches = a.resets
             /\ \A t \in DOMAIN event.changes :
                  /\ t \in DOMAIN a.targets /\ t \in DOMAIN c.targets
                  /\ a.targets[t].outstanding = 0
                  /\ \/ event.changes[t].changes = a.targets[t].changes
                     \/ DOMAIN event.changes[t].changes = {}
<1> DEFINE known == DOMAIN a.targets
           tracked == DOMAIN c.targets
           key == [t \in known |-> KeyOf(t)]
           keys == [t \in known |-> KeysOf(c, t)]
           missing == Missing(a, key, keys, tracked)
           news == {t \in known : IsActive(a, t, tracked) /\ (a.targets[t].dirty \/ t \in missing)}
           settled(t) == IF t \in missing THEN [a.targets[t] EXCEPT !.changes = NoEntries]
                                          ELSE a.targets[t]
           changes == [t \in news |-> settled(t)]
           absent == [d \in UNION {key[t] : t \in missing} |-> "gone"]
           event == EventOf(c, a)
<1>1. event = [changes |-> changes, documents |-> Overlay(absent, a.documents),
               mismatches |-> a.resets]
      BY DEF EventOf, RemoteEvent
<1> HIDE DEF event
<1>2. /\ known \subseteq Targets /\ IsFiniteSet(known)
      /\ \A t \in known : a.targets[t] \in TargetStateType
      BY PartialOut DEF AggregatorType
<1>3. missing \subseteq known
      BY DEF Missing, Absent
<1>4. NoEntries \in Partial(Docs, {"added", "modified", "removed"}) /\ DOMAIN NoEntries = {}
      BY PartialNone
<1> HIDE DEF missing
<1>5. ASSUME NEW t \in news
      PROVE  /\ settled(t) \in TargetStateType
             /\ \/ settled(t).changes = a.targets[t].changes
                \/ DOMAIN settled(t).changes = {}
             /\ t \in known /\ t \in tracked /\ a.targets[t].outstanding = 0
      <2>1. t \in known /\ IsActive(a, t, tracked)
            OBVIOUS
      <2>2. t \in tracked /\ a.targets[t].outstanding = 0
            BY <2>1 DEF IsActive, IsPending, StateOf
      <2> QED BY <1>2, <1>4, <2>1, <2>2 DEF TargetStateType
<1>6. changes \in Partial(Targets, TargetStateType)
      <2>1. news \in SUBSET Targets /\ IsFiniteSet(news)
            BY <1>2, FS_Subset
      <2> HIDE DEF news, settled
      <2>2. changes \in [news -> TargetStateType]
            BY <1>5
      <2> QED BY <2>1, <2>2, PartialIn
<1>7. Overlay(absent, a.documents) \in Partial(Docs, Status)
      <2>1. a.documents \in Partial(Docs, Status)
            BY DEF AggregatorType
      <2>2. absent \in Partial(Docs, Status)
            <3>1. \A t \in missing : key[t] \in SUBSET Docs
                  BY <1>2, <1>3, KeyOfType
            <3>2. DOMAIN absent \in SUBSET Docs
                  BY <3>1
            <3>3. IsFiniteSet(DOMAIN absent)
                  BY <3>2, DocsAssumption, FS_Subset
            <3>4. absent \in [DOMAIN absent -> Status]
                  BY DEF Status
            <3> HIDE DEF absent
            <3> QED BY <3>2, <3>3, <3>4, PartialIn
      <2> HIDE DEF absent
      <2> QED BY <2>1, <2>2, PartialOverlay
<1>8. \A t \in news : changes[t] = settled(t)
      OBVIOUS
<1>9. DOMAIN changes = news
      OBVIOUS
<1> HIDE DEF changes, news, settled, absent
<1>10. event \in RemoteEventType
      BY <1>1, <1>6, <1>7 DEF RemoteEventType, AggregatorType
<1> QED BY <1>1, <1>5, <1>8, <1>9, <1>10 DEF event

\* What was raised is cleared, and nothing that is waited for.
LEMMA AfterRemoteEventEffect ==
  ASSUME NEW a \in AggregatorType, NEW event \in RemoteEventType
  PROVE  LET b == AfterRemoteEvent(a, event)
         IN  /\ b \in AggregatorType
             /\ \A t : /\ StateOf(b, t).outstanding = StateOf(a, t).outstanding
                       /\ \/ StateOf(b, t) = StateOf(a, t)
                          \/ DOMAIN StateOf(b, t).changes = {}
                       /\ t \in DOMAIN event.changes => DOMAIN StateOf(b, t).changes = {}
<1> DEFINE f == [t \in DOMAIN a.targets |->
                   IF t \in DOMAIN event.changes THEN ClearPendingChanges(a.targets[t])
                                                 ELSE a.targets[t]]
           b == AfterRemoteEvent(a, event)
<1>1. /\ DOMAIN a.targets \in SUBSET Targets /\ IsFiniteSet(DOMAIN a.targets)
      /\ \A t \in DOMAIN a.targets : a.targets[t] \in TargetStateType
      BY PartialOut DEF AggregatorType
<1>2. b = [targets |-> f, documents |-> NoEntries, resets |-> {}]
      BY DEF AfterRemoteEvent
<1> HIDE DEF b
<1>3. ASSUME NEW t \in DOMAIN a.targets
      PROVE  /\ f[t] \in TargetStateType /\ f[t].outstanding = a.targets[t].outstanding
             /\ f[t] = a.targets[t] \/ DOMAIN f[t].changes = {}
             /\ t \in DOMAIN event.changes => DOMAIN f[t].changes = {}
      BY <1>1, ClearedType
<1>4. DOMAIN f = DOMAIN a.targets /\ f = [t \in DOMAIN a.targets |-> f[t]]
      OBVIOUS
<1> HIDE DEF f
<1>5. f \in Partial(Targets, TargetStateType)
      <2>1. f \in [DOMAIN a.targets -> TargetStateType]
            BY <1>3, <1>4
      <2> QED BY <1>1, <2>1, PartialIn
<1>6. b \in AggregatorType /\ b.targets = f
      <2>1. NoEntries \in Partial(Docs, Status)
            BY PartialNone
      <2> QED BY <1>2, <1>5, <2>1 DEF AggregatorType
<1>7. DOMAIN NewTargetState.changes = {}
      BY PartialNone DEF NewTargetState
<1>8. ASSUME NEW t
      PROVE  /\ StateOf(b, t).outstanding = StateOf(a, t).outstanding
             /\ \/ StateOf(b, t) = StateOf(a, t)
                \/ DOMAIN StateOf(b, t).changes = {}
             /\ t \in DOMAIN event.changes => DOMAIN StateOf(b, t).changes = {}
      <2>1. CASE t \in DOMAIN a.targets
            BY <1>3, <1>4, <1>6, <2>1 DEF StateOf
      <2>2. CASE t \notin DOMAIN a.targets
            BY <1>4, <1>6, <1>7, <2>2 DEF StateOf
      <2> QED BY <2>1, <2>2
<1> QED BY <1>6, <1>8 DEF b

\* A target is unlistened and listened to again.
LEMMA ListenAnewReady ==
  ASSUME NEW c, Ready(c), IsOpen(c.stream), NEW t \in DOMAIN c.targets
  PROVE  LET d == ListenAnew(c, t)
         IN  Ready(d) /\ Moved(c, d) /\ Same(c, d, Fixed \union Meta \union {"targets"})
<1> DEFINE x == [op |-> "stop", target |-> t]
           y == [op |-> "listen", target |-> t, token |-> c.targets[t]]
           e == SendRequest(c, x)
           d == SendRequest(e, y)
<1>1. t \in Targets /\ c.targets[t] \in Tokens
      BY PartialOut DEF Ready, ClientType
<1>2. x \in RequestType /\ y \in RequestType
      BY <1>1 DEF RequestType
<1> HIDE DEF x, y
<1>3. Ready(e) /\ Moved(c, e) /\ Same(c, e, Fixed \union Meta \union {"targets"})
      BY <1>2, SendRequestReady
<1>4. ListenAnew(c, t) = d
      <2>1. e.targets = c.targets
            BY <1>3 DEF Same
      <2> QED BY <2>1 DEF ListenAnew, SendWatchRequest, SendUnwatchRequest, x, y
<1> HIDE DEF e, d
<1>5. IsOpen(e.stream)
      BY <1>3 DEF Moved, Talk
<1>6. Ready(d) /\ Moved(e, d) /\ Same(e, d, Fixed \union Meta \union {"targets"})
      BY <1>2, <1>3, <1>5, SendRequestReady DEF d
<1>7. Moved(c, d)
      BY <1>3, <1>6, MovedTrans DEF Ready
<1>8. Same(c, d, Fixed \union Meta \union {"targets"})
      BY <1>3, <1>6, SameTrans
<1> QED BY <1>4, <1>6, <1>7, <1>8

\* What every target listened to anew keeps, the loop over them keeps.
LEMMA ListenAnewStays ==
  ASSUME NEW T, NEW c \in T, NEW S, IsFiniteSet(S),
         \A e \in T, y \in S : ListenAnew(e, y) \in T
  PROVE  ForEach(ListenAnew, c, S) \in T
<1> DEFINE order == SetToSeq(S)
           n == Len(order)
           Is(f) == f = [i \in 0 .. n |-> IF i = 0 THEN c ELSE ListenAnew(f[i - 1], order[i])]
           step == [x \in T |-> [y \in S |-> ListenAnew(x, y)]]
<1>1. n \in Nat /\ order \in [1 .. n -> S] /\ step \in Steps(T, S)
      BY Listed DEF Steps
<1>2. PICK f : f \in [0 .. n -> T] /\ Run(f, step, c, order, n)
      <2> HIDE DEF order, n, step
      <2> QED BY <1>1, RunExists
<1>3. Is(f)
      <2> HIDE DEF order, n
      <2>1. ASSUME NEW i \in 0 .. n
            PROVE  f[i] = IF i = 0 THEN c ELSE ListenAnew(f[i - 1], order[i])
            <3>1. CASE i = 0
                  BY <1>2, <3>1 DEF Run
            <3>2. CASE i # 0
                  <4>1. i \in 1 .. n /\ i - 1 \in 0 .. n
                        BY <1>1, <3>2
                  <4>2. f[i - 1] \in T /\ order[i] \in S /\ f[i] = step[f[i - 1]][order[i]]
                        BY <1>1, <1>2, <4>1 DEF Run
                  <4> QED BY <3>2, <4>2
            <3> QED BY <3>1, <3>2
      <2> QED BY <1>2, <2>1
<1>4. PICK g : g = (CHOOSE h : Is(h))
      OBVIOUS
<1>5. Is(g)
      <2> HIDE DEF Is
      <2> QED BY <1>3, <1>4
<1>6. ForEach(ListenAnew, c, S) = g[n]
      BY <1>4 DEF ForEach
<1>7. Along(g, n) /\ g[0] = c
      BY <1>1, <1>5 DEF Along
<1>8. ASSUME NEW i \in 1 .. n, g[i - 1] \in T PROVE g[i] = step[g[i - 1]][order[i]]
      <2>1. i \in 0 .. n /\ i # 0
            BY <1>1
      <2>2. g[i] = ListenAnew(g[i - 1], order[i])
            BY <1>5, <2>1
      <2>3. order[i] \in S
            <3> HIDE DEF order, n
            <3> QED BY <1>1
      <2> QED BY <1>8, <2>2, <2>3
<1>9. g \in [0 .. n -> T] /\ Run(g, step, c, order, n)
      <2> HIDE DEF Is, step, n, order
      <2> QED BY <1>1, <1>7, <1>8, RunWithin
<1> HIDE DEF Is, step, n, order
<1> QED BY <1>1, <1>6, <1>9

\* All the targets whose documents did not match are listened to anew.
LEMMA ListenAnewEffect ==
  ASSUME NEW c, Ready(c), IsOpen(c.stream), NEW S \in SUBSET DOMAIN c.targets
  PROVE  LET d == ForEach(ListenAnew, c, S)
         IN  Ready(d) /\ Moved(c, d) /\ Same(c, d, Fixed \union Meta \union {"targets"})
<1> DEFINE T == {e \in ClientType : /\ Ready(e) /\ Moved(c, e)
                                    /\ Same(c, e, Fixed \union Meta \union {"targets"})}
<1>1. c \in T
      BY MovedSelf DEF Ready, Same
<1>2. IsFiniteSet(S)
      <2>1. IsFiniteSet(DOMAIN c.targets)
            BY PartialOut DEF Ready, ClientType
      <2> QED BY <2>1, FS_Subset
<1>3. ASSUME NEW e \in T, NEW t \in S
      PROVE  ListenAnew(e, t) \in T
      <2> DEFINE d == ListenAnew(e, t)
      <2>1. /\ Ready(e) /\ Moved(c, e) /\ Same(c, e, Fixed \union Meta \union {"targets"})
            /\ c \in ClientType /\ e \in ClientType
            BY DEF Ready
      <2>2. IsOpen(e.stream) /\ t \in DOMAIN e.targets
            BY <2>1 DEF Moved, Talk, Same
      <2>3. Ready(d) /\ Moved(e, d) /\ Same(e, d, Fixed \union Meta \union {"targets"})
            BY <2>1, <2>2, ListenAnewReady
      <2> HIDE DEF d
      <2>4. d \in ClientType
            BY <2>3 DEF Ready
      <2>5. Moved(c, d) /\ Same(c, d, Fixed \union Meta \union {"targets"})
            BY <2>1, <2>3, <2>4, MovedTrans, SameTrans
      <2> QED BY <2>3, <2>4, <2>5 DEF d
<1> HIDE DEF T
<1>4. ForEach(ListenAnew, c, S) \in T
      BY <1>1, <1>2, <1>3, ListenAnewStays
<1> QED BY <1>4 DEF T

\* RemoteStore::RaiseWatchSnapshot: what is raised fits the views and the lookups,
\* by Heeds, so that no assertion fails.
LEMMA RaiseWatchSnapshotEffect ==
  ASSUME NEW c, Ready(c), IsOpen(c.stream), Matched(c), Heeds(c),
         NEW s \in Seq(MessageType), Counted(c, s), NEW tokens \in Partial(Targets, Tokens)
  PROVE  LET d == RaiseWatchSnapshot(c, tokens)
         IN  /\ Ready(d) /\ Matched(d) /\ Quiet(c, d) /\ Heeds(d) /\ Counted(d, s)
             /\ IsOpen(d.stream)
<1> DEFINE tracked == DOMAIN c.targets
           updated == UpdateResumeTokens(c.aggregator, tokens, tracked)
           event == EventOf(c, updated)
           after == AfterRemoteEvent(updated, event)
           resumed(t) == IF t \in event.mismatches THEN {}
                         ELSE IF t \in DOMAIN event.changes /\ event.changes[t].token # {}
                              THEN event.changes[t].token ELSE c.targets[t]
           targets == [t \in tracked |-> resumed(t)]
           raised == [c EXCEPT !.aggregator = after, !.targets = targets]
           anew == ForEach(ListenAnew, raised, event.mismatches \intersect tracked)
           d == ApplyRemoteEvent(anew, event)
<1>1. RaiseWatchSnapshot(c, tokens) = d
      BY DEF RaiseWatchSnapshot
<1>2. /\ c \in ClientType /\ c.aggregator \in AggregatorType
      /\ tracked \in SUBSET Targets /\ IsFiniteSet(tracked)
      /\ \A t \in tracked : c.targets[t] \in Tokens
      BY PartialOut DEF Ready, ClientType
<1>3. /\ updated \in AggregatorType
      /\ \A t : /\ StateOf(updated, t).outstanding = StateOf(c.aggregator, t).outstanding
                /\ StateOf(updated, t).changes = StateOf(c.aggregator, t).changes
                /\ ~StateOf(updated, t).dirty => ~StateOf(c.aggregator, t).dirty
      BY <1>2, UpdateResumeTokensEffect
<1> HIDE DEF updated
<1>4. /\ event \in RemoteEventType
      /\ \A t \in DOMAIN event.changes :
           /\ t \in DOMAIN updated.targets /\ t \in DOMAIN c.targets
           /\ updated.targets[t].outstanding = 0
           /\ \/ event.changes[t].changes = updated.targets[t].changes
              \/ DOMAIN event.changes[t].changes = {}
      BY <1>2, <1>3, EventOfEffect
<1> HIDE DEF event
<1>5. /\ after \in AggregatorType
      /\ \A t : /\ StateOf(after, t).outstanding = StateOf(updated, t).outstanding
                /\ \/ StateOf(after, t) = StateOf(updated, t)
                   \/ DOMAIN StateOf(after, t).changes = {}
                /\ t \in DOMAIN event.changes => DOMAIN StateOf(after, t).changes = {}
      BY <1>3, <1>4, AfterRemoteEventEffect
<1> HIDE DEF after
<1>6. targets \in Partial(Targets, Tokens) /\ DOMAIN targets = tracked
      <2>1. ASSUME NEW t \in tracked PROVE resumed(t) \in Tokens
            <3>1. t \in DOMAIN event.changes => event.changes[t] \in TargetStateType
                  BY <1>4, PartialOut DEF RemoteEventType
            <3> QED BY <1>2, <3>1 DEF TargetStateType, Tokens
      <2> HIDE DEF resumed
      <2>2. targets \in [tracked -> Tokens]
            BY <2>1
      <2> HIDE DEF targets
      <2>3. targets \in Partial(Targets, Tokens)
            BY <1>2, <2>2, PartialIn
      <2> QED BY <2>2, <2>3
<1> HIDE DEF targets
<1>7. /\ raised \in ClientType /\ raised.aggregator = after /\ raised.targets = targets
      /\ Same(c, raised, Fixed \union Meta \union {"requests", "stream"})
      BY <1>2, <1>5, <1>6 DEF ClientType, Same, Fixed, Meta
<1> HIDE DEF raised
<1>8. /\ raised.active = c.active /\ raised.received = c.received /\ raised.waiting = c.waiting
      /\ raised.views = c.views /\ raised.network = c.network /\ raised.queries = c.queries
      /\ raised.requests = c.requests /\ raised.stream = c.stream /\ raised.online = c.online
      /\ raised.timer = c.timer /\ raised.failed = c.failed
      /\ Same(c, raised, {"events", "queries"})
      BY <1>7 DEF Same, Fixed, Meta
<1>9. Ready(raised) /\ IsOpen(raised.stream)
      <2>1. Linked(raised) /\ Awake(raised) /\ Fits(raised)
            BY <1>6, <1>7, <1>8 DEF Ready, Fits, Linked, Awake
      <2> QED BY <1>7, <1>8, <2>1 DEF Ready
<1>10. Quiet(c, raised)
       BY <1>2, <1>8, QuietSame
<1>11. \A t : KeysOf(raised, t) = KeysOf(c, t)
       BY <1>8 DEF KeysOf
<1>12. Heeds(raised)
       <2> SUFFICES ASSUME NEW t \in Targets
                    PROVE  LET s2 == StateOf(after, t)
                           IN  /\ ~MayListen(t) => DOMAIN s2.changes = {}
                               /\ t \in tracked /\ s2.outstanding = 0 =>
                                    Truthful(s2, KeysOf(c, t))
                                    /\ (~s2.dirty => DOMAIN s2.changes = {})
           BY <1>6, <1>7, <1>11 DEF Heeds
       <2>1. LET s2 == StateOf(c.aggregator, t)
             IN  /\ ~MayListen(t) => DOMAIN s2.changes = {}
                 /\ t \in tracked /\ s2.outstanding = 0 =>
                      Truthful(s2, KeysOf(c, t)) /\ (~s2.dirty => DOMAIN s2.changes = {})
             BY DEF Heeds
       <2>2. CASE DOMAIN StateOf(after, t).changes = {}
             BY <2>2 DEF Truthful
       <2>3. CASE StateOf(after, t) = StateOf(updated, t)
             BY <1>3, <2>1, <2>3 DEF Truthful
       <2> QED BY <1>5, <2>2, <2>3
<1>13. Counted(raised, s)
       <2>1. \A t : Balance(raised, t) = Balance(c, t)
             BY <1>3, <1>5, <1>7, <1>8 DEF Balance, Owed
       <2> QED BY <2>1 DEF Counted
<1>14. Ready(anew) /\ Moved(raised, anew)
       /\ Same(raised, anew, Fixed \union Meta \union {"targets"})
       <2> DEFINE M == event.mismatches \intersect tracked
       <2>1. M \in SUBSET DOMAIN raised.targets
             BY <1>6, <1>7
       <2> HIDE DEF M
       <2>2. LET e == ForEach(ListenAnew, raised, M)
             IN  /\ Ready(e) /\ Moved(raised, e)
                 /\ Same(raised, e, Fixed \union Meta \union {"targets"})
             BY <1>9, <2>1, ListenAnewEffect
       <2> QED BY <2>2 DEF M
<1> HIDE DEF anew
<1>15. /\ anew.active = c.active /\ anew.received = c.received /\ anew.views = c.views
       /\ anew.queries = c.queries /\ anew \in ClientType
       BY <1>8, <1>14 DEF Same, Fixed, Meta, Ready
<1>16. ASSUME NEW t \in DOMAIN event.changes,
              NEW x \in DOMAIN event.changes[t].changes,
              event.changes[t].changes[x] \in {"modified", "removed"}
       PROVE  x \in KeysOf(c, t)
       <2>1. /\ t \in Targets /\ t \in tracked /\ t \in DOMAIN updated.targets
             /\ StateOf(updated, t).outstanding = 0
             /\ event.changes[t].changes = StateOf(updated, t).changes
             BY <1>2, <1>4, <1>16 DEF StateOf
       <2>2. Truthful(StateOf(c.aggregator, t), KeysOf(c, t))
             BY <1>3, <2>1 DEF Heeds
       <2> QED BY <1>3, <1>16, <2>1, <2>2 DEF Truthful
<1>17. FitsViews(anew, event)
       <2> SUFFICES ASSUME NEW q \in DOMAIN c.views, q \in DOMAIN event.changes,
                           NEW x \in Changed(event.changes[q], "modified")
                    PROVE  x \in c.views[q].synced
           BY <1>15 DEF FitsViews
       <2>1. x \in KeysOf(c, q)
             BY <1>16 DEF Changed
       <2> QED BY <2>1 DEF KeysOf
<1>18. FitsLookups(anew, event)
       <2> SUFFICES ASSUME NEW y \in DOMAIN c.active, c.active[y] \in DOMAIN event.changes,
                           LET how == Range(event.changes[c.active[y]].changes)
                           IN  "modified" \in how \/ "removed" \in how
                    PROVE  y \in c.received
           BY <1>15 DEF FitsLookups
       <2> DEFINE t == c.active[y]
       <2>1. PICK x \in DOMAIN event.changes[t].changes :
                    event.changes[t].changes[x] \in {"modified", "removed"}
             BY DEF Range
       <2>2. x \in KeysOf(c, t)
             BY <1>16, <2>1
       <2>3. t \in Docs \X Nat /\ t[1] = y
             BY <1>2, PartialOut DEF ClientType, LookupType
       <2>4. t \notin DOMAIN c.views
             BY <1>2, QueriesAreNoLookups DEF Range
       <2>5. KeyOf(t) = {y}
             BY <2>3, KeyOfLookup
       <2> QED BY <2>2, <2>4, <2>5 DEF KeysOf
<1>19. Settled(anew, event)
       <2> SUFFICES ASSUME NEW t \in DOMAIN event.changes
                    PROVE  DOMAIN StateOf(anew.aggregator, t).changes = {}
           BY DEF Settled
       <2>1. t \in Targets
             BY <1>2, <1>4
       <2>2. StateOf(anew.aggregator, t).changes = StateOf(after, t).changes
             BY <1>7, <1>14, <2>1 DEF Moved, Talk
       <2> QED BY <1>5, <2>2
<1> HIDE DEF d
<1>20. /\ Ready(d) /\ Going(anew, d) /\ DOMAIN d.views = DOMAIN anew.views
       /\ DOMAIN d.queries = DOMAIN anew.queries /\ Follows(anew, d)
       BY <1>4, <1>14, <1>17, <1>18, <1>19, ApplyRemoteEventEffect DEF d
<1>21. d \in ClientType
       BY <1>20 DEF Ready
<1>22. Going(raised, d)
       BY <1>7, <1>14, <1>15, <1>20, <1>21, GoingTrans DEF Going, Moved
<1>23. Heeds(d) /\ Counted(d, s)
       BY <1>7, <1>9, <1>12, <1>13, <1>21, <1>22, HeedsKept DEF Going, Ready
<1>24. Quiet(c, d) /\ IsOpen(d.stream)
       BY <1>2, <1>7, <1>9, <1>10, <1>21, <1>22, QuietTrans DEF Going, Talk
<1>25. Matched(d)
       <2>1. Matched(raised)
             BY <1>7, MatchedKept DEF Same, Fixed, Meta
       <2>2. Matched(anew)
             BY <1>14, <2>1, MatchedKept DEF Same, Fixed, Meta
       <2> QED BY <1>20, <2>2 DEF Matched, Follows
<1> QED BY <1>1, <1>20, <1>23, <1>24, <1>25 DEF d

\* What the server sends is of a target it lets the client listen to, but for a
\* refusal and for the answer to an unlisten.
Permitted(m) ==
  /\ m.type \in {"documents", "filter", "current"} => MayListen(m.target)
  /\ m.type = "rejected" => ~MayListen(m.target)

\* RemoteStore::ProcessTargetError of a target the server refuses.
LEMMA ProcessTargetErrorEffect ==
  ASSUME NEW c, Ready(c), IsOpen(c.stream), Matched(c), Distinct(c), Heeds(c),
         NEW s \in Seq(MessageType), Counted(c, s), NEW t, ~MayListen(t)
  PROVE  LET d == ProcessTargetError(c, t)
         IN  /\ Ready(d) /\ Matched(d) /\ Quiet(c, d) /\ Heeds(d) /\ Counted(d, s)
             /\ IsOpen(d.stream)
<1> DEFINE left == Untracked(c, t)
           a == RemoveTarget(c.aggregator, t)
           u == [left EXCEPT !.aggregator = RemoveTarget(@, t)]
           d == HandleRejectedListen(u, t)
<1>1. c \in ClientType /\ c.aggregator \in AggregatorType
      BY DEF Ready, ClientType
<1>2. CASE t \notin DOMAIN c.targets
      <2>1. ProcessTargetError(c, t) = c
            BY <1>2 DEF ProcessTargetError
      <2>2. Quiet(c, c)
            BY <1>1, MovedSelf DEF Moved
      <2> QED BY <2>1, <2>2
<1>3. CASE t \in DOMAIN c.targets
      <2>1. ProcessTargetError(c, t) = d
            BY <1>3 DEF ProcessTargetError
      <2>2. /\ left \in ClientType /\ DOMAIN left.targets = DOMAIN c.targets \ {t}
            /\ Same(c, left, Fixed \union Meta \union {"requests", "aggregator", "stream"})
            BY <1>1, <1>3, UntrackedEffect
      <2> HIDE DEF left
      <2>3. /\ a \in AggregatorType /\ StateOf(a, t) = NewTargetState
            /\ \A x : x # t => StateOf(a, x) = StateOf(c.aggregator, x)
            BY <1>1, RemoveTargetEffect
      <2>4. left.aggregator = c.aggregator
            BY <2>2 DEF Same
      <2> HIDE DEF a
      <2>5. u = [left EXCEPT !.aggregator = a]
            BY <2>2, <2>4 DEF a, ClientType
      <2> HIDE DEF u
      <2>6. /\ u \in ClientType /\ u.aggregator = a /\ u.targets = left.targets
            /\ Same(left, u, Fixed \union Meta \union {"requests", "stream"})
            BY <2>2, <2>3, <2>5 DEF ClientType, Same, Fixed, Meta
      <2>7. /\ u.active = c.active /\ u.received = c.received /\ u.waiting = c.waiting
            /\ u.views = c.views /\ u.network = c.network /\ u.queries = c.queries
            /\ u.requests = c.requests /\ u.stream = c.stream /\ u.online = c.online
            /\ u.timer = c.timer /\ u.failed = c.failed
            /\ Same(c, u, {"events", "queries"})
            BY <2>2, <2>6 DEF Same, Fixed, Meta
      <2>8. Linked(u) /\ Awake(u)
            BY <1>3, <2>7 DEF Ready, Linked, Awake, IsOpen, IsStarted
      <2>9. Dropped(u, t)
            BY <1>3, <2>2, <2>6, <2>7, <2>8 DEF Dropped, Ready, Fits
      <2>10. Matched(u) /\ Distinct(u) /\ Quiet(c, u)
             <3>1. Matched(left)
                   BY <2>2, MatchedKept DEF Same, Fixed, Meta
             <3>2. Matched(u)
                   BY <2>6, <3>1, MatchedKept DEF Same, Fixed, Meta
             <3> QED BY <1>1, <2>7, <3>2, QuietSame DEF Distinct
      <2>11. \A x : KeysOf(u, x) = KeysOf(c, x)
             BY <2>7 DEF KeysOf
      <2>12. Heeds(u)
             <3>1. DOMAIN NewTargetState.changes = {}
                   BY PartialNone DEF NewTargetState
             <3>2. ASSUME NEW x \in Targets
                   PROVE  LET s2 == StateOf(a, x)
                          IN  /\ ~MayListen(x) => DOMAIN s2.changes = {}
                              /\ x \in DOMAIN u.targets /\ s2.outstanding = 0 =>
                                   Truthful(s2, KeysOf(c, x))
                                   /\ (~s2.dirty => DOMAIN s2.changes = {})
                   <4>1. CASE x = t
                         BY <2>2, <2>3, <2>6, <3>1, <4>1
                   <4>2. CASE x # t
                         BY <2>2, <2>3, <2>6, <4>2 DEF Heeds
                   <4> QED BY <4>1, <4>2
             <3> QED BY <2>6, <2>11, <3>2 DEF Heeds
      <2>13. Counted(u, s)
             <3>1. \A x : x # t => Balance(u, x) = Balance(c, x)
                   BY <2>3, <2>6, <2>7 DEF Balance, Owed
             <3> QED BY <3>1 DEF Counted
      <2> HIDE DEF d
      <2>14. Ready(d) /\ Matched(d) /\ Going(u, d)
             BY <2>9, <2>10, HandleRejectedListenEffect DEF d
      <2>15. Heeds(d) /\ Counted(d, s)
             BY <2>6, <2>8, <2>12, <2>13, <2>14, HeedsKept DEF Going, Ready
      <2>16. Quiet(c, d) /\ IsOpen(d.stream)
             BY <1>1, <2>6, <2>7, <2>10, <2>14, QuietTrans DEF Going, Talk, Ready
      <2> QED BY <2>1, <2>14, <2>15, <2>16 DEF d
<1> QED BY <1>2, <1>3

\* RemoteStore::OnWatchStreamChange, for every message the server may send.
LEMMA OnWatchStreamChangeEffect ==
  ASSUME NEW c, Ready(c), IsOpen(c.stream), Matched(c), Distinct(c), Heeds(c),
         NEW s \in Seq(MessageType), s # <<>>, Counted(c, s), Permitted(Head(s))
  PROVE  LET d == OnWatchStreamChange(c, Head(s))
         IN  /\ Ready(d) /\ Matched(d) /\ Quiet(c, d) /\ Heeds(d) /\ Counted(d, Tail(s))
             /\ IsOpen(d.stream)
<1> DEFINE up == UpdateState(c, "Online")
           d == OnWatchStreamChange(c, Head(s))
           tracked == DOMAIN c.targets
<1>1. PICK m : m = Head(s)
      OBVIOUS
<1>2. PICK w : w = Tail(s)
      OBVIOUS
<1>3. m \in MessageType /\ w \in Seq(MessageType)
      BY <1>1, <1>2
<1>4. c \in ClientType
      BY DEF Ready
<1>5. Ready(up) /\ Moved(c, up) /\ Same(c, up, Link) /\ Aside(c, up)
      BY UpdateStateReady DEF OnlineStates
<1>6. /\ d = CASE m.type = "added" -> [up EXCEPT !.aggregator = TargetAdded(up.aggregator,
           m.target)]
                [] m.type = "removed" -> [up EXCEPT !.aggregator = TargetRemoved(up.aggregator,
                  m.target)]
                [] m.type = "rejected" -> ProcessTargetError(up, m.target)
                [] m.type = "documents" ->
                     [up EXCEPT !.aggregator =
                        HandleDocumentChange(up.aggregator, m.target, m.found, m.removed,
                                             KeysOf(up, m.target), tracked)]
                [] m.type = "filter" ->
                     [up EXCEPT !.aggregator =
                        HandleExistenceFilter(up.aggregator, m.target, m.count, KeyOf(m.target),
                                              KeysOf(up, m.target), tracked)]
                [] m.type = "current" ->
                     [up EXCEPT !.aggregator =
                        TargetCurrent(up.aggregator, m.target, m.token, tracked)]
                [] m.type = "snapshot" -> RaiseWatchSnapshot(up, m.tokens)
      BY <1>1 DEF OnWatchStreamChange
<1> HIDE DEF up, d
<1>7. /\ up \in ClientType /\ up.aggregator \in AggregatorType /\ Quiet(c, up) /\ IsOpen(up.stream)
      /\ Matched(up) /\ Distinct(up)
      <2>1. Distinct(up)
            BY <1>5, DistinctKept DEF Moved
      <2>2. Matched(up)
            BY <1>5, MatchedAside
      <2> QED BY <1>5, <2>1, <2>2 DEF Ready, ClientType, Moved, Talk
<1>8. Heeds(up) /\ Counted(up, s)
      BY <1>4, <1>5, <1>7, HeedsKept DEF Ready, Moved
<1>9. Permitted(m)
      BY <1>1
<1>10. ASSUME NEW a \in AggregatorType, m.type # "snapshot",
              \/ Acknowledges(up.aggregator, a, m.target) /\ m.type \in {"added", "removed"}
              \/ /\ Revised(up.aggregator, a, m.target, KeysOf(up, m.target))
                 /\ MayListen(m.target) /\ m.type \notin {"added", "removed"}
       PROVE  LET e == [up EXCEPT !.aggregator = a]
              IN  /\ Ready(e) /\ Matched(e) /\ Quiet(c, e) /\ Heeds(e) /\ Counted(e, w)
                  /\ IsOpen(e.stream)
       <2> DEFINE e == [up EXCEPT !.aggregator = a]
       <2>1. /\ Ready(e) /\ Quiet(up, e) /\ e.aggregator = a /\ \A t : KeysOf(e, t) = KeysOf(up, t)
             /\ Same(up, e, Fixed \union Meta \union {"targets", "requests", "stream"})
             BY <1>5, <1>7, IntoEffect
       <2> HIDE DEF e
       <2>2. /\ e.targets = up.targets /\ e.requests = up.requests /\ e.stream = up.stream
             /\ e.views = up.views /\ e.queries = up.queries /\ e \in ClientType
             BY <2>1 DEF Same, Meta, Ready
       <2>3. m.target \in Targets
             BY <1>3, <1>10 DEF MessageType
       <2>4. Heeds(e) /\ Counted(e, w)
             <3>1. CASE Acknowledges(up.aggregator, a, m.target) /\ m.type \in {"added", "removed"}
                   BY <1>1, <1>2, <1>7, <1>8, <2>1, <2>2, <2>3, <3>1, AcknowledgesHeeds
             <3>2. CASE /\ Revised(up.aggregator, a, m.target, KeysOf(up, m.target))
                        /\ MayListen(m.target) /\ m.type \notin {"added", "removed"}
                   <4>1. Heeds(e) /\ Counted(e, s)
                         BY <1>7, <1>8, <2>1, <2>2, <2>3, <3>2, RevisedHeeds
                   <4>2. Counted(e, Tail(s))
                         BY <1>1, <3>2, <4>1, CountsTail
                   <4> QED BY <1>2, <4>1, <4>2
             <3> QED BY <1>10, <3>1, <3>2
       <2>5. Quiet(c, e)
             BY <1>4, <1>7, <2>1, <2>2, QuietTrans
       <2>6. Matched(e) /\ IsOpen(e.stream)
             <3>1. Matched(e)
                   BY <1>7, <2>1, MatchedKept DEF Same, Fixed, Meta
             <3> QED BY <1>7, <2>2, <3>1
       <2> QED BY <2>1, <2>4, <2>5, <2>6 DEF e
<1> DEFINE Good(e) == /\ Ready(e) /\ Matched(e) /\ Quiet(c, e) /\ Heeds(e) /\ Counted(e, w)
                      /\ IsOpen(e.stream)
<1> SUFFICES Good(d)
    BY <1>2 DEF d
<1>11. CASE m.type = "added"
       <2> DEFINE a == TargetAdded(up.aggregator, m.target)
       <2>1. m.target \in Targets
             BY <1>3, <1>11 DEF MessageType
       <2>2. Acknowledges(up.aggregator, a, m.target) /\ a \in AggregatorType
             BY <1>7, <2>1, TargetAddedAcknowledges DEF Acknowledges
       <2>3. d = [up EXCEPT !.aggregator = a]
             BY <1>6, <1>11
       <2> HIDE DEF a
       <2> QED BY <1>10, <1>11, <2>2, <2>3
<1>12. CASE m.type = "removed"
       <2> DEFINE a == TargetRemoved(up.aggregator, m.target)
       <2>1. m.target \in Targets
             BY <1>3, <1>12 DEF MessageType
       <2>2. Acknowledges(up.aggregator, a, m.target) /\ a \in AggregatorType
             BY <1>7, <2>1, TargetRemovedAcknowledges DEF Acknowledges
       <2>3. d = [up EXCEPT !.aggregator = a]
             BY <1>6, <1>12
       <2> HIDE DEF a
       <2> QED BY <1>10, <1>12, <2>2, <2>3
<1>13. CASE m.type = "rejected"
       <2>1. ~MayListen(m.target) /\ d = ProcessTargetError(up, m.target)
             BY <1>6, <1>9, <1>13 DEF Permitted
       <2>2. Counted(up, w)
             BY <1>1, <1>2, <1>8, <1>13, CountsTail
       <2>3. /\ Ready(d) /\ Matched(d) /\ Quiet(up, d) /\ Heeds(d) /\ Counted(d, w)
             /\ IsOpen(d.stream)
             BY <1>3, <1>5, <1>7, <1>8, <2>1, <2>2, ProcessTargetErrorEffect
       <2>4. Quiet(c, d)
             BY <1>4, <1>7, <2>3, QuietTrans DEF Ready
       <2> QED BY <2>3, <2>4
<1>14. CASE m.type = "documents"
       <2> DEFINE a == HandleDocumentChange(up.aggregator, m.target, m.found, m.removed,
                                            KeysOf(up, m.target), tracked)
       <2>1. /\ m.target \in Targets /\ m.found \in Partial(Docs, Status)
             /\ m.removed \in Partial(Docs, {"gone", Unnamed})
             BY <1>3, <1>14 DEF MessageType
       <2>4. KeysOf(up, m.target) \in SUBSET Docs
             BY <1>7, KeysOfType
       <2>5. Revised(up.aggregator, a, m.target, KeysOf(up, m.target))
             BY <1>7, <2>1, <2>4, HandleDocumentChangeRevised
       <2>2. Revised(up.aggregator, a, m.target, KeysOf(up, m.target)) /\ a \in AggregatorType
             BY <2>5 DEF Revised
       <2>3. d = [up EXCEPT !.aggregator = a]
             BY <1>6, <1>14
       <2> HIDE DEF a
       <2> QED BY <1>9, <1>10, <1>14, <2>2, <2>3 DEF Permitted
<1>15. CASE m.type = "filter"
       <2> DEFINE a == HandleExistenceFilter(up.aggregator, m.target, m.count, KeyOf(m.target),
                                             KeysOf(up, m.target), tracked)
       <2>1. m.target \in Targets
             BY <1>3, <1>15 DEF MessageType
       <2>2. Revised(up.aggregator, a, m.target, KeysOf(up, m.target)) /\ a \in AggregatorType
             BY <1>7, <2>1, KeyOfType, KeysOfType, HandleExistenceFilterRevised DEF Revised
       <2>3. d = [up EXCEPT !.aggregator = a]
             BY <1>6, <1>15
       <2> HIDE DEF a
       <2> QED BY <1>9, <1>10, <1>15, <2>2, <2>3 DEF Permitted
<1>16. CASE m.type = "current"
       <2> DEFINE a == TargetCurrent(up.aggregator, m.target, m.token, tracked)
       <2>1. m.target \in Targets /\ m.token \in Tokens
             BY <1>3, <1>16 DEF MessageType
       <2>4. Revised(up.aggregator, a, m.target, KeysOf(up, m.target))
             BY <1>7, <2>1, TargetCurrentRevised
       <2>2. Revised(up.aggregator, a, m.target, KeysOf(up, m.target)) /\ a \in AggregatorType
             BY <2>4 DEF Revised
       <2>3. d = [up EXCEPT !.aggregator = a]
             BY <1>6, <1>16
       <2> HIDE DEF a
       <2> QED BY <1>9, <1>10, <1>16, <2>2, <2>3 DEF Permitted
<1>17. CASE m.type = "snapshot"
       <2>1. m.tokens \in Partial(Targets, Tokens)
             BY <1>3, <1>17 DEF MessageType
       <2>2. d = RaiseWatchSnapshot(up, m.tokens)
             BY <1>6, <1>17
       <2>3. Counted(up, w)
             BY <1>1, <1>2, <1>8, <1>17, CountsTail
       <2>4. /\ Ready(d) /\ Matched(d) /\ Quiet(up, d) /\ Heeds(d) /\ Counted(d, w)
             /\ IsOpen(d.stream)
             BY <1>3, <1>5, <1>7, <1>8, <2>1, <2>2, <2>3, RaiseWatchSnapshotEffect
       <2>5. Quiet(c, d)
             BY <1>4, <1>7, <2>4, QuietTrans DEF Ready
       <2> QED BY <2>4, <2>5
<1>18. m.type \in {"added", "removed", "rejected", "documents", "filter", "current", "snapshot"}
       BY <1>3 DEF MessageType
<1> QED BY <1>11, <1>12, <1>13, <1>14, <1>15, <1>16, <1>17, <1>18

-----------------------------------------------------------------------------
(* The watch stream breaks, stops and starts.                              *)

\* A step aside with the targets left alone.
LEMMA AsideFits ==
  ASSUME NEW c, Fits(c), NEW d, Aside(c, d), Same(c, d, {"targets"}), Linked(d), Awake(d)
  PROVE  Ready(d) /\ (Matched(c) => Matched(d))
<1>1. /\ d.active = c.active /\ d.received = c.received /\ d.waiting = c.waiting
      /\ DOMAIN d.views = DOMAIN c.views /\ d.targets = c.targets
      /\ DOMAIN d.queries = DOMAIN c.queries /\ d \in ClientType
      BY DEF Aside, Same, Fixed, SameViews
<1>2. Matched(c) => Matched(d)
      BY MatchedAside
<1> QED BY <1>1, <1>2 DEF Ready, Fits

\* Where nothing was said, nothing is missed.
LEMMA ClosedHeeds ==
  ASSUME NEW c, Ready(c), c.aggregator = NewAggregator, c.requests = <<>>
  PROVE  Heeds(c) /\ Counted(c, <<>>)
<1>1. \A t : StateOf(c.aggregator, t) = NewTargetState
      BY PartialNone DEF StateOf, NewAggregator
<1>2. NewTargetState.outstanding = 0 /\ DOMAIN NewTargetState.changes = {}
      BY PartialNone DEF NewTargetState
<1>3. Heeds(c)
      BY <1>1, <1>2 DEF Heeds, Truthful
<1>4. \A A : Count(<<>>, A) = 0
      <2>1. <<>> \in Seq(MessageType)
            OBVIOUS
      <2> QED BY <2>1, CountType
<1>5. Counted(c, <<>>)
      BY <1>1, <1>2, <1>4 DEF Counted, Balance, Owed
<1> QED BY <1>3, <1>5

\* OnlineStateTracker::HandleWatchStreamFailure leaves no timer.
LEMMA HandleWatchStreamFailureEffect ==
  ASSUME NEW c \in ClientType, c.stream.sound, c.timer => c.online = "Unknown",
         c.failed => c.online = "Offline"
  PROVE  LET d == HandleWatchStreamFailure(c)
         IN  Aside(c, d) /\ Same(c, d, Link) /\ ~d.timer /\ (d.failed => d.online = "Offline")
<1> DEFINE d == HandleWatchStreamFailure(c)
<1>1. c.stream \in StreamType
      BY DEF ClientType
<1>2. CASE c.online = "Online"
      <2> DEFINE e == SetAndBroadcast(c, "Unknown")
      <2>1. ~c.failed /\ ~c.timer
            BY <1>2
      <2>2. Aside(c, e) /\ Same(c, e, Link \union {"timer", "failed"})
            BY SetAndBroadcastAside DEF OnlineStates
      <2>3. d = Check(e, ~c.failed /\ ~c.timer)
            BY <1>2 DEF HandleWatchStreamFailure
      <2> HIDE DEF e, d
      <2>4. e.stream = c.stream /\ e.timer = c.timer /\ e.failed = c.failed /\ Same(c, e, Link)
            BY <2>2 DEF Same, Link
      <2>5. d = e
            <3>1. HardAssert(e.stream, ~c.failed /\ ~c.timer) = e.stream
                  BY <1>1, <2>1, <2>4 DEF HardAssert, StreamType
            <3> QED BY <2>2, <2>3, <3>1 DEF Check, Aside, ClientType
      <2> QED BY <2>1, <2>2, <2>4, <2>5 DEF d
<1>3. CASE c.online # "Online"
      <2> DEFINE c1 == [c EXCEPT !.failed = TRUE, !.timer = FALSE]
                 e == SetAndBroadcast(c1, "Offline")
      <2>1. /\ c1 \in ClientType /\ ~c1.timer
            /\ Same(c, c1, Fixed \union {"events", "queries", "views"}) /\ Same(c, c1, Link)
            BY DEF ClientType, Same, Fixed, Link
      <2>2. d = e
            BY <1>3 DEF HandleWatchStreamFailure
      <2> HIDE DEF c1, d
      <2>3. /\ Aside(c1, e) /\ Same(c1, e, Link \union {"timer", "failed"})
            /\ e.online = "Offline"
            BY <2>1, SetAndBroadcastAside DEF OnlineStates
      <2> HIDE DEF e
      <2>4. Aside(c, e)
            BY <2>1, <2>3, AsideSame, AsideTrans
      <2>5. Same(c, e, Link) /\ e.timer = c1.timer
            BY <2>1, <2>3 DEF Same, Link
      <2> QED BY <2>1, <2>2, <2>3, <2>4, <2>5 DEF d
<1> QED BY <1>2, <1>3

\* Whatever the reason, a closed stream leaves nothing behind of what was said
\* over it, and is started again if there is something to listen to.
LEMMA CloseEffect ==
  ASSUME NEW c \in ClientType, Fits(c), c.stream.sound, IsStarted(c.stream),
         c.timer => c.online = "Unknown", c.failed => c.online = "Offline",
         NEW graceful \in BOOLEAN, graceful => ~c.network \/ DOMAIN c.targets = {}
  PROVE  LET d == Close(c, graceful)
         IN  /\ Ready(d) /\ Aside(c, d) /\ ~IsOpen(d.stream) /\ (Matched(c) => Matched(d))
<1> DEFINE cut == [c EXCEPT !.stream = Closed(@, graceful), !.requests = <<>>]
           clean == [Check(cut, graceful => ~ShouldStartWatchStream(cut))
                       EXCEPT !.aggregator = NewAggregator]
           failed == HandleWatchStreamFailure(clean)
           d == Close(c, graceful)
<1>1. d = IF ShouldStartWatchStream(cut) THEN StartWatchStream(failed)
          ELSE UpdateState(clean, "Unknown")
      BY DEF Close, OnWatchStreamClose
<1> HIDE DEF d
<1>2. c.stream \in StreamType
      BY DEF ClientType
<1> DEFINE shut == Closed(c.stream, graceful)
<1>12. /\ shut \in StreamType /\ shut.sound /\ "current" \notin shut.asked
       /\ shut.backoff = FALSE /\ shut.idle = FALSE /\ shut.state \in {"Initial", "Error"}
      BY <1>2 DEF Closed, HardAssert, StreamType, StreamStates
<1> HIDE DEF shut
<1>3. /\ shut \in StreamType /\ shut.sound
      /\ "current" \notin shut.asked /\ ~shut.backoff /\ ~shut.idle
      /\ shut.state \in {"Initial", "Error"}
      /\ ("current" \in shut.asked) = (shut.state = "Starting")
      /\ shut.backoff = (shut.state = "Backoff")
      <2>1. (shut.state = "Starting") = FALSE /\ (shut.state = "Backoff") = FALSE
            BY <1>12
      <2>2. ("current" \in shut.asked) = FALSE
            BY <1>12
      <2>3. ("current" \in shut.asked) = (shut.state = "Starting")
            BY <2>1, <2>2
      <2>4. shut.backoff = (shut.state = "Backoff")
            BY <1>12, <2>1
      <2> QED BY <1>12, <2>3, <2>4
<1>4. <<>> \in Seq(RequestType)
      OBVIOUS
<1>5. /\ cut \in ClientType /\ cut.stream = shut /\ cut.requests = <<>>
      /\ cut.targets = c.targets /\ cut.network = c.network
      /\ Same(c, cut, Fixed \union Meta \union {"targets"})
      BY <1>3, <1>4 DEF ClientType, Same, Fixed, Meta, shut
<1> HIDE DEF cut
<1>6. Check(cut, graceful => ~ShouldStartWatchStream(cut)) = cut
      <2>1. graceful => ~ShouldStartWatchStream(cut)
            BY <1>5 DEF ShouldStartWatchStream
      <2>2. HardAssert(cut.stream, graceful => ~ShouldStartWatchStream(cut)) = cut.stream
            BY <1>3, <1>5, <2>1 DEF HardAssert, StreamType
      <2> QED BY <1>5, <2>2 DEF Check, ClientType
<1>7. NewAggregator \in AggregatorType
      BY PartialNone DEF NewAggregator, AggregatorType
<1>8. /\ clean \in ClientType /\ clean.aggregator = NewAggregator /\ clean.requests = <<>>
      /\ clean.stream = cut.stream /\ clean.targets = c.targets /\ clean.network = c.network
      /\ clean.timer = c.timer /\ clean.failed = c.failed /\ clean.online = c.online
      /\ Same(c, clean, Fixed \union {"events", "queries", "views"})
      <2>1. clean = [cut EXCEPT !.aggregator = NewAggregator]
            BY <1>6
      <2> HIDE DEF clean
      <2>2. clean \in ClientType /\ clean.aggregator = NewAggregator
            BY <1>5, <1>7, <2>1 DEF ClientType
      <2>3. Same(cut, clean, Fixed \union Meta \union {"targets", "stream", "requests"})
            BY <1>5, <2>1 DEF ClientType, Same, Fixed, Meta
      <2> QED BY <1>5, <2>2, <2>3 DEF Same, Fixed, Meta
<1> HIDE DEF clean
<1>9. Aside(c, clean)
      BY <1>8, AsideSame
<1>10. CASE ShouldStartWatchStream(cut)
       <2>1. Aside(clean, failed) /\ Same(clean, failed, Link) /\ ~failed.timer
             /\ (failed.failed => failed.online = "Offline") /\ failed \in ClientType
             BY <1>3, <1>5, <1>8, HandleWatchStreamFailureEffect DEF Aside
       <2> HIDE DEF failed
       <2>2. /\ failed.stream = cut.stream /\ failed.targets = c.targets /\ failed.requests = <<>>
             /\ failed.aggregator = NewAggregator /\ failed.network = c.network
             BY <1>8, <2>1 DEF Same, Link, Aside, Fixed
       <2>3. Linked(failed)
             BY <1>3, <1>5, <2>1, <2>2 DEF Linked, IsOpen, IsStarted
       <2>4. ShouldStartWatchStream(failed)
             BY <1>5, <1>10, <2>2 DEF ShouldStartWatchStream
       <2>5. d = StartWatchStream(failed)
             BY <1>1, <1>10
       <2>6. /\ Aside(failed, d) /\ Linked(d) /\ Awake(d) /\ Same(failed, d, {"targets"})
             /\ ~IsOpen(d.stream)
             BY <2>1, <2>3, <2>4, <2>5, StartWatchStreamEffect
       <2>7. Aside(clean, d)
             BY <1>8, <2>1, <2>6, AsideTrans
       <2>8. Aside(c, d)
             BY <1>9, <2>7, AsideTrans
       <2>9. Same(c, d, {"targets"})
             BY <2>2, <2>6 DEF Same
       <2> QED BY <2>6, <2>8, <2>9, AsideFits DEF d
<1>11. CASE ~ShouldStartWatchStream(cut)
       <2>1. d = UpdateState(clean, "Unknown")
             BY <1>1, <1>11
       <2>2. /\ Aside(clean, d) /\ Same(clean, d, Link) /\ ~d.timer /\ ~d.failed
             BY <1>8, <2>1, UpdateStateAside DEF OnlineStates
       <2>3. /\ d.stream = cut.stream /\ d.targets = c.targets /\ d.requests = <<>>
             /\ d.aggregator = NewAggregator /\ d.network = c.network
             BY <1>8, <2>2 DEF Same, Link, Aside, Fixed
       <2>4. ~IsStarted(d.stream) /\ ~IsOpen(d.stream)
             BY <1>3, <1>5, <2>3 DEF IsStarted, IsOpen
       <2>5. Linked(d) /\ Awake(d)
             BY <1>3, <1>5, <1>11, <2>2, <2>3, <2>4 DEF Linked, Awake, ShouldStartWatchStream,
                  IsStarted
       <2>6. Aside(c, d)
             BY <1>9, <2>2, AsideTrans
       <2>7. Same(c, d, {"targets"})
             BY <2>3 DEF Same
       <2> QED BY <2>4, <2>5, <2>6, <2>7, AsideFits DEF d
<1> QED BY <1>10, <1>11

\* The network goes on, or goes off when the stream has stopped.
LEMMA NetworkStep ==
  ASSUME NEW c, Ready(c), NEW on \in BOOLEAN, on \/ ~IsStarted(c.stream)
  PROVE  LET d == [c EXCEPT !.network = on]
         IN  /\ d \in ClientType /\ Fits(d) /\ Linked(d) /\ d.network = on /\ Quiet(c, d)
             /\ d.stream = c.stream /\ d.targets = c.targets /\ (Matched(c) => Matched(d))
             /\ (~on => Awake(d))
<1> DEFINE d == [c EXCEPT !.network = on]
<1>1. c \in ClientType
      BY DEF Ready
<1>2. /\ d \in ClientType /\ d.network = on
      /\ Same(c, d, (Fixed \ {"network"}) \union Meta \union Link)
      BY <1>1 DEF ClientType, Same, Fixed, Meta, Link
<1> HIDE DEF d
<1>3. /\ d.active = c.active /\ d.received = c.received /\ d.waiting = c.waiting
      /\ d.views = c.views /\ d.queries = c.queries /\ d.targets = c.targets
      /\ d.requests = c.requests /\ d.stream = c.stream /\ d.online = c.online
      /\ d.timer = c.timer /\ d.failed = c.failed /\ d.aggregator = c.aggregator
      /\ Same(c, d, {"events", "queries"})
      BY <1>2 DEF Same, Fixed, Meta, Link
<1>4. Linked(d) /\ Fits(d) /\ (~on => Awake(d))
      BY <1>2, <1>3 DEF Ready, Linked, Fits, Awake
<1>5. Quiet(c, d)
      BY <1>1, <1>3, QuietSame
<1>6. Matched(c) => Matched(d)
      BY <1>2, MatchedKept DEF Same, Fixed, Meta
<1> QED BY <1>2, <1>3, <1>4, <1>5, <1>6 DEF d

\* The stream is stopped with the network off.
LEMMA StopOffEffect ==
  ASSUME NEW c, Ready(c), Matched(c)
  PROVE  LET d == Stop([c EXCEPT !.network = FALSE])
         IN  Ready(d) /\ Matched(d) /\ Quiet(c, d) /\ ~d.network /\ ~IsStarted(d.stream)
<1> DEFINE off == [c EXCEPT !.network = FALSE]
           d == Stop(off)
<1>1. c \in ClientType
      BY DEF Ready
<1>2. /\ off \in ClientType /\ off.network = FALSE
      /\ Same(c, off, (Fixed \ {"network"}) \union Meta \union Link)
      BY <1>1 DEF ClientType, Same, Fixed, Meta, Link
<1> HIDE DEF off, d
<1>3. /\ off.active = c.active /\ off.received = c.received /\ off.waiting = c.waiting
      /\ off.views = c.views /\ off.queries = c.queries /\ off.targets = c.targets
      /\ off.requests = c.requests /\ off.stream = c.stream /\ off.online = c.online
      /\ off.timer = c.timer /\ off.failed = c.failed /\ off.aggregator = c.aggregator
      /\ Same(c, off, {"events", "queries"})
      BY <1>2 DEF Same, Fixed, Meta, Link
<1>4. Fits(off) /\ Quiet(c, off) /\ Matched(off)
      <2>1. Matched(off)
            BY <1>2, MatchedKept DEF Same, Fixed, Meta
      <2> QED BY <1>1, <1>3, <2>1, QuietSame DEF Ready, Fits
<1>5. CASE IsStarted(off.stream)
      <2>1. d = Close(off, TRUE)
            BY <1>5 DEF Stop, d
      <2>2. /\ off.stream.sound /\ (off.timer => off.online = "Unknown")
            /\ (off.failed => off.online = "Offline")
            BY <1>3 DEF Ready, Linked
      <2>3. Ready(d) /\ Aside(off, d) /\ ~IsOpen(d.stream) /\ (Matched(off) => Matched(d))
            BY <1>2, <1>4, <1>5, <2>1, <2>2, CloseEffect
      <2>4. ~d.network
            BY <1>2, <2>3 DEF Aside, Same, Fixed
      <2>5. ~IsStarted(d.stream)
            BY <2>3, <2>4 DEF Ready, Linked
      <2>6. Quiet(c, d)
            BY <1>1, <1>2, <1>4, <2>3, QuietTrans DEF Aside
      <2> QED BY <1>4, <2>3, <2>4, <2>5, <2>6 DEF d, off
<1>6. CASE ~IsStarted(off.stream)
      <2>1. d = off
            BY <1>6 DEF Stop, d
      <2>2. Linked(off) /\ Awake(off)
            BY <1>2, <1>3, <1>6 DEF Ready, Linked, Awake
      <2> QED BY <1>2, <1>4, <1>6, <2>1, <2>2 DEF Ready, d, off
<1> QED BY <1>5, <1>6

\* RemoteStore::DisableNetwork
LEMMA DisableNetworkEffect ==
  ASSUME NEW c, Ready(c), Matched(c)
  PROVE  LET d == DisableNetwork(c)
         IN  Ready(d) /\ Matched(d) /\ Quiet(c, d) /\ ~IsOpen(d.stream)
<1> DEFINE off == Stop([c EXCEPT !.network = FALSE])
           d == UpdateState(off, "Offline")
<1>1. Ready(off) /\ Matched(off) /\ Quiet(c, off) /\ ~off.network /\ ~IsStarted(off.stream)
      BY StopOffEffect
<1> HIDE DEF off
<1>2. Ready(d) /\ Moved(off, d) /\ Same(off, d, Link) /\ Aside(off, d)
      BY <1>1, UpdateStateReady DEF OnlineStates
<1>3. DisableNetwork(c) = d
      BY DEF DisableNetwork, off
<1> HIDE DEF d
<1>4. ~IsOpen(d.stream)
      BY <1>1, <1>2 DEF Moved, Talk, IsOpen, IsStarted
<1>5. Quiet(c, d) /\ Matched(d)
      BY <1>1, <1>2, QuietTrans, MatchedAside DEF Moved, Ready
<1> QED BY <1>2, <1>3, <1>4, <1>5

\* RemoteStore::EnableNetwork
LEMMA EnableNetworkEffect ==
  ASSUME NEW c, Ready(c), Matched(c), ~c.network
  PROVE  LET d == EnableNetwork(c)
         IN  Ready(d) /\ Matched(d) /\ Quiet(c, d) /\ ~IsOpen(d.stream)
<1> DEFINE on == [c EXCEPT !.network = TRUE]
           d == EnableNetwork(c)
<1>1. ~IsStarted(c.stream) /\ c \in ClientType
      BY DEF Ready, Linked
<1>2. /\ on \in ClientType /\ Fits(on) /\ Linked(on) /\ on.network = TRUE /\ Quiet(c, on)
      /\ on.stream = c.stream /\ on.targets = c.targets /\ Matched(on)
      BY NetworkStep
<1>3. d = IF ShouldStartWatchStream(on) THEN StartWatchStream(on) ELSE UpdateState(on, "Unknown")
      BY DEF EnableNetwork
<1> HIDE DEF on, d
<1>4. /\ Aside(on, d) /\ Same(on, d, {"targets"}) /\ Linked(d) /\ Awake(d) /\ ~IsOpen(d.stream)
      <2>1. CASE ShouldStartWatchStream(on)
            BY <1>2, <1>3, <2>1, StartWatchStreamEffect
      <2>2. CASE ~ShouldStartWatchStream(on)
            <3>1. Aside(on, d) /\ Same(on, d, Link) /\ ~d.timer /\ ~d.failed
                  BY <1>2, <1>3, <2>2, UpdateStateAside DEF OnlineStates
            <3>2. /\ d.stream = c.stream /\ d.targets = c.targets /\ d.requests = on.requests
                  /\ d.aggregator = on.aggregator /\ d.network
                  BY <1>2, <3>1 DEF Same, Link, Aside, Fixed
            <3>3. DOMAIN c.targets = {}
                  BY <1>1, <1>2, <2>2 DEF ShouldStartWatchStream
            <3>4. ~IsOpen(d.stream) /\ ~IsStarted(d.stream)
                  BY <1>1, <3>2 DEF IsOpen, IsStarted
            <3>5. Linked(d) /\ Awake(d)
                  BY <1>2, <3>1, <3>2, <3>3, <3>4 DEF Linked, Awake
            <3>6. Same(on, d, {"targets"})
                  BY <3>1 DEF Same, Link
            <3> QED BY <3>1, <3>4, <3>5, <3>6
      <2> QED BY <2>1, <2>2
<1>5. Ready(d) /\ Matched(d)
      BY <1>2, <1>4, AsideFits
<1>6. Quiet(c, d)
      BY <1>1, <1>2, <1>4, QuietTrans DEF Aside
<1> QED BY <1>4, <1>5, <1>6 DEF d

\* A step of the stream alone.
LEMMA StreamStep ==
  ASSUME NEW c, Ready(c), NEW s \in StreamType, s.sound,
         ("current" \in s.asked) = (s.state = "Starting"), s.backoff = (s.state = "Backoff"),
         s.idle => c.stream.idle /\ IsOpen(s), IsStarted(s) = IsStarted(c.stream),
         IsOpen(c.stream) => IsOpen(s)
  PROVE  LET d == [c EXCEPT !.stream = s]
         IN  /\ Ready(d) /\ Quiet(c, d) /\ (Matched(c) => Matched(d)) /\ d.stream = s
             /\ d.network = c.network /\ d.targets = c.targets
             /\ d.aggregator = c.aggregator /\ d.requests = c.requests
             /\ (IsOpen(s) = IsOpen(c.stream) => Going(c, d))
<1> DEFINE d == [c EXCEPT !.stream = s]
<1>1. c \in ClientType
      BY DEF Ready
<1>2. /\ d \in ClientType /\ d.stream = s
      /\ Same(c, d, Fixed \union Meta \union {"targets", "requests", "aggregator"})
      BY <1>1 DEF ClientType, Same, Fixed, Meta
<1> HIDE DEF d
<1>3. /\ d.active = c.active /\ d.received = c.received /\ d.waiting = c.waiting
      /\ d.views = c.views /\ d.queries = c.queries /\ d.targets = c.targets
      /\ d.requests = c.requests /\ d.network = c.network /\ d.online = c.online
      /\ d.timer = c.timer /\ d.failed = c.failed /\ d.aggregator = c.aggregator
      /\ Same(c, d, {"events", "queries"})
      BY <1>2 DEF Same, Fixed, Meta
<1>4. Linked(d) /\ Awake(d) /\ Fits(d)
      BY <1>2, <1>3 DEF Ready, Linked, Awake, Fits
<1>5. Quiet(c, d)
      BY <1>1, <1>3, QuietSame
<1>6. \A t : KeysOf(d, t) = KeysOf(c, t)
      BY <1>3 DEF KeysOf
<1>7. IsOpen(s) = IsOpen(c.stream) => Going(c, d)
      <2>1. IsOpen(s) = IsOpen(c.stream) => Talk(c, d)
            BY <1>1, <1>2, <1>3, TalkSame
      <2> QED BY <1>3, <1>5, <1>6, <2>1 DEF Going, Steady
<1>8. Matched(c) => Matched(d)
      BY <1>2, MatchedKept DEF Same, Fixed, Meta
<1> QED BY <1>2, <1>3, <1>4, <1>5, <1>7, <1>8 DEF Ready, d

\* RemoteStore::RestartNetwork, off and on again.
LEMMA RestartNetworkEffect ==
  ASSUME NEW c, Ready(c), Matched(c)
  PROVE  LET d == RestartNetwork(c)
         IN  Ready(d) /\ Matched(d) /\ Quiet(c, d) /\ ~IsOpen(d.stream)
<1> DEFINE stopped == Stop([c EXCEPT !.network = FALSE])
           off == UpdateState(stopped, "Unknown")
           s == InhibitBackoff(off.stream)
           fresh == [off EXCEPT !.stream = s]
           d == EnableNetwork(fresh)
<1>1. Ready(stopped) /\ Matched(stopped) /\ Quiet(c, stopped) /\ ~stopped.network
      /\ ~IsStarted(stopped.stream)
      BY StopOffEffect
<1> HIDE DEF stopped
<1>2. Ready(off) /\ Moved(stopped, off) /\ Same(stopped, off, Link) /\ Aside(stopped, off)
      BY <1>1, UpdateStateReady DEF OnlineStates
<1>3. RestartNetwork(c) = d
      BY DEF RestartNetwork, off, stopped
<1> HIDE DEF off
<1>4. ~off.network /\ off.stream = stopped.stream /\ Matched(off)
      <2>1. Matched(off)
            BY <1>1, <1>2, MatchedAside
      <2> QED BY <1>1, <1>2, <2>1 DEF Moved, Same, Link
<1>5. off.stream \in StreamType /\ ~IsStarted(off.stream) /\ off.stream.sound
      /\ "current" \notin off.stream.asked /\ off.stream.backoff = FALSE /\ ~off.stream.idle
      <2>1. off.stream \in StreamType /\ ~IsStarted(off.stream) /\ off.stream.sound
            BY <1>1, <1>2, <1>4 DEF Ready, ClientType, Linked
      <2>2. off.stream.state # "Starting" /\ off.stream.state # "Backoff" /\ ~IsOpen(off.stream)
            BY <2>1 DEF IsStarted, IsOpen
      <2>3. "current" \notin off.stream.asked /\ ~off.stream.idle
            BY <1>2, <2>2 DEF Ready, Linked
      <2>4. (off.stream.state = "Backoff") = FALSE
            BY <2>2
      <2>5. off.stream.backoff = FALSE
            BY <1>2, <2>4 DEF Ready, Linked
      <2> QED BY <2>1, <2>3, <2>5
<1>6. /\ s \in StreamType /\ s.sound /\ s.state = "Initial" /\ s.asked = off.stream.asked
      /\ s.backoff = FALSE /\ s.idle = off.stream.idle
      BY <1>5 DEF InhibitBackoff, HardAssert, StreamType, StreamStates
<1> HIDE DEF s
<1>7. ("current" \in s.asked) = (s.state = "Starting") /\ s.backoff = (s.state = "Backoff")
      <2>1. (s.state = "Starting") = FALSE /\ (s.state = "Backoff") = FALSE
            BY <1>6
      <2>2. ("current" \in s.asked) = FALSE
            BY <1>5, <1>6
      <2> QED BY <1>6, <2>1, <2>2
<1>8. IsStarted(s) = IsStarted(off.stream) /\ (IsOpen(off.stream) => IsOpen(s))
      /\ (s.idle => off.stream.idle /\ IsOpen(s))
      <2>1. ~IsStarted(s) /\ ~IsOpen(off.stream)
            BY <1>5, <1>6 DEF IsStarted, IsOpen
      <2>2. IsStarted(s) = FALSE /\ IsStarted(off.stream) = FALSE
            BY <1>5, <2>1 DEF IsStarted
      <2> QED BY <1>5, <1>6, <2>1, <2>2
<1>9. Ready(fresh) /\ Quiet(off, fresh) /\ Matched(fresh) /\ fresh.network = off.network
      BY <1>2, <1>4, <1>6, <1>7, <1>8, StreamStep
<1> HIDE DEF fresh
<1>11. Ready(d) /\ Matched(d) /\ Quiet(fresh, d) /\ ~IsOpen(d.stream)
       BY <1>4, <1>9, EnableNetworkEffect
<1> HIDE DEF d
<1>14. Quiet(stopped, off) /\ stopped \in ClientType /\ off \in ClientType /\ fresh \in ClientType
       /\ d \in ClientType /\ c \in ClientType
       BY <1>1, <1>2, <1>9, <1>11 DEF Moved, Ready
<1>15. Quiet(c, off)
       BY <1>1, <1>14, QuietTrans
<1>16. Quiet(c, fresh)
       BY <1>9, <1>14, <1>15, QuietTrans
<1>17. Quiet(c, d)
       BY <1>11, <1>14, <1>16, QuietTrans
<1> QED BY <1>3, <1>11, <1>17 DEF d

\* The stream closes, for good or for another try.
LEMMA CloseReady ==
  ASSUME NEW c, Ready(c), Matched(c), IsStarted(c.stream), NEW graceful \in BOOLEAN,
         graceful => DOMAIN c.targets = {}
  PROVE  LET d == Close(c, graceful)
         IN  Ready(d) /\ Matched(d) /\ Quiet(c, d) /\ ~IsOpen(d.stream)
<1> DEFINE d == Close(c, graceful)
<1>1. /\ c \in ClientType /\ Fits(c) /\ c.stream.sound /\ (c.timer => c.online = "Unknown")
      /\ (c.failed => c.online = "Offline")
      BY DEF Ready, Linked
<1>2. Ready(d) /\ Aside(c, d) /\ ~IsOpen(d.stream) /\ (Matched(c) => Matched(d))
      BY <1>1, CloseEffect
<1> QED BY <1>2 DEF Aside

\* The idle timer stops the stream.
LEMMA IdleTimeoutEffect ==
  ASSUME NEW c, Ready(c), Matched(c), c.stream.idle
  PROVE  LET d == Stop(c) IN Ready(d) /\ Matched(d) /\ Quiet(c, d) /\ ~IsOpen(d.stream)
<1>1. IsOpen(c.stream) /\ DOMAIN c.targets = {}
      BY DEF Ready, Linked
<1>2. IsStarted(c.stream)
      BY <1>1 DEF IsOpen, IsStarted
<1>3. Stop(c) = Close(c, TRUE)
      BY <1>2 DEF Stop
<1>4. LET d == Close(c, TRUE) IN Ready(d) /\ Matched(d) /\ Quiet(c, d) /\ ~IsOpen(d.stream)
      BY <1>1, <1>2, CloseReady
<1> QED BY <1>3, <1>4

\* No credentials: the stream fails before it opens.
LEMMA CredentialsFailEffect ==
  ASSUME NEW c, Ready(c), Matched(c), "current" \in c.stream.asked
  PROVE  LET d == Close(Check([c EXCEPT !.stream = CredentialsArrived(@, "current")],
                              c.stream.state = "Starting"), FALSE)
         IN  Ready(d) /\ Matched(d) /\ Quiet(c, d) /\ ~IsOpen(d.stream)
<1> DEFINE s == CredentialsArrived(c.stream, "current")
           c1 == [c EXCEPT !.stream = s]
           d == Close(c1, FALSE)
<1>1. /\ c \in ClientType /\ c.stream \in StreamType /\ c.stream.state = "Starting"
      /\ c.stream.sound /\ (c.timer => c.online = "Unknown") /\ (c.failed => c.online = "Offline")
      BY DEF Ready, Linked, ClientType
<1>2. s \in StreamType /\ s.sound /\ s.state = "Starting"
      BY <1>1 DEF CredentialsArrived, StreamType
<1>3. Check([c EXCEPT !.stream = CredentialsArrived(@, "current")],
        c.stream.state = "Starting") = c1
      <2>1. [c EXCEPT !.stream = CredentialsArrived(@, "current")] = c1
            BY <1>1 DEF ClientType
      <2>2. c1.stream = s
            BY <1>1 DEF ClientType
      <2> HIDE DEF s
      <2>3. HardAssert(s, c.stream.state = "Starting") = s
            BY <1>1, <1>2 DEF HardAssert, StreamType
      <2>4. [c1 EXCEPT !.stream = s] = c1
            BY <1>1 DEF ClientType
      <2> HIDE DEF c1
      <2> QED BY <2>1, <2>2, <2>3, <2>4 DEF Check
<1> HIDE DEF s
<1>4. /\ c1 \in ClientType /\ c1.stream = s
      /\ Same(c, c1, Fixed \union Meta \union {"targets"})
      BY <1>1, <1>2 DEF ClientType, Same, Fixed, Meta
<1> HIDE DEF c1
<1>5. /\ c1.active = c.active /\ c1.received = c.received /\ c1.waiting = c.waiting
      /\ c1.views = c.views /\ c1.queries = c.queries /\ c1.targets = c.targets
      /\ c1.online = c.online /\ c1.timer = c.timer /\ c1.failed = c.failed
      /\ Same(c, c1, {"events", "queries"})
      BY <1>4 DEF Same, Fixed, Meta
<1>6. Fits(c1) /\ IsStarted(c1.stream) /\ Matched(c1) /\ Quiet(c, c1)
      <2>1. Matched(c1)
            BY <1>4, MatchedKept DEF Same, Fixed, Meta
      <2> QED BY <1>1, <1>2, <1>4, <1>5, <2>1, QuietSame DEF Ready, Fits, IsStarted
<1>7. Ready(d) /\ Aside(c1, d) /\ ~IsOpen(d.stream) /\ (Matched(c1) => Matched(d))
      BY <1>1, <1>2, <1>4, <1>5, <1>6, CloseEffect
<1>8. Quiet(c, d)
      BY <1>1, <1>4, <1>6, <1>7, QuietTrans DEF Aside
<1> QED BY <1>3, <1>6, <1>7, <1>8

\* Credentials that come too late change nothing.
LEMMA StaleCredentialsEffect ==
  ASSUME NEW c, Ready(c), Matched(c)
  PROVE  LET d == [c EXCEPT !.stream = CredentialsArrived(@, "stale")]
         IN  Ready(d) /\ Matched(d) /\ Going(c, d)
<1> DEFINE s == CredentialsArrived(c.stream, "stale")
           d == [c EXCEPT !.stream = s]
<1>1. c.stream \in StreamType /\ Linked(c)
      BY DEF Ready, ClientType
<1>2. /\ s \in StreamType /\ s.sound = c.stream.sound /\ s.state = c.stream.state
      /\ s.backoff = c.stream.backoff /\ s.idle = c.stream.idle
      /\ s.asked = c.stream.asked \ {"stale"}
      BY <1>1 DEF CredentialsArrived, StreamType
<1> HIDE DEF s
<1>3. /\ s.sound /\ s.backoff = (s.state = "Backoff")
      /\ ("current" \in s.asked) = (s.state = "Starting")
      /\ (s.idle => c.stream.idle /\ IsOpen(s))
      <2>1. ("current" \in s.asked) = ("current" \in c.stream.asked)
            BY <1>2
      <2>2. ("current" \in c.stream.asked) = (c.stream.state = "Starting")
            BY <1>1 DEF Linked
      <2>3. ("current" \in s.asked) = (s.state = "Starting")
            BY <1>2, <2>1, <2>2
      <2>4. s.backoff = (s.state = "Backoff")
            BY <1>1, <1>2 DEF Linked
      <2> QED BY <1>1, <1>2, <2>3, <2>4 DEF Linked, IsOpen
<1>4. IsStarted(s) = IsStarted(c.stream) /\ IsOpen(s) = IsOpen(c.stream)
      BY <1>2 DEF IsStarted, IsOpen
<1>5. d = [c EXCEPT !.stream = CredentialsArrived(@, "stale")]
      BY DEF s, Ready, ClientType
<1> HIDE DEF d
<1>6. Ready(d) /\ Matched(d) /\ Going(c, d)
      BY <1>2, <1>3, <1>4, StreamStep DEF d
<1> QED BY <1>5, <1>6

\* The stream asks for credentials when it has waited.
LEMMA BackoffEndsEffect ==
  ASSUME NEW c, Ready(c), Matched(c), c.stream.backoff
  PROVE  LET d == [c EXCEPT !.stream = BackoffElapsed(@)]
         IN  Ready(d) /\ Matched(d) /\ Going(c, d)
<1> DEFINE s == BackoffElapsed(c.stream)
           d == [c EXCEPT !.stream = s]
<1>1. c.stream \in StreamType /\ Linked(c) /\ c.stream.sound /\ c.stream.state = "Backoff"
      BY DEF Ready, ClientType, Linked
<1>2. ~c.stream.idle
      BY <1>1 DEF Linked, IsOpen
<1>3. /\ s \in StreamType /\ s.sound /\ s.state = "Starting" /\ "current" \in s.asked
      /\ s.backoff = FALSE /\ ~s.idle
      BY <1>1, <1>2 DEF BackoffElapsed, Start, RequestCredentials, HardAssert, IsStarted,
                        StreamType, StreamStates
<1> HIDE DEF s
<1>4. /\ s.backoff = (s.state = "Backoff") /\ ("current" \in s.asked) = (s.state = "Starting")
      <2>1. (s.state = "Backoff") = FALSE /\ (s.state = "Starting") = TRUE
            BY <1>3
      <2>2. ("current" \in s.asked) = TRUE
            BY <1>3
      <2> QED BY <1>3, <2>1, <2>2
<1>5. IsStarted(s) = IsStarted(c.stream) /\ IsOpen(s) = IsOpen(c.stream)
      BY <1>1, <1>3 DEF IsStarted, IsOpen
<1>6. d = [c EXCEPT !.stream = BackoffElapsed(@)]
      BY DEF s, Ready, ClientType
<1> HIDE DEF d
<1>7. Ready(d) /\ Matched(d) /\ Going(c, d)
      BY <1>3, <1>4, <1>5, StreamStep DEF d
<1> QED BY <1>6, <1>7

\* The online timer runs out: the client is offline.
LEMMA OnlineTimeoutEffect ==
  ASSUME NEW c, Ready(c), Matched(c), c.timer
  PROVE  LET d == OnlineTimerFired(c) IN Ready(d) /\ Matched(d) /\ Going(c, d)
<1> DEFINE c1 == [c EXCEPT !.timer = FALSE]
           d == SetAndBroadcast(c1, "Offline")
<1>1. c \in ClientType /\ c.stream \in StreamType /\ c.stream.sound /\ c.online = "Unknown"
      BY DEF Ready, ClientType, Linked
<1>2. Check(c, c.online = "Unknown") = c
      <2>1. HardAssert(c.stream, c.online = "Unknown") = c.stream
            BY <1>1 DEF HardAssert, StreamType
      <2> QED BY <1>1, <2>1 DEF Check, ClientType
<1>3. OnlineTimerFired(c) = d
      BY <1>2 DEF OnlineTimerFired
<1>4. /\ c1 \in ClientType /\ c1.timer = FALSE /\ c1.failed = c.failed
      /\ Same(c, c1, Fixed \union {"events", "queries", "views"}) /\ Same(c, c1, Link)
      BY <1>1 DEF ClientType, Same, Fixed, Link
<1> HIDE DEF c1
<1>5. /\ Aside(c1, d) /\ Same(c1, d, Link \union {"timer", "failed"})
      /\ d.online = "Offline"
      BY <1>4, SetAndBroadcastAside DEF OnlineStates
<1> HIDE DEF d
<1>6. Aside(c, d)
      BY <1>1, <1>4, <1>5, AsideSame, AsideTrans
<1>7. /\ d.targets = c.targets /\ d.requests = c.requests /\ d.aggregator = c.aggregator
      /\ d.stream = c.stream /\ d.network = c.network /\ ~d.timer /\ d.failed = c.failed
      BY <1>4, <1>5, <1>6 DEF Same, Link, Aside, Fixed
<1>8. Linked(d) /\ Awake(d)
      BY <1>5, <1>7 DEF Ready, Linked, Awake
<1>9. Same(c, d, {"targets"})
      BY <1>7 DEF Same
<1>10. Ready(d) /\ Matched(d)
       BY <1>6, <1>8, <1>9, AsideFits DEF Ready
<1>11. Talk(c, d)
       BY <1>1, <1>7, TalkSame
<1>12. Moved(c, d)
       BY <1>1, <1>6, <1>7, <1>11, AsideMoved
<1> QED BY <1>3, <1>10, <1>12 DEF Moved, Going

\* A listen is sent over the open stream.
LEMMA SendWatchRequestReady ==
  ASSUME NEW c, Ready(c), IsOpen(c.stream), NEW t \in DOMAIN c.targets
  PROVE  LET d == SendWatchRequest(c, t)
         IN  Ready(d) /\ Moved(c, d) /\ Same(c, d, Fixed \union Meta \union {"targets"})
<1> DEFINE x == [op |-> "listen", target |-> t, token |-> c.targets[t]]
<1>1. t \in Targets /\ c.targets[t] \in Tokens
      BY PartialOut DEF Ready, ClientType
<1>2. x \in RequestType
      BY <1>1 DEF RequestType
<1>3. SendWatchRequest(c, t) = SendRequest(c, x)
      BY DEF SendWatchRequest
<1> HIDE DEF x
<1> QED BY <1>2, <1>3, SendRequestReady

\* What every listen sent keeps, the loop over them keeps.
LEMMA SendWatchRequestStays ==
  ASSUME NEW T, NEW c \in T, NEW S, IsFiniteSet(S),
         \A e \in T, y \in S : SendWatchRequest(e, y) \in T
  PROVE  ForEach(SendWatchRequest, c, S) \in T
<1> DEFINE order == SetToSeq(S)
           n == Len(order)
           Is(f) == f = [i \in 0 .. n |-> IF i = 0 THEN c ELSE SendWatchRequest(f[i - 1], order[i])]
           step == [x \in T |-> [y \in S |-> SendWatchRequest(x, y)]]
<1>1. n \in Nat /\ order \in [1 .. n -> S] /\ step \in Steps(T, S)
      BY Listed DEF Steps
<1>2. PICK f : f \in [0 .. n -> T] /\ Run(f, step, c, order, n)
      <2> HIDE DEF order, n, step
      <2> QED BY <1>1, RunExists
<1>3. Is(f)
      <2> HIDE DEF order, n
      <2>1. ASSUME NEW i \in 0 .. n
            PROVE  f[i] = IF i = 0 THEN c ELSE SendWatchRequest(f[i - 1], order[i])
            <3>1. CASE i = 0
                  BY <1>2, <3>1 DEF Run
            <3>2. CASE i # 0
                  <4>1. i \in 1 .. n /\ i - 1 \in 0 .. n
                        BY <1>1, <3>2
                  <4>2. f[i - 1] \in T /\ order[i] \in S /\ f[i] = step[f[i - 1]][order[i]]
                        BY <1>1, <1>2, <4>1 DEF Run
                  <4> QED BY <3>2, <4>2
            <3> QED BY <3>1, <3>2
      <2> QED BY <1>2, <2>1
<1>4. PICK g : g = (CHOOSE h : Is(h))
      OBVIOUS
<1>5. Is(g)
      <2> HIDE DEF Is
      <2> QED BY <1>3, <1>4
<1>6. ForEach(SendWatchRequest, c, S) = g[n]
      BY <1>4 DEF ForEach
<1>7. Along(g, n) /\ g[0] = c
      BY <1>1, <1>5 DEF Along
<1>8. ASSUME NEW i \in 1 .. n, g[i - 1] \in T PROVE g[i] = step[g[i - 1]][order[i]]
      <2>1. i \in 0 .. n /\ i # 0
            BY <1>1
      <2>2. g[i] = SendWatchRequest(g[i - 1], order[i])
            BY <1>5, <2>1
      <2>3. order[i] \in S
            <3> HIDE DEF order, n
            <3> QED BY <1>1
      <2> QED BY <1>8, <2>2, <2>3
<1>9. g \in [0 .. n -> T] /\ Run(g, step, c, order, n)
      <2> HIDE DEF Is, step, n, order
      <2> QED BY <1>1, <1>7, <1>8, RunWithin
<1> HIDE DEF Is, step, n, order
<1> QED BY <1>1, <1>6, <1>9

\* RemoteStore::OnWatchStreamOpen sends every target.
LEMMA OnWatchStreamOpenEffect ==
  ASSUME NEW c, Ready(c), IsOpen(c.stream)
  PROVE  LET d == OnWatchStreamOpen(c)
         IN  Ready(d) /\ Moved(c, d) /\ Same(c, d, Fixed \union Meta \union {"targets"})
<1> DEFINE T == {e \in ClientType : /\ Ready(e) /\ Moved(c, e)
                                    /\ Same(c, e, Fixed \union Meta \union {"targets"})}
<1>1. c \in T
      BY MovedSelf DEF Ready, Same
<1>2. IsFiniteSet(DOMAIN c.targets)
      BY PartialOut DEF Ready, ClientType
<1>3. ASSUME NEW e \in T, NEW t \in DOMAIN c.targets
      PROVE  SendWatchRequest(e, t) \in T
      <2> DEFINE d == SendWatchRequest(e, t)
      <2>1. /\ Ready(e) /\ Moved(c, e) /\ Same(c, e, Fixed \union Meta \union {"targets"})
            /\ c \in ClientType /\ e \in ClientType
            BY DEF Ready
      <2>2. IsOpen(e.stream) /\ t \in DOMAIN e.targets
            BY <2>1 DEF Moved, Talk, Same
      <2>3. Ready(d) /\ Moved(e, d) /\ Same(e, d, Fixed \union Meta \union {"targets"})
            BY <2>1, <2>2, SendWatchRequestReady
      <2> HIDE DEF d
      <2>4. d \in ClientType
            BY <2>3 DEF Ready
      <2>5. Moved(c, d) /\ Same(c, d, Fixed \union Meta \union {"targets"})
            BY <2>1, <2>3, <2>4, MovedTrans, SameTrans
      <2> QED BY <2>3, <2>4, <2>5 DEF d
<1> HIDE DEF T
<1>4. PICK S : S = DOMAIN c.targets
      OBVIOUS
<1>5. ForEach(SendWatchRequest, c, S) \in T
      BY <1>1, <1>2, <1>3, <1>4, SendWatchRequestStays
<1>6. OnWatchStreamOpen(c) \in T
      BY <1>4, <1>5 DEF OnWatchStreamOpen
<1> QED BY <1>6 DEF T

\* Credentials arrive and the stream opens, with nothing to believe yet.
LEMMA StreamOpensEffect ==
  ASSUME NEW c, Ready(c), Matched(c), "current" \in c.stream.asked
  PROVE  LET d == OnWatchStreamOpen(
                    [c EXCEPT !.stream = Resumed(CredentialsArrived(@, "current"))])
         IN  /\ Ready(d) /\ Matched(d) /\ Quiet(c, d) /\ Heeds(d) /\ Counted(d, <<>>)
             /\ ~IsOpen(c.stream)
<1> DEFINE s == Resumed(CredentialsArrived(c.stream, "current"))
           c1 == [c EXCEPT !.stream = s]
           d == OnWatchStreamOpen(c1)
<1>1. /\ c.stream \in StreamType /\ c.stream.sound /\ c.stream.state = "Starting" /\ Linked(c)
      /\ c \in ClientType
      BY DEF Ready, ClientType, Linked
<1>2. ~c.stream.idle /\ c.stream.backoff = FALSE
      <2>1. (c.stream.state = "Backoff") = FALSE
            BY <1>1
      <2> QED BY <1>1, <2>1 DEF Linked, IsOpen
<1>3. /\ s \in StreamType /\ s.sound /\ s.state = "Open" /\ "current" \notin s.asked
      /\ s.backoff = FALSE /\ ~s.idle
      BY <1>1, <1>2 DEF Resumed, CredentialsArrived, HardAssert, StreamType, StreamStates
<1> HIDE DEF s
<1>4. /\ s.backoff = (s.state = "Backoff") /\ ("current" \in s.asked) = (s.state = "Starting")
      <2>1. (s.state = "Backoff") = FALSE /\ (s.state = "Starting") = FALSE
            BY <1>3
      <2>2. ("current" \in s.asked) = FALSE
            BY <1>3
      <2> QED BY <1>3, <2>1, <2>2
<1>5. IsStarted(s) = IsStarted(c.stream) /\ IsOpen(s) /\ ~IsOpen(c.stream)
      BY <1>1, <1>3 DEF IsStarted, IsOpen
<1>6. c1 = [c EXCEPT !.stream = Resumed(CredentialsArrived(@, "current"))]
      BY DEF s, Ready, ClientType
<1> HIDE DEF c1
<1>7. /\ Ready(c1) /\ Matched(c1) /\ Quiet(c, c1) /\ c1.stream = s
      /\ c1.aggregator = c.aggregator /\ c1.requests = c.requests
      BY <1>3, <1>4, <1>5, StreamStep DEF c1
<1>8. Heeds(c1) /\ Counted(c1, <<>>)
      BY <1>1, <1>5, <1>7, ClosedHeeds DEF Linked
<1> HIDE DEF d
<1>9. Ready(d) /\ Moved(c1, d) /\ Same(c1, d, Fixed \union Meta \union {"targets"})
      BY <1>5, <1>7, OnWatchStreamOpenEffect DEF d
<1>10. PICK none : none = <<>> /\ none \in Seq(MessageType)
       <2>1. <<>> \in Seq(MessageType)
             OBVIOUS
       <2> QED BY <2>1
<1>11. Heeds(d) /\ Counted(d, none)
       BY <1>7, <1>8, <1>9, <1>10, HeedsKept DEF Ready, Moved
<1>12. Quiet(c, d) /\ Matched(d)
       <2>1. Matched(d)
             BY <1>7, <1>9, MatchedKept DEF Same, Fixed, Meta
       <2> QED BY <1>1, <1>7, <1>9, <2>1, QuietTrans DEF Ready, Moved
<1> QED BY <1>5, <1>6, <1>9, <1>10, <1>11, <1>12 DEF d

-----------------------------------------------------------------------------
(* The reads of the application.                                           *)

\* What a read may be answered.
Answer == {"server", "cache", "error"}
\* The calls the application has put on the worker queue.
TaskType == [op : {"add", "remove"}, read : Reads]
\* The application.
AppType == [asks : Seq(Asked), tasks : Seq(TaskType), muted : SUBSET Reads,
            answered : Seq(Seq(Answer))]

\* Nothing more comes of a read.
Silent(c, r) == r \notin Listens(c) /\ \A i \in DOMAIN c.events : c.events[i].read # r

\* Reads that are spoken of have been asked.
WellFormed(a) ==
  /\ a \in AppType /\ Len(a.answered) = Len(a.asks) /\ Len(a.asks) <= MaxReads
  /\ \A r \in a.muted : r <= Len(a.asks)
  /\ \A i \in DOMAIN a.tasks : a.tasks[i].read <= Len(a.asks)

\* A read that is still to be added has not been heard of.
Pending(a, c) ==
  \A i \in DOMAIN a.tasks : a.tasks[i].op = "add" =>
    LET r == a.tasks[i].read
    IN  /\ \A j \in DOMAIN a.tasks : a.tasks[j].read = r => j = i
        /\ a.answered[r] = <<>> /\ r \notin a.muted /\ Silent(c, r)

\* A read listens to what it asks for.
Placed(a, c) ==
  \A q \in DOMAIN c.queries : \A r \in c.queries[q].listeners :
    r <= Len(a.asks) /\ a.asks[r] = q

\* An error is the last a read hears.
Final(a, c) ==
  \A i \in DOMAIN c.events :
    /\ c.events[i].read <= Len(a.asks)
    /\ c.events[i].what = "error" =>
         /\ c.events[i].read \notin Listens(c)
         /\ \A j \in i + 1 .. Len(c.events) : c.events[j].read # c.events[i].read

\* A read is answered once, and is muted by it or hears nothing any more.
Once(a, c) ==
  \A r \in DOMAIN a.answered :
    /\ Len(a.answered[r]) <= 1
    /\ a.answered[r] # <<>> /\ r \notin a.muted => Silent(c, r)

\* The reads are in order.
Asking(a, c) == WellFormed(a) /\ Pending(a, c) /\ Placed(a, c) /\ Final(a, c) /\ Once(a, c)

\* A read nothing more comes of stays so, if the step is quiet.
LEMMA SilentKept ==
  ASSUME NEW c \in ClientType, NEW d \in ClientType, Quiet(c, d), NEW r, Silent(c, r)
  PROVE  Silent(d, r)
<1>1. /\ DOMAIN c.events = 1 .. Len(c.events) /\ DOMAIN d.events = 1 .. Len(d.events)
      /\ Len(c.events) \in Nat /\ Len(d.events) \in Nat
      BY LenProperties DEF ClientType
<1>2. Listens(d) \subseteq Listens(c)
      BY DEF Quiet, Listens
<1>3. ASSUME NEW i \in 1 .. Len(d.events)
      PROVE  d.events[i].read # r
      <2>1. CASE i <= Len(c.events)
            <3>1. i \in 1 .. Len(c.events)
                  BY <1>1, <2>1
            <3> QED BY <1>1, <3>1 DEF Quiet, Silent
      <2>2. CASE i > Len(c.events)
            <3>1. i \in Len(c.events) + 1 .. Len(d.events)
                  BY <1>1, <2>2
            <3> QED BY <3>1 DEF Quiet, Silent
      <2> QED BY <1>1, <2>1, <2>2
<1> QED BY <1>1, <1>2, <1>3 DEF Silent

\* A quiet step of the client keeps the reads in order.
LEMMA AskingKept ==
  ASSUME NEW c \in ClientType, NEW d \in ClientType, Quiet(c, d), NEW a, Asking(a, c)
  PROVE  Asking(a, d)
<1>1. /\ DOMAIN c.events = 1 .. Len(c.events) /\ DOMAIN d.events = 1 .. Len(d.events)
      /\ Len(c.events) \in Nat /\ Len(d.events) \in Nat
      BY LenProperties DEF ClientType
<1>2. Listens(d) \subseteq Listens(c)
      BY DEF Quiet, Listens
<1>3. \A r : Silent(c, r) => Silent(d, r)
      BY SilentKept
<1>4. Placed(a, d)
      BY DEF Asking, Placed, Quiet
<1>5. \A r \in Listens(c) : r <= Len(a.asks)
      BY DEF Asking, Placed, Listens
<1>6. ASSUME NEW i \in 1 .. Len(d.events)
      PROVE  /\ d.events[i].read <= Len(a.asks)
             /\ d.events[i].what = "error" =>
                  /\ d.events[i].read \notin Listens(d)
                  /\ \A j \in i + 1 .. Len(d.events) : d.events[j].read # d.events[i].read
      <2>1. CASE i <= Len(c.events)
            <3>1. i \in 1 .. Len(c.events) /\ d.events[i] = c.events[i]
                  BY <1>1, <2>1 DEF Quiet
            <3>2. /\ c.events[i].read <= Len(a.asks)
                  /\ c.events[i].what = "error" =>
                       /\ c.events[i].read \notin Listens(c)
                       /\ \A j \in i + 1 .. Len(c.events) : c.events[j].read # c.events[i].read
                  BY <1>1, <3>1 DEF Asking, Final
            <3>3. ASSUME c.events[i].what = "error", NEW j \in i + 1 .. Len(d.events)
                  PROVE  d.events[j].read # c.events[i].read
                  <4>1. CASE j <= Len(c.events)
                        <5>1. j \in i + 1 .. Len(c.events) /\ d.events[j] = c.events[j]
                              BY <1>1, <3>1, <4>1 DEF Quiet
                        <5> QED BY <3>2, <3>3, <5>1
                  <4>2. CASE j > Len(c.events)
                        <5>1. j \in Len(c.events) + 1 .. Len(d.events)
                              BY <1>1, <3>1, <4>2
                        <5>2. d.events[j].read \in Listens(c)
                              BY <5>1 DEF Quiet
                        <5> QED BY <3>2, <3>3, <5>2
                  <4> QED BY <1>1, <3>1, <4>1, <4>2
            <3> QED BY <1>2, <3>1, <3>2, <3>3
      <2>2. CASE i > Len(c.events)
            <3>1. i \in Len(c.events) + 1 .. Len(d.events)
                  BY <1>1, <2>2
            <3>2. d.events[i].read <= Len(a.asks)
                  BY <1>5, <3>1 DEF Quiet
            <3> QED BY <3>1, <3>2 DEF Quiet
      <2> QED BY <1>1, <2>1, <2>2
<1>7. Final(a, d)
      BY <1>1, <1>6 DEF Final
<1>8. Pending(a, d) /\ Once(a, d)
      BY <1>3 DEF Asking, Pending, Once
<1> QED BY <1>4, <1>7, <1>8 DEF Asking

\* A read asks one thing, hence listens to one query.
LEMMA AskingDistinct ==
  ASSUME NEW a, NEW c, Placed(a, c)
  PROVE  Distinct(c)
BY DEF Placed, Distinct

\* A read is asked.
LEMMA GetAsks ==
  ASSUME NEW c \in ClientType, NEW a, Asking(a, c), NEW q \in Asked, Len(a.asks) < MaxReads
  PROVE  Asking([a EXCEPT !.asks = Append(@, q), !.answered = Append(@, <<>>),
                          !.tasks = Append(@, [op |-> "add", read |-> Len(a.asks) + 1])], c)
<1> DEFINE n == Len(a.asks) + 1
           task == [op |-> "add", read |-> n]
           b == [a EXCEPT !.asks = Append(@, q), !.answered = Append(@, <<>>),
                          !.tasks = Append(@, task)]
<1>1. /\ a.asks \in Seq(Asked) /\ a.tasks \in Seq(TaskType) /\ a.answered \in Seq(Seq(Answer))
      /\ a \in AppType /\ Len(a.answered) = Len(a.asks) /\ Len(a.asks) \in Nat /\ MaxReads \in Nat
      BY LenProperties, BoundsAssumption DEF Asking, WellFormed, AppType
<1>2. /\ DOMAIN a.tasks = 1 .. Len(a.tasks) /\ Len(a.tasks) \in Nat
      /\ DOMAIN a.answered = 1 .. Len(a.asks)
      /\ \A i \in 1 .. Len(a.tasks) : a.tasks[i] \in TaskType
      BY <1>1, LenProperties
<1>3. n \in Reads /\ task \in TaskType /\ <<>> \in Seq(Answer)
      BY <1>1 DEF Reads, TaskType
<1>4. /\ b.asks = Append(a.asks, q) /\ b.answered = Append(a.answered, <<>>)
      /\ b.tasks = Append(a.tasks, task) /\ b.muted = a.muted /\ b \in AppType
      <2>1. Append(a.asks, q) \in Seq(Asked) /\ Append(a.tasks, task) \in Seq(TaskType)
            BY <1>1, <1>3, AppendProperties
      <2>2. PICK S : S = Seq(Answer)
            OBVIOUS
      <2>3. a.answered \in Seq(S) /\ <<>> \in S
            BY <1>1, <1>3, <2>2
      <2>4. Append(a.answered, <<>>) \in Seq(Seq(Answer))
            BY <2>2, <2>3, AppendProperties
      <2>5. PICK x, y, z : x = Append(a.asks, q) /\ y = Append(a.tasks, task)
                             /\ z = Append(a.answered, <<>>)
            OBVIOUS
      <2>6. b = [a EXCEPT !.asks = x, !.answered = z, !.tasks = y]
            BY <2>5
      <2>7. a \in [asks : Seq(Asked), tasks : Seq(TaskType), muted : SUBSET Reads,
                   answered : Seq(Seq(Answer))]
            BY <1>1 DEF AppType
      <2> HIDE DEF b, task
      <2>8. b.asks = x /\ b.answered = z /\ b.tasks = y /\ b.muted = a.muted
            BY <2>6, <2>7
      <2>9. b \in AppType
            BY <2>1, <2>4, <2>5, <2>6, <2>7 DEF AppType
      <2> QED BY <2>5, <2>8, <2>9
<1> HIDE DEF b
<1>5. /\ Len(b.asks) = n /\ Len(b.answered) = n
      /\ \A r \in 1 .. Len(a.asks) : b.asks[r] = a.asks[r] /\ b.answered[r] = a.answered[r]
      /\ b.answered[n] = <<>> /\ DOMAIN b.answered = 1 .. n
      <2>1. /\ Len(Append(a.asks, q)) = Len(a.asks) + 1
            /\ \A r \in 1 .. Len(a.asks) : Append(a.asks, q)[r] = a.asks[r]
            BY <1>1, AppendProperties
      <2>2. PICK S : S = Seq(Answer)
            OBVIOUS
      <2>3. a.answered \in Seq(S) /\ <<>> \in S
            BY <1>1, <1>3, <2>2
      <2>4. /\ Append(a.answered, <<>>) \in Seq(S)
            /\ Len(Append(a.answered, <<>>)) = Len(a.answered) + 1
            /\ \A r \in 1 .. Len(a.answered) : Append(a.answered, <<>>)[r] = a.answered[r]
            /\ Append(a.answered, <<>>)[Len(a.answered) + 1] = <<>>
            BY <2>3, AppendProperties
      <2>5. DOMAIN Append(a.answered, <<>>) = 1 .. Len(a.answered) + 1
            BY <2>4, LenProperties
      <2> QED BY <1>1, <1>4, <2>1, <2>4, <2>5
<1>6. /\ DOMAIN b.tasks = 1 .. Len(a.tasks) + 1
      /\ \A i \in 1 .. Len(a.tasks) : b.tasks[i] = a.tasks[i]
      /\ b.tasks[Len(a.tasks) + 1] = task
      <2>1. /\ Append(a.tasks, task) \in Seq(TaskType)
            /\ Len(Append(a.tasks, task)) = Len(a.tasks) + 1
            /\ \A i \in 1 .. Len(a.tasks) : Append(a.tasks, task)[i] = a.tasks[i]
            /\ Append(a.tasks, task)[Len(a.tasks) + 1] = task
            BY <1>1, <1>3, AppendProperties
      <2>2. DOMAIN Append(a.tasks, task) = 1 .. Len(a.tasks) + 1
            BY <2>1, LenProperties
      <2> QED BY <1>4, <2>1, <2>2
<1>7. ASSUME NEW i \in 1 .. Len(a.tasks)
      PROVE  a.tasks[i].read \in 1 .. Len(a.asks)
      <2>1. PICK r : r = a.tasks[i].read
            OBVIOUS
      <2>2. r \in 1 .. MaxReads
            BY <1>2, <2>1 DEF TaskType, Reads
      <2>3. r <= Len(a.asks)
            BY <1>2, <2>1 DEF Asking, WellFormed
      <2> QED BY <1>1, <2>1, <2>2, <2>3
<1>8. Silent(c, n)
      <2>1. n \notin Listens(c)
            BY <1>1 DEF Asking, Placed, Listens
      <2>2. \A i \in DOMAIN c.events : c.events[i].read # n
            BY <1>1 DEF Asking, Final
      <2> QED BY <2>1, <2>2 DEF Silent
<1>9. WellFormed(b)
      <2>1. \A r \in b.muted : r <= n
            BY <1>1, <1>4 DEF Asking, WellFormed, AppType, Reads
      <2>2. ASSUME NEW i \in DOMAIN b.tasks PROVE b.tasks[i].read <= n
            <3>1. CASE i = Len(a.tasks) + 1
                  <4>1. b.tasks[i] = task /\ task.read = n
                        BY <1>6, <3>1
                  <4> QED BY <1>1, <4>1
            <3>2. CASE i # Len(a.tasks) + 1
                  <4>1. i \in 1 .. Len(a.tasks)
                        BY <1>2, <1>6, <3>2
                  <4>2. PICK k : k = a.tasks[i].read
                        OBVIOUS
                  <4>3. k \in 1 .. Len(a.asks) /\ b.tasks[i].read = k
                        BY <1>6, <1>7, <4>1, <4>2
                  <4> QED BY <1>1, <4>3
            <3> QED BY <3>1, <3>2
      <2> QED BY <1>1, <1>4, <1>5, <2>1, <2>2 DEF WellFormed
<1>10. Pending(b, c)
       <2> SUFFICES ASSUME NEW i \in DOMAIN b.tasks, b.tasks[i].op = "add"
                    PROVE  LET r == b.tasks[i].read
                           IN  /\ \A j \in DOMAIN b.tasks : b.tasks[j].read = r => j = i
                               /\ b.answered[r] = <<>> /\ r \notin b.muted /\ Silent(c, r)
           BY DEF Pending
       <2>1. CASE i = Len(a.tasks) + 1
             <3>1. n \notin a.muted
                   BY <1>1 DEF Asking, WellFormed
             <3>2. ASSUME NEW j \in DOMAIN b.tasks, b.tasks[j].read = n PROVE j = i
                   <4>1. ASSUME j # i PROVE FALSE
                         <5>1. j \in 1 .. Len(a.tasks)
                               BY <1>2, <1>6, <2>1, <4>1
                         <5>2. PICK k : k = a.tasks[j].read
                               OBVIOUS
                         <5>3. k \in 1 .. Len(a.asks) /\ k = n
                               BY <1>6, <1>7, <3>2, <5>1, <5>2
                         <5> QED BY <1>1, <5>3
                   <4> QED BY <4>1
             <3>3. b.tasks[i].read = n
                   BY <1>6, <2>1
             <3> HIDE DEF n
             <3> QED BY <1>4, <1>5, <1>8, <3>1, <3>2, <3>3
       <2>2. CASE i # Len(a.tasks) + 1
             <3>1. i \in 1 .. Len(a.tasks)
                   BY <1>2, <1>6, <2>2
             <3>2. PICK r : r = a.tasks[i].read
                   OBVIOUS
             <3>3. /\ \A j \in 1 .. Len(a.tasks) : a.tasks[j].read = r => j = i
                   /\ a.answered[r] = <<>> /\ r \notin a.muted /\ Silent(c, r)
                   BY <1>2, <1>6, <3>1, <3>2 DEF Asking, Pending
             <3>4. r \in 1 .. Len(a.asks) /\ r # n
                   <4>1. r \in 1 .. Len(a.asks)
                         BY <1>7, <3>1, <3>2
                   <4> QED BY <1>1, <4>1
             <3>5. ASSUME NEW j \in DOMAIN b.tasks, b.tasks[j].read = r PROVE j = i
                   <4>1. b.tasks[Len(a.tasks) + 1].read = n
                         BY <1>6
                   <4>2. j # Len(a.tasks) + 1
                         BY <3>4, <3>5, <4>1
                   <4>3. j \in 1 .. Len(a.tasks)
                         BY <1>2, <1>6, <4>2
                   <4>4. b.tasks[j] = a.tasks[j]
                         BY <1>2, <1>6, <4>3
                   <4> QED BY <3>3, <3>5, <4>3, <4>4
             <3> HIDE DEF n, task
             <3> QED BY <1>4, <1>5, <1>6, <3>1, <3>2, <3>3, <3>4, <3>5
       <2> QED BY <2>1, <2>2
<1>11. Placed(b, c)
       <2> SUFFICES ASSUME NEW x \in DOMAIN c.queries, NEW r \in c.queries[x].listeners
                    PROVE  r <= Len(b.asks) /\ b.asks[r] = x
           BY DEF Placed
       <2>1. r \in Reads
             <3>1. c.queries[x] \in EntryType
                   BY PartialOut DEF ClientType
             <3> QED BY <3>1 DEF EntryType
       <2>2. r <= Len(a.asks) /\ a.asks[r] = x
             BY DEF Asking, Placed
       <2>3. r \in 1 .. Len(a.asks)
             BY <1>1, <2>1, <2>2 DEF Reads
       <2> QED BY <1>1, <1>5, <2>2, <2>3
<1>12. Final(b, c)
       <2> SUFFICES ASSUME NEW i \in DOMAIN c.events
                    PROVE  c.events[i].read <= Len(b.asks)
           BY DEF Asking, Final
       <2>1. c.events[i].read <= Len(a.asks) /\ c.events[i].read \in Nat
             <3>1. c.events[i] \in EventType
                   BY LenProperties, ElementOfSeq DEF ClientType
             <3> QED BY <3>1 DEF Asking, Final, EventType, Reads
       <2> QED BY <1>1, <1>5, <2>1
<1>13. Once(b, c)
       <2> SUFFICES ASSUME NEW r \in DOMAIN b.answered
                    PROVE  /\ Len(b.answered[r]) <= 1
                           /\ b.answered[r] # <<>> /\ r \notin b.muted => Silent(c, r)
           BY DEF Once
       <2>1. CASE r = n
             BY <1>5, <2>1
       <2>2. CASE r # n
             <3>1. r \in 1 .. Len(a.asks)
                   BY <1>1, <1>5, <2>2
             <3> QED BY <1>2, <1>4, <1>5, <3>1 DEF Asking, Once
       <2> QED BY <2>1, <2>2
<1> QED BY <1>9, <1>10, <1>11, <1>12, <1>13 DEF Asking, b

\* The worker queue takes a call of the main queue.
Taken(a) == [a EXCEPT !.tasks = Tail(@)]

\* The calls that are left, one place earlier.
LEMMA TakenShape ==
  ASSUME NEW a, a \in AppType, a.tasks # <<>>
  PROVE  /\ Taken(a) \in AppType /\ Taken(a).asks = a.asks /\ Taken(a).muted = a.muted
         /\ Taken(a).answered = a.answered
         /\ Head(a.tasks) = a.tasks[1] /\ 1 \in DOMAIN a.tasks
         /\ \A i \in DOMAIN Taken(a).tasks :
              i \in Nat /\ i + 1 \in DOMAIN a.tasks /\ i + 1 # 1
              /\ Taken(a).tasks[i] = a.tasks[i + 1]
<1>1. a.tasks \in Seq(TaskType)
      BY DEF AppType
<1>2. /\ Tail(a.tasks) \in Seq(TaskType) /\ Len(Tail(a.tasks)) = Len(a.tasks) - 1
      /\ \A i \in 1 .. Len(Tail(a.tasks)) : Tail(a.tasks)[i] = a.tasks[i + 1]
      BY <1>1, HeadTailProperties
<1>3. /\ DOMAIN a.tasks = 1 .. Len(a.tasks) /\ Len(a.tasks) \in Nat /\ Len(a.tasks) > 0
      /\ DOMAIN Tail(a.tasks) = 1 .. Len(a.tasks) - 1
      BY <1>1, <1>2, LenProperties
<1>4. /\ Taken(a).tasks = Tail(a.tasks) /\ Taken(a).asks = a.asks /\ Taken(a).muted = a.muted
      /\ Taken(a).answered = a.answered /\ Taken(a) \in AppType
      BY <1>2 DEF AppType, Taken
<1>5. Head(a.tasks) = a.tasks[1] /\ 1 \in DOMAIN a.tasks
      BY <1>1, <1>3
<1>6. ASSUME NEW i \in DOMAIN Taken(a).tasks
      PROVE  /\ i \in Nat /\ i + 1 \in DOMAIN a.tasks /\ i + 1 # 1
             /\ Taken(a).tasks[i] = a.tasks[i + 1]
      BY <1>2, <1>3, <1>4
<1> QED BY <1>4, <1>5, <1>6

\* Taking a call keeps the reads in order.
LEMMA TakenAsks ==
  ASSUME NEW c, NEW a, Asking(a, c), a.tasks # <<>>
  PROVE  Asking(Taken(a), c)
<1> DEFINE b == Taken(a)
<1>1. a \in AppType
      BY DEF Asking, WellFormed
<1>2. /\ b \in AppType /\ b.asks = a.asks /\ b.muted = a.muted /\ b.answered = a.answered
      /\ \A i \in DOMAIN b.tasks :
           i \in Nat /\ i + 1 \in DOMAIN a.tasks /\ i + 1 # 1 /\ b.tasks[i] = a.tasks[i + 1]
      BY <1>1, TakenShape
<1> HIDE DEF b
<1>3. WellFormed(b)
      BY <1>2 DEF Asking, WellFormed
<1>4. Pending(b, c)
      <2> SUFFICES ASSUME NEW i \in DOMAIN b.tasks, b.tasks[i].op = "add"
                   PROVE  LET r == b.tasks[i].read
                          IN  /\ \A j \in DOMAIN b.tasks : b.tasks[j].read = r => j = i
                              /\ b.answered[r] = <<>> /\ r \notin b.muted /\ Silent(c, r)
          BY DEF Pending
      <2>1. i + 1 \in DOMAIN a.tasks /\ b.tasks[i] = a.tasks[i + 1] /\ i \in Nat
            BY <1>2
      <2>2. PICK r : r = b.tasks[i].read
            OBVIOUS
      <2>3. /\ \A j \in DOMAIN a.tasks : a.tasks[j].read = r => j = i + 1
            /\ a.answered[r] = <<>> /\ r \notin a.muted /\ Silent(c, r)
            BY <2>1, <2>2 DEF Asking, Pending
      <2>4. ASSUME NEW j \in DOMAIN b.tasks, b.tasks[j].read = r PROVE j = i
            <3>1. j \in Nat /\ j + 1 = i + 1
                  BY <1>2, <2>3, <2>4
            <3> QED BY <2>1, <3>1
      <2> QED BY <1>2, <2>2, <2>3, <2>4
<1>5. Placed(b, c) /\ Final(b, c) /\ Once(b, c)
      BY <1>2 DEF Asking, Placed, Final, Once
<1> QED BY <1>3, <1>4, <1>5 DEF Asking, b

\* AddQueryListener puts the listener of a read in its place.
LEMMA AddAsks ==
  ASSUME NEW c, Ready(c), NEW a, Asking(a, c), a.tasks # <<>>, Head(a.tasks).op = "add"
  PROVE  LET r == Head(a.tasks).read
         IN  r \in Reads /\ a.asks[r] \in Asked /\ Asking(Taken(a), Joined(c, r, a.asks[r]))
<1> DEFINE b == Taken(a)
<1>1. a \in AppType /\ a.tasks \in Seq(TaskType) /\ a.asks \in Seq(Asked) /\ c \in ClientType
      BY DEF Asking, WellFormed, AppType, Ready
<1>2. /\ b \in AppType /\ b.asks = a.asks /\ b.muted = a.muted /\ b.answered = a.answered
      /\ Head(a.tasks) = a.tasks[1] /\ 1 \in DOMAIN a.tasks
      /\ \A i \in DOMAIN b.tasks :
           i \in Nat /\ i + 1 \in DOMAIN a.tasks /\ i + 1 # 1 /\ b.tasks[i] = a.tasks[i + 1]
      BY <1>1, TakenShape
<1>3. Asking(b, c)
      BY TakenAsks
<1> HIDE DEF b
<1>4. PICK r : r = Head(a.tasks).read
      OBVIOUS
<1>5. r \in Reads /\ r <= Len(a.asks) /\ r \in Nat /\ r >= 1
      <2>1. a.tasks[1] \in TaskType
            BY <1>1, <1>2, LenProperties
      <2>2. a.tasks[1].read <= Len(a.asks)
            BY <1>2 DEF Asking, WellFormed
      <2> QED BY <1>2, <1>4, <2>1, <2>2, BoundsAssumption DEF TaskType, Reads
<1>6. PICK q : q = a.asks[r]
      OBVIOUS
<1>7. q \in Asked
      <2>1. Len(a.asks) \in Nat
            BY <1>1, LenProperties
      <2>2. r \in 1 .. Len(a.asks)
            BY <1>5, <2>1
      <2> QED BY <1>1, <1>6, <2>2, ElementOfSeq
<1>8. /\ \A j \in DOMAIN a.tasks : a.tasks[j].read = r => j = 1
      /\ a.answered[r] = <<>> /\ r \notin a.muted /\ Silent(c, r)
      BY <1>2, <1>4 DEF Asking, Pending
<1> DEFINE d == Joined(c, r, q)
<1>9. /\ d.events = c.events
      /\ DOMAIN d.queries = DOMAIN c.queries \union {q}
      /\ \A x \in DOMAIN c.queries : x # q => d.queries[x].listeners = c.queries[x].listeners
      /\ d.queries[q].listeners \subseteq
           {r} \union (IF q \in DOMAIN c.queries THEN c.queries[q].listeners ELSE {})
      BY <1>5, <1>7, JoinedEffect
<1> HIDE DEF d
<1>10. \A x \in DOMAIN d.queries : \A l \in d.queries[x].listeners :
         \/ l = r /\ x = q
         \/ x \in DOMAIN c.queries /\ l \in c.queries[x].listeners
       <2> SUFFICES ASSUME NEW x \in DOMAIN d.queries, NEW l \in d.queries[x].listeners
                    PROVE  \/ l = r /\ x = q
                           \/ x \in DOMAIN c.queries /\ l \in c.queries[x].listeners
           OBVIOUS
       <2>1. CASE x = q
             <3>1. CASE q \in DOMAIN c.queries
                   BY <1>9, <2>1, <3>1
             <3>2. CASE q \notin DOMAIN c.queries
                   BY <1>9, <2>1, <3>2
             <3> QED BY <3>1, <3>2
       <2>2. CASE x # q
             BY <1>9, <2>2
       <2> QED BY <2>1, <2>2
<1>11. Listens(d) \subseteq Listens(c) \union {r}
       BY <1>10 DEF Listens
<1>12. \A x : x # r /\ Silent(c, x) => Silent(d, x)
       BY <1>9, <1>11 DEF Silent
<1>13. Pending(b, d)
       <2> SUFFICES ASSUME NEW i \in DOMAIN b.tasks, b.tasks[i].op = "add"
                    PROVE  LET x == b.tasks[i].read
                           IN  /\ \A j \in DOMAIN b.tasks : b.tasks[j].read = x => j = i
                               /\ b.answered[x] = <<>> /\ x \notin b.muted /\ Silent(d, x)
           BY DEF Pending
       <2>1. PICK x : x = b.tasks[i].read
             OBVIOUS
       <2>2. /\ \A j \in DOMAIN b.tasks : b.tasks[j].read = x => j = i
             /\ b.answered[x] = <<>> /\ x \notin b.muted /\ Silent(c, x)
             BY <1>3, <2>1 DEF Asking, Pending
       <2>3. x # r
             BY <1>2, <1>8, <2>1
       <2> QED BY <1>12, <2>1, <2>2, <2>3
<1>14. Placed(b, d)
       <2> SUFFICES ASSUME NEW x \in DOMAIN d.queries, NEW l \in d.queries[x].listeners
                    PROVE  l <= Len(b.asks) /\ b.asks[l] = x
           BY DEF Placed
       <2>1. CASE l = r /\ x = q
             BY <1>2, <1>5, <1>6, <2>1
       <2>2. CASE x \in DOMAIN c.queries /\ l \in c.queries[x].listeners
             BY <1>3, <2>2 DEF Asking, Placed
       <2> QED BY <1>10, <2>1, <2>2
<1>15. Final(b, d)
       <2> SUFFICES ASSUME NEW i \in DOMAIN c.events, c.events[i].what = "error"
                    PROVE  c.events[i].read \notin Listens(d)
           BY <1>3, <1>9 DEF Asking, Final
       <2>1. c.events[i].read # r
             BY <1>8 DEF Silent
       <2>2. c.events[i].read \notin Listens(c)
             BY <1>3 DEF Asking, Final
       <2> QED BY <1>11, <2>1, <2>2
<1>16. Once(b, d)
       <2> SUFFICES ASSUME NEW x \in DOMAIN b.answered
                    PROVE  /\ Len(b.answered[x]) <= 1
                           /\ b.answered[x] # <<>> /\ x \notin b.muted => Silent(d, x)
           BY DEF Once
       <2>1. /\ Len(b.answered[x]) <= 1
             /\ b.answered[x] # <<>> /\ x \notin b.muted => Silent(c, x)
             BY <1>3 DEF Asking, Once
       <2>2. b.answered[x] # <<>> => x # r
             BY <1>2, <1>8
       <2> QED BY <1>12, <2>1, <2>2
<1>17. Asking(b, d)
       BY <1>3, <1>13, <1>14, <1>15, <1>16 DEF Asking
<1> QED BY <1>4, <1>5, <1>6, <1>7, <1>17 DEF b, d

\* The main queue takes an event.
Popped(c) == [c EXCEPT !.events = Tail(@)]

\* The events that are left, one place earlier.
LEMMA PoppedShape ==
  ASSUME NEW c \in ClientType, c.events # <<>>
  PROVE  /\ Popped(c) \in ClientType /\ Head(c.events) = c.events[1] /\ Head(c.events) \in EventType
         /\ 1 \in DOMAIN c.events /\ DOMAIN c.events = 1 .. Len(c.events) /\ Len(c.events) \in Nat
         /\ Len(Popped(c).events) = Len(c.events) - 1
         /\ DOMAIN Popped(c).events = 1 .. Len(c.events) - 1
         /\ \A i \in DOMAIN Popped(c).events :
              /\ i \in Nat /\ i + 1 \in DOMAIN c.events /\ i + 1 # 1
              /\ Popped(c).events[i] = c.events[i + 1]
         /\ Same(c, Popped(c), Fixed \union Link \union {"queries", "views", "online", "timer",
                                                         "failed", "raised"})
<1>1. c.events \in Seq(EventType)
      BY DEF ClientType
<1>2. /\ Head(c.events) \in EventType
      /\ Tail(c.events) \in Seq(EventType) /\ Len(Tail(c.events)) = Len(c.events) - 1
      /\ \A i \in 1 .. Len(Tail(c.events)) : Tail(c.events)[i] = c.events[i + 1]
      BY <1>1, HeadTailProperties
<1>3. /\ DOMAIN c.events = 1 .. Len(c.events) /\ Len(c.events) \in Nat /\ Len(c.events) > 0
      /\ DOMAIN Tail(c.events) = 1 .. Len(c.events) - 1
      BY <1>1, <1>2, LenProperties
<1>4. Popped(c).events = Tail(c.events) /\ Popped(c) \in ClientType
      BY <1>2 DEF ClientType, Popped
<1>5. Head(c.events) = c.events[1] /\ 1 \in DOMAIN c.events
      BY <1>1, <1>3
<1>6. Same(c, Popped(c), Fixed \union Link \union {"queries", "views", "online", "timer",
                                                   "failed", "raised"})
      BY DEF ClientType, Popped, Same, Fixed, Link
<1> QED BY <1>2, <1>3, <1>4, <1>5, <1>6

\* The client has no part in it.
LEMMA PoppedReady ==
  ASSUME NEW c, Ready(c), c.events # <<>>
  PROVE  LET d == Popped(c)
         IN  Ready(d) /\ (Matched(c) => Matched(d)) /\ Talk(c, d) /\ Steady(c, d)
<1> DEFINE d == Popped(c)
<1>1. c \in ClientType
      BY DEF Ready
<1>2. /\ d \in ClientType
      /\ Same(c, d, Fixed \union Link \union {"queries", "views", "online", "timer", "failed",
           "raised"})
      BY <1>1, PoppedShape
<1> HIDE DEF d
<1>3. /\ d.queries = c.queries /\ d.views = c.views /\ d.online = c.online /\ d.timer = c.timer
      /\ d.failed = c.failed /\ d.targets = c.targets /\ d.active = c.active
      /\ d.waiting = c.waiting /\ d.received = c.received /\ d.stream = c.stream
      /\ d.aggregator = c.aggregator /\ d.requests = c.requests /\ d.network = c.network
      BY <1>2 DEF Same, Fixed, Link
<1>4. Fits(d) /\ Linked(d) /\ Awake(d) /\ (Matched(c) => Matched(d))
      <2>1. Fits(d)
            BY <1>3 DEF Ready, Fits
      <2>2. Linked(d)
            BY <1>3 DEF Ready, Linked
      <2>3. Awake(d) /\ (Matched(c) => Matched(d))
            <3>1. Matched(c) => Matched(d)
                  BY <1>2, MatchedKept DEF Same, Fixed
            <3> QED BY <1>3, <3>1 DEF Ready, Awake
      <2> QED BY <2>1, <2>2, <2>3
<1>5. Talk(c, d)
      BY <1>1, <1>3, TalkSame
<1>6. Steady(c, d)
      BY <1>3 DEF Steady, KeysOf
<1> QED BY <1>2, <1>4, <1>5, <1>6 DEF Ready, d

\* Taking an event keeps the reads in order.
LEMMA PoppedAsks ==
  ASSUME NEW c \in ClientType, NEW a, Asking(a, c), c.events # <<>>
  PROVE  Asking(a, Popped(c))
<1> DEFINE d == Popped(c)
<1>1. /\ DOMAIN c.events = 1 .. Len(c.events) /\ Len(c.events) \in Nat
      /\ Len(d.events) = Len(c.events) - 1
      /\ DOMAIN d.events = 1 .. Len(c.events) - 1
      /\ \A i \in DOMAIN d.events : /\ i \in Nat /\ i + 1 \in DOMAIN c.events
                                    /\ d.events[i] = c.events[i + 1]
      BY PoppedShape
<1>2. d.queries = c.queries
      <2>1. Same(c, d, Fixed \union Link \union {"queries", "views", "online", "timer", "failed",
                                                 "raised"})
            BY PoppedShape
      <2> QED BY <2>1 DEF Same
<1> HIDE DEF d
<1>3. Listens(d) = Listens(c)
      BY <1>2 DEF Listens
<1>4. \A r : Silent(c, r) => Silent(d, r)
      BY <1>1, <1>3 DEF Silent
<1>5. Placed(a, d) /\ Pending(a, d) /\ Once(a, d)
      BY <1>2, <1>4 DEF Asking, Placed, Pending, Once
<1>6. Final(a, d)
      <2> SUFFICES ASSUME NEW i \in DOMAIN d.events
                   PROVE  /\ d.events[i].read <= Len(a.asks)
                          /\ d.events[i].what = "error" =>
                               /\ d.events[i].read \notin Listens(d)
                               /\ \A j \in i + 1 .. Len(d.events) : d.events[j].read # d.events[i].read
          BY DEF Final
      <2>1. i \in Nat /\ i + 1 \in DOMAIN c.events /\ d.events[i] = c.events[i + 1]
            BY <1>1
      <2>2. /\ c.events[i + 1].read <= Len(a.asks)
            /\ c.events[i + 1].what = "error" =>
                 /\ c.events[i + 1].read \notin Listens(c)
                 /\ \A j \in (i + 1) + 1 .. Len(c.events) : c.events[j].read # c.events[i + 1].read
            BY <2>1 DEF Asking, Final
      <2>3. ASSUME d.events[i].what = "error", NEW j \in i + 1 .. Len(d.events)
            PROVE  d.events[j].read # d.events[i].read
            <3>1. /\ j \in DOMAIN d.events /\ j + 1 \in (i + 1) + 1 .. Len(c.events)
                  BY <1>1, <2>1
            <3>2. d.events[j] = c.events[j + 1]
                  BY <1>1, <3>1
            <3> QED BY <2>1, <2>2, <2>3, <3>1, <3>2
      <2> QED BY <1>3, <2>1, <2>2, <2>3
<1> QED BY <1>5, <1>6 DEF Asking, d

\* What becomes of the application when it takes an event.
Told(a, event) ==
  LET r == event.read
      answered == [a EXCEPT !.answered[r] = Append(@, event.what)]
      removed == [answered EXCEPT !.muted = @ \union {r},
                                  !.tasks = Append(@, [op |-> "remove", read |-> r])]
  IN  IF r \in a.muted THEN a ELSE IF event.what = "error" THEN answered ELSE removed

\* One answer more, to one read.
LEMMA AnsweredShape ==
  ASSUME NEW a \in AppType, Len(a.answered) = Len(a.asks), NEW r \in 1 .. Len(a.asks),
         NEW x \in Answer, a.answered[r] = <<>>
  PROVE  LET b == [a EXCEPT !.answered[r] = Append(@, x)]
         IN  /\ b \in AppType /\ b.asks = a.asks /\ b.tasks = a.tasks /\ b.muted = a.muted
             /\ Len(b.answered) = Len(a.answered) /\ DOMAIN b.answered = DOMAIN a.answered
             /\ Len(b.answered[r]) = 1
             /\ \A i \in DOMAIN a.answered : i # r => b.answered[i] = a.answered[i]
<1> DEFINE b == [a EXCEPT !.answered[r] = Append(@, x)]
<1>1. a.answered \in Seq(Seq(Answer)) /\ a.asks \in Seq(Asked)
      BY DEF AppType
<1>2. PICK S : S = Seq(Answer)
      OBVIOUS
<1>3. /\ DOMAIN a.answered = 1 .. Len(a.answered) /\ Len(a.answered) \in Nat
      /\ a.answered \in Seq(S) /\ r \in 1 .. Len(a.answered)
      BY <1>1, <1>2, LenProperties
<1>4. /\ Append(<<>>, x) \in S /\ Len(Append(<<>>, x)) = 1
      <2>1. <<>> \in Seq(Answer) /\ Len(<<>>) = 0
            OBVIOUS
      <2> QED BY <1>2, <2>1, AppendProperties
<1>5. PICK y : y = Append(a.answered[r], x)
      OBVIOUS
<1>6. y \in S /\ Len(y) = 1
      BY <1>4, <1>5
<1>7. PICK s : s = [a.answered EXCEPT ![r] = y]
      OBVIOUS
<1>8. s \in Seq(S) /\ Len(s) = Len(a.answered)
      BY <1>3, <1>6, <1>7, ExceptSeq
<1>9. b = [a EXCEPT !.answered = s]
      BY <1>5, <1>7 DEF AppType
<1> HIDE DEF b
<1>10. /\ b.asks = a.asks /\ b.tasks = a.tasks /\ b.muted = a.muted /\ b.answered = s
       /\ b \in AppType
       BY <1>2, <1>8, <1>9 DEF AppType
<1>11. DOMAIN s = DOMAIN a.answered /\ s[r] = y
       /\ \A i \in DOMAIN a.answered : i # r => s[i] = a.answered[i]
       BY <1>3, <1>7
<1> QED BY <1>6, <1>8, <1>10, <1>11 DEF b

\* One call more, to take the listener away.
LEMMA RemovalShape ==
  ASSUME NEW a \in AppType, NEW r \in Reads
  PROVE  LET b == [a EXCEPT !.muted = @ \union {r},
           !.tasks = Append(@, [op |-> "remove", read |-> r])]
         IN  /\ b \in AppType /\ b.asks = a.asks /\ b.answered = a.answered
             /\ b.muted = a.muted \union {r}
             /\ \A i \in DOMAIN b.tasks :
                  \/ i \in DOMAIN a.tasks /\ b.tasks[i] = a.tasks[i]
                  \/ b.tasks[i].op = "remove" /\ b.tasks[i].read = r
<1> DEFINE task == [op |-> "remove", read |-> r]
           b == [a EXCEPT !.muted = @ \union {r}, !.tasks = Append(@, task)]
<1>1. task \in TaskType /\ a.tasks \in Seq(TaskType) /\ task.op = "remove" /\ task.read = r
      BY DEF AppType, TaskType
<1> HIDE DEF task
<1>2. PICK s : s = Append(a.tasks, task)
      OBVIOUS
<1>3. /\ s \in Seq(TaskType) /\ Len(s) = Len(a.tasks) + 1
      /\ \A i \in 1 .. Len(a.tasks) : s[i] = a.tasks[i]
      /\ s[Len(a.tasks) + 1] = task
      BY <1>1, <1>2, AppendProperties
<1>4. /\ DOMAIN s = 1 .. Len(a.tasks) + 1 /\ DOMAIN a.tasks = 1 .. Len(a.tasks)
      /\ Len(a.tasks) \in Nat
      BY <1>1, <1>3, LenProperties
<1>5. b = [a EXCEPT !.muted = @ \union {r}, !.tasks = s]
      BY <1>2
<1> HIDE DEF b
<1>6. /\ b \in AppType /\ b.asks = a.asks /\ b.answered = a.answered
      /\ b.muted = a.muted \union {r} /\ b.tasks = s
      BY <1>3, <1>5 DEF AppType
<1>7. \A i \in DOMAIN s : \/ i \in DOMAIN a.tasks /\ s[i] = a.tasks[i]
                          \/ s[i] = task
      <2> SUFFICES ASSUME NEW i \in DOMAIN s
                   PROVE  \/ i \in DOMAIN a.tasks /\ s[i] = a.tasks[i]
                          \/ s[i] = task
          OBVIOUS
      <2>1. CASE i \in 1 .. Len(a.tasks)
            BY <1>3, <1>4, <2>1
      <2>2. CASE i = Len(a.tasks) + 1
            BY <1>3, <2>2
      <2> QED BY <1>4, <2>1, <2>2
<1> QED BY <1>1, <1>6, <1>7 DEF b, task

\* A read that hears an event has not been answered before, unless it is muted.
LEMMA FirstEvent ==
  ASSUME NEW c \in ClientType, NEW a, Asking(a, c), c.events # <<>>
  PROVE  LET r == Head(c.events).read
         IN  /\ r \in 1 .. Len(a.asks) /\ r \in Reads /\ ~Silent(c, r)
             /\ r \notin a.muted => a.answered[r] = <<>>
<1>1. /\ Head(c.events) = c.events[1] /\ Head(c.events) \in EventType /\ 1 \in DOMAIN c.events
      BY PoppedShape
<1>2. PICK r : r = Head(c.events).read
      OBVIOUS
<1>3. r \in 1 .. MaxReads /\ MaxReads \in Nat
      BY <1>1, <1>2, BoundsAssumption DEF EventType, Reads
<1>4. r <= Len(a.asks)
      BY <1>1, <1>2 DEF Asking, Final
<1>5. /\ Len(a.asks) \in Nat /\ Len(a.answered) = Len(a.asks)
      /\ DOMAIN a.answered = 1 .. Len(a.answered)
      <2>1. a.asks \in Seq(Asked) /\ a.answered \in Seq(Seq(Answer))
            /\ Len(a.answered) = Len(a.asks)
            BY DEF Asking, WellFormed, AppType
      <2> QED BY <2>1, LenProperties
<1>6. r \in 1 .. Len(a.asks)
      BY <1>3, <1>4, <1>5
<1>7. ~Silent(c, r)
      BY <1>1, <1>2 DEF Silent
<1>8. r \notin a.muted => a.answered[r] = <<>>
      BY <1>5, <1>6, <1>7 DEF Asking, Once
<1> QED BY <1>2, <1>3, <1>6, <1>7, <1>8 DEF Reads

\* ListenOnce::OnEvent keeps the reads in order.
LEMMA ToldAsks ==
  ASSUME NEW c \in ClientType, NEW a, Asking(a, c), c.events # <<>>
  PROVE  Asking(Told(a, Head(c.events)), Popped(c))
<1> DEFINE d == Popped(c)
<1>1. PICK event : event = Head(c.events)
      OBVIOUS
<1>2. PICK r : r = event.read
      OBVIOUS
<1>3. /\ r \in 1 .. Len(a.asks) /\ r \in Reads /\ ~Silent(c, r)
      /\ r \notin a.muted => a.answered[r] = <<>>
      BY <1>1, <1>2, FirstEvent
<1>4. event.what \in Answer /\ event = c.events[1] /\ 1 \in DOMAIN c.events
      BY <1>1, PoppedShape DEF EventType, Answer
<1>5. Asking(a, d)
      BY PoppedAsks
<1>6. a \in AppType /\ Len(a.answered) = Len(a.asks)
      BY DEF Asking, WellFormed
<1>7. d.queries = c.queries
      <2>1. Same(c, d, Fixed \union Link \union {"queries", "views", "online", "timer", "failed",
                                                 "raised"})
            BY PoppedShape
      <2> QED BY <2>1 DEF Same
<1>8. \A i \in DOMAIN d.events : i \in Nat /\ i + 1 \in 2 .. Len(c.events)
      /\ d.events[i] = c.events[i + 1]
      <2>1. /\ DOMAIN c.events = 1 .. Len(c.events) /\ Len(c.events) \in Nat
            /\ \A i \in DOMAIN d.events : /\ i \in Nat /\ i + 1 \in DOMAIN c.events /\ i + 1 # 1
                                          /\ d.events[i] = c.events[i + 1]
            BY PoppedShape
      <2> HIDE DEF d
      <2> QED BY <2>1
<1>9. event.what = "error" => Silent(d, r)
      <2> SUFFICES ASSUME event.what = "error" PROVE Silent(d, r)
          OBVIOUS
      <2>1. /\ r \notin Listens(c)
            /\ \A j \in 1 + 1 .. Len(c.events) : c.events[j].read # r
            BY <1>2, <1>4 DEF Asking, Final
      <2> HIDE DEF d
      <2> QED BY <1>7, <1>8, <2>1 DEF Silent, Listens
<1> HIDE DEF d
<1>10. \A i \in DOMAIN a.tasks : a.tasks[i].op = "add" => a.tasks[i].read # r
       BY <1>3 DEF Asking, Pending
<1> DEFINE b == [a EXCEPT !.answered[r] = Append(@, event.what)]
           e == [b EXCEPT !.muted = @ \union {r},
                          !.tasks = Append(@, [op |-> "remove", read |-> r])]
<1>11. CASE r \in a.muted
       BY <1>1, <1>2, <1>5, <1>11 DEF Told, d
<1>12. CASE r \notin a.muted
       <2>1. /\ b \in AppType /\ b.asks = a.asks /\ b.tasks = a.tasks /\ b.muted = a.muted
             /\ Len(b.answered) = Len(a.answered) /\ DOMAIN b.answered = DOMAIN a.answered
             /\ Len(b.answered[r]) = 1
             /\ \A i \in DOMAIN a.answered : i # r => b.answered[i] = a.answered[i]
             BY <1>3, <1>4, <1>6, <1>12, AnsweredShape
       <2> HIDE DEF b
       <2>2. DOMAIN a.answered = 1 .. Len(a.asks)
             BY <1>6, LenProperties DEF AppType
       <2>3. \A x \in DOMAIN a.answered : /\ Len(b.answered[x]) <= 1
                                          /\ x # r => b.answered[x] = a.answered[x]
             <3> SUFFICES ASSUME NEW x \in DOMAIN a.answered
                          PROVE  Len(b.answered[x]) <= 1 /\ (x # r => b.answered[x] = a.answered[x])
                 OBVIOUS
             <3>1. Len(a.answered[x]) <= 1
                   BY <1>5 DEF Asking, Once
             <3>2. CASE x = r
                   <4>1. Len(b.answered[x]) = 1
                         BY <2>1, <3>2
                   <4>2. 1 <= 1
                         OBVIOUS
                   <4> QED BY <3>2, <4>1, <4>2
             <3>3. CASE x # r
                   BY <2>1, <3>1, <3>3
             <3> QED BY <3>2, <3>3
       <2>4. ASSUME NEW i \in DOMAIN a.tasks, a.tasks[i].op = "add"
             PROVE  LET x == a.tasks[i].read
                    IN  /\ \A j \in DOMAIN a.tasks : a.tasks[j].read = x => j = i
                        /\ b.answered[x] = <<>> /\ x \notin a.muted /\ Silent(d, x) /\ x # r
             <3>1. PICK x : x = a.tasks[i].read
                   OBVIOUS
             <3>2. /\ \A j \in DOMAIN a.tasks : a.tasks[j].read = x => j = i
                   /\ a.answered[x] = <<>> /\ x \notin a.muted /\ Silent(d, x)
                   BY <1>5, <2>4, <3>1 DEF Asking, Pending
             <3>3. x # r
                   BY <1>10, <2>4, <3>1
             <3>4. x \in DOMAIN a.answered
                   <4>1. a.tasks[i] \in TaskType
                         BY <1>6, <2>4, LenProperties DEF AppType
                   <4>2. x \in 1 .. MaxReads /\ x <= Len(a.asks)
                         BY <2>4, <3>1, <4>1 DEF TaskType, Reads, Asking, WellFormed
                   <4>3. Len(a.asks) \in Nat
                         BY <1>6, LenProperties DEF AppType
                   <4> QED BY <2>2, <4>2, <4>3, BoundsAssumption
             <3> QED BY <2>1, <3>1, <3>2, <3>3, <3>4
       <2>5. Placed(b, d) /\ Final(b, d)
             BY <1>5, <2>1 DEF Asking, Placed, Final
       <2>6. WellFormed(b)
             BY <1>5, <1>6, <2>1 DEF Asking, WellFormed
       <2>7. CASE event.what = "error"
             <3>1. Pending(b, d)
                   BY <2>1, <2>4 DEF Pending
             <3>2. Once(b, d)
                   <4> SUFFICES ASSUME NEW x \in DOMAIN a.answered
                                PROVE  b.answered[x] # <<>> /\ x \notin a.muted => Silent(d, x)
                       BY <2>1, <2>3 DEF Once
                   <4>1. CASE x = r
                         BY <1>9, <2>7, <4>1
                   <4>2. CASE x # r
                         BY <1>5, <2>3, <4>2 DEF Asking, Once
                   <4> QED BY <4>1, <4>2
             <3>3. Asking(b, d)
                   BY <2>5, <2>6, <3>1, <3>2 DEF Asking
             <3>4. Told(a, event) = b
                   BY <1>2, <1>12, <2>7 DEF Told, b
             <3> QED BY <1>1, <3>3, <3>4 DEF d
       <2>8. CASE event.what # "error"
             <3>1. /\ e \in AppType /\ e.asks = b.asks /\ e.answered = b.answered
                   /\ e.muted = b.muted \union {r}
                   /\ \A i \in DOMAIN e.tasks :
                        \/ i \in DOMAIN b.tasks /\ e.tasks[i] = b.tasks[i]
                        \/ e.tasks[i].op = "remove" /\ e.tasks[i].read = r
                   BY <1>3, <2>1, RemovalShape
             <3> HIDE DEF e
             <3>2. Pending(e, d)
                   <4> SUFFICES ASSUME NEW i \in DOMAIN e.tasks, e.tasks[i].op = "add"
                                PROVE  LET x == e.tasks[i].read
                                       IN  /\ \A j \in DOMAIN e.tasks : e.tasks[j].read = x => j = i
                                           /\ e.answered[x] = <<>> /\ x \notin e.muted
                                           /\ Silent(d, x)
                       BY DEF Pending
                   <4>1. i \in DOMAIN a.tasks /\ e.tasks[i] = a.tasks[i]
                         BY <2>1, <3>1
                   <4>2. PICK x : x = a.tasks[i].read
                         OBVIOUS
                   <4>3. /\ \A j \in DOMAIN a.tasks : a.tasks[j].read = x => j = i
                         /\ b.answered[x] = <<>> /\ x \notin a.muted /\ Silent(d, x) /\ x # r
                         BY <2>4, <4>1, <4>2
                   <4>4. \A j \in DOMAIN e.tasks : e.tasks[j].read = x => j = i
                         BY <2>1, <3>1, <4>3
                   <4> QED BY <2>1, <3>1, <4>1, <4>2, <4>3, <4>4
             <3>3. Once(e, d)
                   <4> SUFFICES ASSUME NEW x \in DOMAIN a.answered
                                PROVE  b.answered[x] # <<>> /\ x \notin e.muted => Silent(d, x)
                       BY <2>1, <2>3, <3>1 DEF Once
                   <4>1. CASE x = r
                         BY <3>1, <4>1
                   <4>2. CASE x # r
                         BY <1>5, <2>1, <2>3, <3>1, <4>2 DEF Asking, Once
                   <4> QED BY <4>1, <4>2
             <3>4. WellFormed(e)
                   <4>1. \A x \in e.muted : x <= Len(e.asks)
                         <5>1. r <= Len(a.asks)
                               <6>1. Len(a.asks) \in Nat
                                     BY <1>6, LenProperties DEF AppType
                               <6> QED BY <1>3, <6>1
                         <5> QED BY <1>5, <2>1, <3>1, <5>1 DEF Asking, WellFormed
                   <4>2. \A i \in DOMAIN e.tasks : e.tasks[i].read <= Len(e.asks)
                         <5>1. r <= Len(a.asks)
                               <6>1. Len(a.asks) \in Nat
                                     BY <1>6, LenProperties DEF AppType
                               <6> QED BY <1>3, <6>1
                         <5> QED BY <2>1, <2>6, <3>1, <5>1 DEF WellFormed
                   <4> QED BY <2>6, <3>1, <4>1, <4>2 DEF WellFormed
             <3>5. Placed(e, d) /\ Final(e, d)
                   BY <2>5, <3>1 DEF Placed, Final
             <3>6. Asking(e, d)
                   BY <3>2, <3>3, <3>4, <3>5 DEF Asking
             <3>7. Told(a, event) = e
                   BY <1>2, <1>12, <2>8 DEF Told, e, b
             <3> QED BY <1>1, <3>6, <3>7 DEF d
       <2> QED BY <2>7, <2>8
<1> QED BY <1>11, <1>12

-----------------------------------------------------------------------------
(* The inductive invariant.                                                *)

\* The server has said only what it may say, and nothing to a stream that is not
\* open.
Serving ==
  /\ truth \in [Docs -> Status]
  /\ told \in Partial(Targets, SUBSET Docs) /\ \A t \in DOMAIN told : MayListen(t)
  /\ answers \in Seq(MessageType) /\ \A i \in DOMAIN answers : Permitted(answers[i])
  /\ ~IsOpen(client.stream) => answers = <<>> /\ told = NoEntries

\* The inductive invariant.
IInv ==
  /\ Asking(app, client) /\ Ready(client) /\ Matched(client)
  /\ Heeds(client) /\ Counted(client, answers) /\ Serving

\* It holds when the application starts.
LEMMA Initially == Init => IInv
<1> SUFFICES ASSUME Init PROVE IInv
    OBVIOUS
<1>1. /\ NoEntries \in Partial(Asked, EntryType) /\ NoEntries \in Partial(Asked, ViewType)
      /\ NoEntries \in Partial(Docs, Docs \X Nat) /\ NoEntries \in Partial(Targets, Tokens)
      /\ NoEntries \in Partial(Targets, TargetStateType) /\ NoEntries \in Partial(Docs, Status)
      /\ NoEntries \in Partial(Targets, SUBSET Docs) /\ DOMAIN NoEntries = {}
      BY PartialNone
<1>2. NewAggregator \in AggregatorType
      BY <1>1 DEF NewAggregator, AggregatorType
<1>3. /\ NewStream \in StreamType /\ NewStream.sound /\ NewStream.asked = {}
      /\ NewStream.state # "Starting" /\ NewStream.state # "Backoff" /\ NewStream.backoff = FALSE
      /\ ~NewStream.idle /\ ~IsOpen(NewStream) /\ ~IsStarted(NewStream)
      <2>1. NewStream.asked \in SUBSET {"current", "stale"}
            BY DEF NewStream
      <2> QED BY <2>1 DEF NewStream, StreamType, StreamStates, IsOpen, IsStarted
<1>4. /\ client.queries = NoEntries /\ client.views = NoEntries /\ client.active = NoEntries
      /\ client.targets = NoEntries /\ client.events = <<>> /\ client.raised = {}
      /\ client.refs = {} /\ client.received = {} /\ client.waiting = <<>>
      /\ client.nextLimbo = 1 /\ client.cache = [d \in Docs |-> "in"]
      /\ client.saved = [q \in Asked |-> [token |-> {}, keys |-> {}]]
      /\ client.network = TRUE /\ client.stream = NewStream /\ client.aggregator = NewAggregator
      /\ client.online = "Unknown" /\ client.failed = FALSE /\ client.timer = FALSE
      /\ client.requests = <<>>
      BY DEF Init
<1>5. client \in ClientType
      <2>1. client.cache \in [Docs -> Status] /\ client.saved \in [Asked -> SavedType]
            BY <1>4 DEF Status, SavedType, Tokens
      <2>2. client.active \in LookupType
            BY <1>1, <1>4 DEF LookupType
      <2>3. client = [events |-> client.events, queries |-> client.queries,
                      raised |-> client.raised, views |-> client.views, refs |-> client.refs,
                      active |-> client.active, received |-> client.received,
                      waiting |-> client.waiting, nextLimbo |-> client.nextLimbo,
                      cache |-> client.cache, saved |-> client.saved,
                      targets |-> client.targets, network |-> client.network,
                      stream |-> client.stream, aggregator |-> client.aggregator,
                      online |-> client.online, failed |-> client.failed,
                      timer |-> client.timer, requests |-> client.requests]
            BY <1>4 DEF Init
      <2>4. /\ client.events \in Seq(EventType) /\ client.waiting \in Seq(Docs)
            /\ client.requests \in Seq(RequestType)
            BY <1>4
      <2>5. /\ client.queries \in Partial(Asked, EntryType)
               /\ client.views \in Partial(Asked, ViewType)
            /\ client.targets \in Partial(Targets, Tokens)
            BY <1>1, <1>4
      <2>6. /\ client.raised \in SUBSET Reads /\ client.refs \in SUBSET (Docs \X Asked)
            /\ client.received \in SUBSET Docs /\ client.nextLimbo \in Nat
            /\ client.online \in OnlineStates
            BY <1>4 DEF OnlineStates
      <2>8. client.network \in BOOLEAN /\ client.failed \in BOOLEAN /\ client.timer \in BOOLEAN
            BY <1>4
      <2>7. client.stream \in StreamType /\ client.aggregator \in AggregatorType
            BY <1>2, <1>3, <1>4
      <2> QED BY <2>1, <2>2, <2>3, <2>4, <2>5, <2>6, <2>7, <2>8 DEF ClientType
<1>6. Fits(client)
      <2>1. Range(client.active) = {} /\ DOMAIN client.active = {} /\ DOMAIN client.views = {}
            /\ DOMAIN client.targets = {} /\ Range(client.waiting) = {}
            BY <1>1, <1>4 DEF Range
      <2>2. NoRepeats(client.waiting)
            BY <1>4 DEF NoRepeats
      <2>3. Cardinality(DOMAIN client.active) <= MaxLimbo
            BY <2>1, FS_EmptySet, LimboAssumption
      <2> QED BY <1>4, <2>1, <2>2, <2>3 DEF Fits
<1>7. Linked(client) /\ Awake(client)
      <2>1. ("current" \in client.stream.asked) = (client.stream.state = "Starting")
            BY <1>3, <1>4
      <2>2. client.stream.backoff = (client.stream.state = "Backoff")
            <3>1. (client.stream.state = "Backoff") = FALSE
                  BY <1>3, <1>4
            <3> QED BY <1>3, <1>4, <3>1
      <2> QED BY <1>1, <1>3, <1>4, <2>1, <2>2 DEF Linked, Awake
<1>8. Ready(client) /\ Matched(client)
      <2>1. /\ DOMAIN client.views = {} /\ DOMAIN client.queries = {} /\ client.refs = {}
            /\ DOMAIN client.active = {} /\ client.waiting = <<>> /\ Range(client.waiting) = {}
            BY <1>1, <1>4 DEF Range
      <2>2. Chased(client)
            BY <2>1 DEF Chased, Busy, Lookups, Wanted
      <2>3. Referred(client) = {}
            BY <2>1 DEF Referred
      <2> QED BY <1>5, <1>6, <1>7, <2>1, <2>2, <2>3 DEF Ready, Matched, Tracks
<1>9. Heeds(client) /\ Counted(client, <<>>)
      BY <1>4, <1>8, ClosedHeeds
<1>10. answers = <<>> /\ Serving
       <2>1. truth \in [Docs -> Status]
             BY StoredAssumption DEF Init, Status
       <2>2. answers = <<>> /\ told = NoEntries
             BY DEF Init
       <2> QED BY <1>1, <2>1, <2>2 DEF Serving
<1>11. Asking(app, client)
       <2>1. app.asks = <<>> /\ app.tasks = <<>> /\ app.muted = {} /\ app.answered = <<>>
             /\ app \in AppType
             BY DEF Init, AppType
       <2>2. WellFormed(app)
             <3>1. Len(app.asks) <= MaxReads
                   BY <2>1, BoundsAssumption
             <3> QED BY <2>1, <3>1 DEF WellFormed
       <2>3. Pending(app, client) /\ Once(app, client)
             BY <2>1 DEF Pending, Once
       <2>4. Placed(app, client) /\ Final(app, client)
             BY <1>1, <1>4 DEF Placed, Final
       <2> QED BY <2>2, <2>3, <2>4 DEF Asking
<1> QED BY <1>8, <1>9, <1>10, <1>11 DEF IInv

\* A step of the client alone keeps the invariant when it keeps the client in
\* order: the stream is closed after it, or it sends and takes nothing but
\* requests, or it opens the stream.
LEMMA ClientSteps ==
  ASSUME IInv, NEW next, ClientStep(next), Ready(next), Matched(next), Asking(app', next),
         \/ ~IsOpen(next.stream)
         \/ Talk(client, next) /\ Steady(client, next)
         \/ ~IsOpen(client.stream) /\ Heeds(next) /\ Counted(next, <<>>)
  PROVE  IInv'
<1>1. client' = next /\ truth' = truth
      BY DEF ClientStep
<1>2. /\ IsOpen(client.stream) /\ ~IsOpen(next.stream) => told' = NoEntries /\ answers' = <<>>
      /\ ~(IsOpen(client.stream) /\ ~IsOpen(next.stream)) => told' = told /\ answers' = answers
      BY <1>1 DEF ClientStep
<1>3. /\ Ready(client) /\ Heeds(client) /\ Counted(client, answers) /\ answers \in Seq(MessageType)
      /\ \A i \in DOMAIN answers : Permitted(answers[i])
      /\ ~IsOpen(client.stream) => answers = <<>> /\ told = NoEntries
      /\ told \in Partial(Targets, SUBSET Docs) /\ \A t \in DOMAIN told : MayListen(t)
      /\ truth \in [Docs -> Status]
      BY DEF IInv, Serving
<1>4. /\ told' \in Partial(Targets, SUBSET Docs) /\ \A t \in DOMAIN told' : MayListen(t)
      BY <1>2, <1>3, PartialNone
<1>5. /\ answers' \in Seq(MessageType) /\ \A i \in DOMAIN answers' : Permitted(answers'[i])
      /\ ~IsOpen(next.stream) => answers' = <<>> /\ told' = NoEntries
      <2>1. CASE IsOpen(client.stream) /\ ~IsOpen(next.stream)
            BY <1>2, <2>1
      <2>2. CASE ~(IsOpen(client.stream) /\ ~IsOpen(next.stream))
            BY <1>2, <1>3, <2>2
      <2> QED BY <2>1, <2>2
<1>6. Heeds(next) /\ Counted(next, answers')
      <2>1. CASE ~IsOpen(next.stream)
            <3>1. next.aggregator = NewAggregator /\ next.requests = <<>>
                  BY <2>1 DEF Ready, Linked
            <3> QED BY <1>5, <2>1, <3>1, ClosedHeeds
      <2>2. CASE IsOpen(next.stream) /\ Talk(client, next) /\ Steady(client, next)
            <3>1. answers' = answers
                  BY <1>2, <2>2
            <3>2. client \in ClientType /\ next \in ClientType /\ Linked(client)
                  BY <1>3 DEF Ready
            <3> QED BY <1>3, <2>2, <3>1, <3>2, HeedsKept
      <2>3. CASE ~IsOpen(client.stream) /\ Heeds(next) /\ Counted(next, <<>>)
            <3>1. answers' = <<>>
                  BY <1>2, <1>3, <2>3
            <3> QED BY <2>3, <3>1
      <2> QED BY <2>1, <2>2, <2>3
<1>7. Serving'
      BY <1>1, <1>3, <1>4, <1>5 DEF Serving
<1>8. /\ Ready(client)' /\ Matched(client)' /\ Heeds(client)' /\ Counted(client, answers)'
      /\ Asking(app, client)'
      BY <1>1, <1>6
<1> QED BY <1>7, <1>8 DEF IInv

-----------------------------------------------------------------------------
(* The steps of the client.                                                *)

\* Get, for a document or for the deck.
LEMMA GetKeeps ==
  ASSUME IInv, NEW q \in Asked, Get(q)
  PROVE  IInv'
<1>1. /\ client' = client /\ truth' = truth /\ told' = told /\ answers' = answers
      /\ Len(app.asks) < MaxReads
      /\ app' = [app EXCEPT !.asks = Append(@, q), !.answered = Append(@, <<>>),
                            !.tasks = Append(@, [op |-> "add", read |-> Len(app.asks) + 1])]
      BY DEF Get, server
<1>2. Asking(app, client) /\ client \in ClientType
      BY DEF IInv, Ready
<1>3. Asking(app', client)
      BY <1>1, <1>2, GetAsks
<1>4. Serving'
      BY <1>1 DEF IInv, Serving
<1>5. Ready(client)' /\ Matched(client)' /\ Heeds(client)' /\ Counted(client, answers)'
      BY <1>1 DEF IInv
<1> QED BY <1>1, <1>3, <1>4, <1>5 DEF IInv

\* RunTask: a listener is added or taken away.
LEMMA RunTaskKeeps ==
  ASSUME IInv, RunTask
  PROVE  IInv'
<1> DEFINE task == Head(app.tasks)
           q == app.asks[task.read]
           next == IF task.op = "add" THEN AddQueryListener(client, task.read, q)
                                      ELSE RemoveQueryListener(client, task.read, q)
<1>1. /\ app.tasks # <<>> /\ app' = [app EXCEPT !.tasks = Tail(@)]
      /\ ClientStep(next)
      BY DEF RunTask
<1>2. /\ Ready(client) /\ Matched(client) /\ Asking(app, client) /\ client \in ClientType
      BY DEF IInv, Ready
<1>3. Asking(Taken(app), client) /\ app' = Taken(app)
      BY <1>1, <1>2, TakenAsks DEF Taken
<1>4. CASE task.op = "add"
      <2>1. task.read \in Reads /\ q \in Asked /\ Asking(app', Joined(client, task.read, q))
            <3>1. LET r == Head(app.tasks).read
                  IN  /\ r \in Reads /\ app.asks[r] \in Asked
                      /\ Asking(Taken(app), Joined(client, r, app.asks[r]))
                  BY <1>1, <1>2, <1>4, AddAsks
            <3> QED BY <1>3, <3>1
      <2>2. PICK r, x : r = task.read /\ x = q
            OBVIOUS
      <2>3. PICK n : n = AddQueryListener(client, r, x)
            OBVIOUS
      <2>4. /\ Ready(n) /\ Matched(n) /\ Talk(client, n) /\ Steady(client, n)
            /\ Quiet(Joined(client, r, x), n)
            BY <1>2, <2>1, <2>2, <2>3, AddQueryListenerEffect
      <2>5. Ready(Joined(client, r, x))
            BY <1>2, <2>1, <2>2, JoinedEffect
      <2>6. Asking(app', n)
            BY <2>1, <2>2, <2>4, <2>5, AskingKept DEF Ready
      <2>7. ClientStep(n)
            BY <1>1, <1>4, <2>2, <2>3
      <2> QED BY <2>4, <2>6, <2>7, ClientSteps
<1>5. CASE task.op # "add"
      <2>2. PICK r, x : r = task.read /\ x = q
            OBVIOUS
      <2>3. PICK n : n = RemoveQueryListener(client, r, x)
            OBVIOUS
      <2>4. Ready(n) /\ Going(client, n) /\ Matched(n)
            BY <1>2, <2>3, RemoveQueryListenerEffect
      <2>5. Quiet(client, n) /\ Talk(client, n) /\ Steady(client, n)
            BY <2>4 DEF Going
      <2>6. Asking(app', n)
            BY <1>2, <1>3, <2>4, <2>5, AskingKept DEF Ready
      <2>7. ClientStep(n)
            BY <1>1, <1>5, <2>2, <2>3
      <2> QED BY <2>4, <2>5, <2>6, <2>7, ClientSteps
<1> QED BY <1>4, <1>5

\* Deliver: a listener hears an event.
LEMMA DeliverKeeps ==
  ASSUME IInv, Deliver
  PROVE  IInv'
<1>1. /\ client.events # <<>> /\ client' = Popped(client)
      /\ app' = Told(app, Head(client.events))
      /\ truth' = truth /\ told' = told /\ answers' = answers
      BY DEF Deliver, Popped, Told, server
<1>2. /\ Ready(client) /\ Matched(client) /\ Asking(app, client) /\ client \in ClientType
      /\ Linked(client) /\ Heeds(client) /\ Counted(client, answers)
      /\ answers \in Seq(MessageType)
      BY DEF IInv, Ready, Serving
<1>3. PICK n : n = Popped(client)
      OBVIOUS
<1>4. Ready(n) /\ Matched(n) /\ Talk(client, n) /\ Steady(client, n)
      BY <1>1, <1>2, <1>3, PoppedReady
<1>5. Heeds(n) /\ Counted(n, answers)
      BY <1>2, <1>4, HeedsKept DEF Ready
<1>6. Asking(app', n)
      BY <1>1, <1>2, <1>3, ToldAsks
<1>7. n.stream = client.stream
      BY <1>3 DEF Popped
<1>8. Serving'
      BY <1>1, <1>3, <1>7 DEF IInv, Serving
<1>9. client' = n
      BY <1>1, <1>3
<1>10. Asking(app, client)' /\ Ready(client)' /\ Matched(client)' /\ Heeds(client)'
       /\ Counted(client, answers)'
       BY <1>1, <1>4, <1>5, <1>6, <1>9
<1> QED BY <1>8, <1>10 DEF IInv

\* A step of the client that has no part in the reads.
LEMMA QuietSteps ==
  ASSUME IInv, NEW next, ClientStep(next), app' = app, Ready(next), Matched(next),
         Quiet(client, next),
         \/ ~IsOpen(next.stream)
         \/ Talk(client, next) /\ Steady(client, next)
         \/ ~IsOpen(client.stream) /\ Heeds(next) /\ Counted(next, <<>>)
  PROVE  IInv'
<1>1. Asking(app, client) /\ client \in ClientType /\ next \in ClientType
      BY DEF IInv, Ready
<1>2. Asking(app', next)
      BY <1>1, AskingKept
<1> QED BY <1>2, ClientSteps

\* The network, the stream and its timers.
LEMMA StreamActionsKeep ==
  ASSUME IInv,
         \/ Reconnect \/ TurnNetworkOff \/ TurnNetworkOn \/ StreamOpens \/ CredentialsFail
         \/ StaleCredentials \/ BackoffEnds \/ IdleTimeout \/ OnlineTimeout \/ StreamBreaks
  PROVE  IInv'
<1>1. Ready(client) /\ Matched(client)
      BY DEF IInv
<1>2. CASE Reconnect
      <2>1. PICK n : n = RestartNetwork(client)
            OBVIOUS
      <2>2. Ready(n) /\ Matched(n) /\ Quiet(client, n) /\ ~IsOpen(n.stream)
            BY <1>1, <2>1, RestartNetworkEffect
      <2>3. ClientStep(n) /\ app' = app
            BY <1>2, <2>1 DEF Reconnect
      <2> QED BY <2>2, <2>3, QuietSteps
<1>3. CASE TurnNetworkOff
      <2>1. PICK n : n = DisableNetwork(client)
            OBVIOUS
      <2>2. Ready(n) /\ Matched(n) /\ Quiet(client, n) /\ ~IsOpen(n.stream)
            BY <1>1, <2>1, DisableNetworkEffect
      <2>3. ClientStep(n) /\ app' = app
            BY <1>3, <2>1 DEF TurnNetworkOff
      <2> QED BY <2>2, <2>3, QuietSteps
<1>4. CASE TurnNetworkOn
      <2>1. PICK n : n = EnableNetwork(client)
            OBVIOUS
      <2>2. Ready(n) /\ Matched(n) /\ Quiet(client, n) /\ ~IsOpen(n.stream)
            BY <1>1, <1>4, <2>1, EnableNetworkEffect DEF TurnNetworkOn
      <2>3. ClientStep(n) /\ app' = app
            BY <1>4, <2>1 DEF TurnNetworkOn
      <2> QED BY <2>2, <2>3, QuietSteps
<1>5. CASE StreamOpens
      <2>1. PICK n : n = OnWatchStreamOpen(
                           [client EXCEPT !.stream = Resumed(CredentialsArrived(@, "current"))])
            OBVIOUS
      <2>2. /\ Ready(n) /\ Matched(n) /\ Quiet(client, n) /\ Heeds(n) /\ Counted(n, <<>>)
            /\ ~IsOpen(client.stream)
            BY <1>1, <1>5, <2>1, StreamOpensEffect DEF StreamOpens
      <2>3. ClientStep(n) /\ app' = app
            BY <1>5, <2>1 DEF StreamOpens
      <2> QED BY <2>2, <2>3, QuietSteps
<1>6. CASE CredentialsFail
      <2>1. PICK n : n = Close(Check([client EXCEPT !.stream = CredentialsArrived(@, "current")],
                                     client.stream.state = "Starting"), FALSE)
            OBVIOUS
      <2>2. Ready(n) /\ Matched(n) /\ Quiet(client, n) /\ ~IsOpen(n.stream)
            BY <1>1, <1>6, <2>1, CredentialsFailEffect DEF CredentialsFail
      <2>3. ClientStep(n) /\ app' = app
            BY <1>6, <2>1 DEF CredentialsFail
      <2> QED BY <2>2, <2>3, QuietSteps
<1>7. CASE StaleCredentials
      <2>1. PICK n : n = [client EXCEPT !.stream = CredentialsArrived(@, "stale")]
            OBVIOUS
      <2>2. Ready(n) /\ Matched(n) /\ Quiet(client, n) /\ Talk(client, n) /\ Steady(client, n)
            BY <1>1, <2>1, StaleCredentialsEffect DEF Going
      <2>3. ClientStep(n) /\ app' = app
            BY <1>7, <2>1 DEF StaleCredentials
      <2> QED BY <2>2, <2>3, QuietSteps
<1>8. CASE BackoffEnds
      <2>1. PICK n : n = [client EXCEPT !.stream = BackoffElapsed(@)]
            OBVIOUS
      <2>2. Ready(n) /\ Matched(n) /\ Quiet(client, n) /\ Talk(client, n) /\ Steady(client, n)
            BY <1>1, <1>8, <2>1, BackoffEndsEffect DEF Going, BackoffEnds
      <2>3. ClientStep(n) /\ app' = app
            BY <1>8, <2>1 DEF BackoffEnds
      <2> QED BY <2>2, <2>3, QuietSteps
<1>9. CASE IdleTimeout
      <2>1. PICK n : n = Stop(client)
            OBVIOUS
      <2>2. Ready(n) /\ Matched(n) /\ Quiet(client, n) /\ ~IsOpen(n.stream)
            BY <1>1, <1>9, <2>1, IdleTimeoutEffect DEF IdleTimeout
      <2>3. ClientStep(n) /\ app' = app
            BY <1>9, <2>1 DEF IdleTimeout
      <2> QED BY <2>2, <2>3, QuietSteps
<1>10. CASE OnlineTimeout
       <2>1. PICK n : n = OnlineTimerFired(client)
             OBVIOUS
       <2>2. Ready(n) /\ Matched(n) /\ Quiet(client, n) /\ Talk(client, n) /\ Steady(client, n)
             BY <1>1, <1>10, <2>1, OnlineTimeoutEffect DEF Going, OnlineTimeout
       <2>3. ClientStep(n) /\ app' = app
             BY <1>10, <2>1 DEF OnlineTimeout
       <2> QED BY <2>2, <2>3, QuietSteps
<1>11. CASE StreamBreaks
       <2>1. PICK n : n = Close(client, FALSE)
             OBVIOUS
       <2>2. IsStarted(client.stream)
             BY <1>11 DEF StreamBreaks, IsOpen, IsStarted
       <2>3. Ready(n) /\ Matched(n) /\ Quiet(client, n) /\ ~IsOpen(n.stream)
             BY <1>1, <2>1, <2>2, CloseReady
       <2>4. ClientStep(n) /\ app' = app
             BY <1>11, <2>1 DEF StreamBreaks
       <2> QED BY <2>3, <2>4, QuietSteps
<1> QED BY <1>2, <1>3, <1>4, <1>5, <1>6, <1>7, <1>8, <1>9, <1>10, <1>11

\* ReadAnswer: the client reads what the server has sent.
LEMMA ReadAnswerKeeps ==
  ASSUME IInv, ReadAnswer
  PROVE  IInv'
<1>1. /\ answers # <<>> /\ client' = OnWatchStreamChange(client, Head(answers))
      /\ answers' = Tail(answers) /\ app' = app /\ truth' = truth /\ told' = told
      BY DEF ReadAnswer
<1>2. /\ Ready(client) /\ Matched(client) /\ Asking(app, client) /\ client \in ClientType
      /\ Heeds(client) /\ Counted(client, answers) /\ answers \in Seq(MessageType)
      /\ \A i \in DOMAIN answers : Permitted(answers[i])
      /\ IsOpen(client.stream) /\ Distinct(client)
      <2>1. Placed(app, client)
            BY DEF IInv, Asking
      <2> QED BY <1>1, <2>1, AskingDistinct DEF IInv, Ready, Serving
<1>3. /\ Tail(answers) \in Seq(MessageType) /\ Head(answers) = answers[1] /\ 1 \in DOMAIN answers
      /\ \A i \in DOMAIN Tail(answers) : i + 1 \in DOMAIN answers
         /\ Tail(answers)[i] = answers[i + 1]
      <2>1. /\ Tail(answers) \in Seq(MessageType) /\ Len(Tail(answers)) = Len(answers) - 1
            /\ \A i \in 1 .. Len(Tail(answers)) : Tail(answers)[i] = answers[i + 1]
            BY <1>1, <1>2, HeadTailProperties
      <2>2. /\ DOMAIN answers = 1 .. Len(answers) /\ Len(answers) \in Nat /\ Len(answers) > 0
            /\ DOMAIN Tail(answers) = 1 .. Len(answers) - 1
            BY <1>1, <1>2, <2>1, LenProperties
      <2> QED BY <1>1, <1>2, <2>1, <2>2
<1>4. Permitted(Head(answers))
      BY <1>2, <1>3
<1>5. PICK n : n = OnWatchStreamChange(client, Head(answers))
      OBVIOUS
<1>6. /\ Ready(n) /\ Matched(n) /\ Quiet(client, n) /\ Heeds(n) /\ Counted(n, Tail(answers))
      /\ IsOpen(n.stream)
      BY <1>1, <1>2, <1>4, <1>5, OnWatchStreamChangeEffect
<1>7. Asking(app, n)
      BY <1>2, <1>6, AskingKept DEF Ready
<1>8. client' = n
      BY <1>1, <1>5
<1>9. \A i \in DOMAIN Tail(answers) : Permitted(Tail(answers)[i])
      BY <1>2, <1>3
<1>10. Serving'
       <2>1. /\ truth \in [Docs -> Status] /\ told \in Partial(Targets, SUBSET Docs)
             /\ \A t \in DOMAIN told : MayListen(t)
             BY DEF IInv, Serving
       <2> QED BY <1>1, <1>3, <1>6, <1>8, <1>9, <2>1 DEF Serving
<1>11. Asking(app, client)' /\ Ready(client)' /\ Matched(client)' /\ Heeds(client)'
       /\ Counted(client, answers)'
       BY <1>1, <1>6, <1>7, <1>8
<1> QED BY <1>10, <1>11 DEF IInv

-----------------------------------------------------------------------------
(* What the server says.                                                   *)

\* Messages the server may send.
Said == {s \in Seq(MessageType) : \A i \in DOMAIN s : Permitted(s[i])}
\* Those among them that acknowledge nothing.
Plain == {s \in Said : \A i \in DOMAIN s : s[i].type \notin {"added", "removed"}}

\* The members of two sequences, one after the other.
LEMMA ConcatShape ==
  ASSUME NEW S, NEW s \in Seq(S), NEW u \in Seq(S)
  PROVE  /\ s \o u \in Seq(S)
         /\ \A i \in DOMAIN (s \o u) : \/ i \in DOMAIN s /\ (s \o u)[i] = s[i]
                                       \/ \E j \in DOMAIN u : (s \o u)[i] = u[j]
<1>1. /\ s \o u \in Seq(S) /\ Len(s \o u) = Len(s) + Len(u)
      /\ \A i \in 1 .. Len(s) + Len(u) :
           (s \o u)[i] = IF i <= Len(s) THEN s[i] ELSE u[i - Len(s)]
      BY ConcatProperties
<1>2. /\ DOMAIN s = 1 .. Len(s) /\ DOMAIN u = 1 .. Len(u) /\ Len(s) \in Nat /\ Len(u) \in Nat
      /\ DOMAIN (s \o u) = 1 .. Len(s) + Len(u)
      BY <1>1, LenProperties
<1>3. ASSUME NEW i \in DOMAIN (s \o u)
      PROVE  \/ i \in DOMAIN s /\ (s \o u)[i] = s[i]
             \/ \E j \in DOMAIN u : (s \o u)[i] = u[j]
      <2>1. CASE i <= Len(s)
            BY <1>1, <1>2, <2>1
      <2>2. CASE i > Len(s)
            <3>1. i - Len(s) \in DOMAIN u
                  BY <1>2, <2>2
            <3>2. (s \o u)[i] = u[i - Len(s)]
                  BY <1>1, <1>2, <2>2
            <3> QED BY <3>1, <3>2
      <2> QED BY <1>2, <2>1, <2>2
<1> QED BY <1>1, <1>3

\* One thing said after another.
LEMMA SaidConcat ==
  ASSUME NEW s \in Said, NEW u \in Said
  PROVE  s \o u \in Said
<1>1. s \in Seq(MessageType) /\ u \in Seq(MessageType)
      BY DEF Said
<1>2. PICK w : w = s \o u
      OBVIOUS
<1>3. /\ w \in Seq(MessageType)
      /\ \A i \in DOMAIN w : \/ i \in DOMAIN s /\ w[i] = s[i]
                             \/ \E j \in DOMAIN u : w[i] = u[j]
      BY <1>1, <1>2, ConcatShape
<1>4. \A i \in DOMAIN w : Permitted(w[i])
      BY <1>3 DEF Said
<1> QED BY <1>2, <1>3, <1>4 DEF Said

\* The same of what acknowledges nothing.
LEMMA PlainConcat ==
  ASSUME NEW s \in Plain, NEW u \in Plain
  PROVE  s \o u \in Plain
<1>1. s \in Seq(MessageType) /\ u \in Seq(MessageType) /\ s \in Said /\ u \in Said
      BY DEF Said, Plain
<1>2. PICK w : w = s \o u
      OBVIOUS
<1>3. /\ w \in Said
      /\ \A i \in DOMAIN w : \/ i \in DOMAIN s /\ w[i] = s[i]
                             \/ \E j \in DOMAIN u : w[i] = u[j]
      BY <1>1, <1>2, ConcatShape, SaidConcat
<1>4. \A i \in DOMAIN w : w[i].type \notin {"added", "removed"}
      BY <1>3 DEF Plain
<1> QED BY <1>2, <1>3, <1>4 DEF Plain

\* A single message.
LEMMA SaidOne ==
  ASSUME NEW m \in MessageType, Permitted(m)
  PROVE  /\ <<m>> \in Said
         /\ m.type \notin {"added", "removed"} => <<m>> \in Plain
         /\ \A t : Count(<<m>>, AcksOf(t)) = IF m \in AcksOf(t) THEN 1 ELSE 0
<1>1. PICK w : w = <<m>>
      OBVIOUS
<1>2. w \in Seq(MessageType) /\ DOMAIN w = {1} /\ w[1] = m
      BY <1>1
<1>3. w \in Said /\ (m.type \notin {"added", "removed"} => w \in Plain)
      BY <1>2 DEF Said, Plain
<1>4. ASSUME NEW t
      PROVE  Count(w, AcksOf(t)) = IF m \in AcksOf(t) THEN 1 ELSE 0
      <2>1. CASE m \in AcksOf(t)
            <3>1. {i \in DOMAIN w : w[i] \in AcksOf(t)} = {1}
                  BY <1>2, <2>1
            <3> QED BY <2>1, <3>1, FS_Singleton DEF Count
      <2>2. CASE m \notin AcksOf(t)
            <3>1. {i \in DOMAIN w : w[i] \in AcksOf(t)} = {}
                  BY <1>2, <2>2
            <3> QED BY <2>2, <3>1, FS_EmptySet DEF Count
      <2> QED BY <2>1, <2>2
<1> QED BY <1>1, <1>3, <1>4

\* Silence, and the count of what acknowledges nothing.
LEMMA PlainNone ==
  /\ <<>> \in Plain
  /\ \A s \in Plain : \A t : s \in Seq(MessageType) /\ s \in Said /\ Count(s, AcksOf(t)) = 0
<1>1. <<>> \in Plain
      BY DEF Plain, Said
<1>2. ASSUME NEW s \in Plain, NEW t PROVE Count(s, AcksOf(t)) = 0
      <2>1. {i \in DOMAIN s : s[i] \in AcksOf(t)} = {}
            BY DEF Plain, AcksOf
      <2> QED BY <2>1, FS_EmptySet DEF Count
<1> QED BY <1>1, <1>2 DEF Plain, Said

\* A snapshot may be sent at any time.
LEMMA SnapshotSaid ==
  ASSUME NEW said \in Partial(Targets, SUBSET Docs)
  PROVE  Snapshot(said) \in MessageType /\ Permitted(Snapshot(said))
         /\ Snapshot(said).type = "snapshot"
<1>1. DOMAIN said \in SUBSET Targets /\ IsFiniteSet(DOMAIN said)
      /\ \A t \in DOMAIN said : said[t] \in SUBSET Docs
      BY PartialOut
<1>2. PICK f : f = [t \in DOMAIN said |-> {said[t]}]
      OBVIOUS
<1>3. f \in [DOMAIN said -> Tokens]
      BY <1>1, <1>2 DEF Tokens
<1>4. f \in Partial(Targets, Tokens)
      BY <1>1, <1>3, PartialIn
<1>5. Snapshot(said) = [type |-> "snapshot", target |-> Nothing, tokens |-> f]
      BY <1>2 DEF Snapshot
<1> QED BY <1>4, <1>5 DEF MessageType, Permitted

\* The news of a target the client may listen to.
LEMMA NewsPlain ==
  ASSUME NEW stored \in [Docs -> Status], NEW t \in Targets, MayListen(t),
         NEW token \in SUBSET Docs, NEW result \in SUBSET Docs,
         NEW news \in News(stored, t, token, result)
  PROVE  news \in Plain
<1> DEFINE of(found, removed) ==
             IF found = {} /\ removed = {} THEN <<>>
             ELSE <<[type |-> "documents", target |-> t,
                     found |-> Found(found, stored), removed |-> Lost(removed, stored)]>>
           one == [type |-> "filter", target |-> t, count |-> Cardinality(result)]
           in == result \ token
           left == token \ result
<1>1. ASSUME NEW found \in SUBSET Docs, NEW removed \in SUBSET Docs
      PROVE  of(found, removed) \in Plain
      <2> DEFINE m == [type |-> "documents", target |-> t,
                       found |-> Found(found, stored), removed |-> Lost(removed, stored)]
      <2>1. IsFiniteSet(found) /\ IsFiniteSet(removed)
            BY DocsAssumption, FS_Subset
      <2>2. Found(found, stored) \in [found -> Status]
            BY DEF Found
      <2>3. Lost(removed, stored) \in [removed -> {"gone", Unnamed}]
            BY DEF Lost
      <2>4. Found(found, stored) \in Partial(Docs, Status)
            /\ Lost(removed, stored) \in Partial(Docs, {"gone", Unnamed})
            BY <2>1, <2>2, <2>3, PartialIn
      <2>5. m \in MessageType /\ m.type = "documents" /\ m.target = t
            BY <2>4 DEF MessageType
      <2> HIDE DEF m
      <2>6. Permitted(m) /\ m.type \notin {"added", "removed"}
            BY <2>5 DEF Permitted
      <2>7. <<m>> \in Plain
            BY <2>5, <2>6, SaidOne
      <2> QED BY <2>7, PlainNone DEF m
<1>2. <<one>> \in Plain
      <2>1. IsFiniteSet(result)
            BY DocsAssumption, FS_Subset
      <2>2. Cardinality(result) \in Nat
            BY <2>1, FS_CardinalityType
      <2>3. one \in MessageType /\ one.type = "filter" /\ one.target = t
            BY <2>2 DEF MessageType
      <2> HIDE DEF one
      <2>4. Permitted(one) /\ one.type \notin {"added", "removed"}
            BY <2>3 DEF Permitted
      <2> QED BY <2>3, <2>4, SaidOne
<1>3. in \in SUBSET Docs /\ left \in SUBSET Docs /\ {} \in SUBSET Docs
      OBVIOUS
<1>4. news = of(in, left) \/ news = of(in, {}) \o <<one>>
      BY DEF News
<1> HIDE DEF of, one, in, left
<1>5. of(in, left) \in Plain /\ of(in, {}) \in Plain
      BY <1>1, <1>3
<1>6. of(in, {}) \o <<one>> \in Plain
      BY <1>2, <1>5, PlainConcat
<1> QED BY <1>4, <1>5, <1>6

\* The result of a target is a set of documents.
LEMMA TargetResult ==
  ASSUME NEW t \in Targets, NEW stored
  PROVE  Result(t, stored) \in SUBSET Docs
<1>1. KeyOf(t) \in SUBSET Docs
      BY KeyOfType
<1>2. CASE t = Deck
      BY <1>2 DEF Result
<1>3. CASE t # Deck
      BY <1>1, <1>3 DEF Result
<1> QED BY <1>2, <1>3

\* What the news of every target keeps, the news of all of them keep.
LEMMA NewsStays ==
  ASSUME NEW stored, NEW before, NEW after, NEW T, NEW c \in T, c = {<<>>},
         NEW S, S = {t \in DOMAIN before : after[t] # before[t]}, IsFiniteSet(S),
         \A e \in T, y \in S : Followed(e, News(stored, y, before[y], after[y])) \in T
  PROVE  AllNews(stored, before, after) \in T
<1> DEFINE order == SetToSeq(S)
           n == Len(order)
           Is(f) == f = [i \in 0 .. n |->
                        IF i = 0 THEN c
                        ELSE Followed(f[i - 1], News(stored, order[i], before[order[i]],
                                                     after[order[i]]))]
           step == [x \in T |-> [y \in S |-> Followed(x, News(stored, y, before[y], after[y]))]]
<1>1. n \in Nat /\ order \in [1 .. n -> S] /\ step \in Steps(T, S)
      <2>1. n \in Nat /\ order \in [1 .. n -> S]
            <3>1. PICK W : W = S /\ IsFiniteSet(W)
                  OBVIOUS
            <3>2. /\ SetToSeq(W) \in Seq(W) /\ Len(SetToSeq(W)) = Cardinality(W)
                  /\ Cardinality(W) \in Nat /\ SetToSeq(W) \in [1 .. Cardinality(W) -> W]
                  BY <3>1, Listed
            <3>3. Len(SetToSeq(W)) \in Nat /\ SetToSeq(W) \in [1 .. Len(SetToSeq(W)) -> W]
                  BY <3>2
            <3> QED BY <3>1, <3>3
      <2>2. \A x \in T, y \in S : step[x][y] \in T
            OBVIOUS
      <2>3. PICK f : f = step
            OBVIOUS
      <2>4. f \in [T -> [S -> T]]
            BY <2>2, <2>3
      <2> QED BY <2>1, <2>3, <2>4 DEF Steps
<1>2. PICK f : f \in [0 .. n -> T] /\ Run(f, step, c, order, n)
      <2> HIDE DEF order, n, step
      <2> QED BY <1>1, RunExists
<1>3. Is(f)
      <2> HIDE DEF order, n
      <2>1. ASSUME NEW i \in 0 .. n
            PROVE  f[i] = IF i = 0 THEN c ELSE Followed(f[i - 1],
                     News(stored, order[i], before[order[i]], after[order[i]]))
            <3>1. CASE i = 0
                  BY <1>2, <3>1 DEF Run
            <3>2. CASE i # 0
                  <4>1. i \in 1 .. n /\ i - 1 \in 0 .. n
                        BY <1>1, <3>2
                  <4>2. f[i - 1] \in T /\ order[i] \in S /\ f[i] = step[f[i - 1]][order[i]]
                        BY <1>1, <1>2, <4>1 DEF Run
                  <4> QED BY <3>2, <4>2
            <3> QED BY <3>1, <3>2
      <2> QED BY <1>2, <2>1
<1>4. PICK g : g = (CHOOSE h : Is(h))
      OBVIOUS
<1>5. Is(g)
      <2> HIDE DEF Is
      <2> QED BY <1>3, <1>4
<1>6. AllNews(stored, before, after) = g[n]
      BY <1>4 DEF AllNews, ForEach
<1>7. Along(g, n) /\ g[0] = c
      BY <1>1, <1>5 DEF Along
<1>8. ASSUME NEW i \in 1 .. n, g[i - 1] \in T PROVE g[i] = step[g[i - 1]][order[i]]
      <2>1. i \in 0 .. n /\ i # 0
            BY <1>1
      <2>2. g[i] = Followed(g[i - 1],
                    News(stored, order[i], before[order[i]], after[order[i]]))
            BY <1>5, <2>1
      <2>3. order[i] \in S
            <3> HIDE DEF order, n
            <3> QED BY <1>1
      <2> QED BY <1>8, <2>2, <2>3
<1>9. g \in [0 .. n -> T] /\ Run(g, step, c, order, n)
      <2> HIDE DEF Is, step, n, order
      <2> QED BY <1>1, <1>7, <1>8, RunWithin
<1> HIDE DEF Is, step, n, order
<1> QED BY <1>1, <1>6, <1>9

-----------------------------------------------------------------------------
(* The steps of the server.                                                *)

\* What follows is two things, one after the other.
LEMMA FollowedOut ==
  ASSUME NEW sent, NEW news, NEW z \in Followed(sent, news)
  PROVE  \E a \in sent, b \in news : z = a \o b
BY SMT DEF Followed

\* The news of an edit acknowledge nothing.
LEMMA AllNewsPlain ==
  ASSUME NEW stored \in [Docs -> Status], NEW before \in Partial(Targets, SUBSET Docs),
         NEW after, \A t \in DOMAIN before : MayListen(t) /\ after[t] \in SUBSET Docs
  PROVE  AllNews(stored, before, after) \subseteq Plain
<1>1. PICK S : S = {t \in DOMAIN before : after[t] # before[t]}
      OBVIOUS
<1>2. /\ DOMAIN before \subseteq Targets /\ IsFiniteSet(DOMAIN before)
      /\ \A t \in DOMAIN before : before[t] \in SUBSET Docs
      BY PartialOut
<1>3. IsFiniteSet(S) /\ S \subseteq DOMAIN before
      BY <1>1, <1>2, FS_Subset
<1>4. PICK T : T = SUBSET Plain
      OBVIOUS
<1>5. ASSUME NEW e \in T, NEW y \in S
      PROVE  Followed(e, News(stored, y, before[y], after[y])) \in T
      <2>1. \A news \in News(stored, y, before[y], after[y]) : news \in Plain
            BY <1>2, <1>3, NewsPlain
      <2>2. \A a \in e : \A b \in News(stored, y, before[y], after[y]) : a \o b \in Plain
            BY <1>4, <2>1, PlainConcat
      <2>3. PICK more : more = News(stored, y, before[y], after[y])
            OBVIOUS
      <2>4. \A a \in e, b \in more : a \o b \in Plain
            BY <2>2, <2>3
      <2>5. Followed(e, more) \subseteq Plain
            <3> SUFFICES ASSUME NEW z \in Followed(e, more) PROVE z \in Plain
                OBVIOUS
            <3>1. \E a \in e, b \in more : z = a \o b
                  BY FollowedOut
            <3> QED BY <2>4, <3>1
      <2> QED BY <1>4, <2>3, <2>5
<1>6. PICK c : c = {<<>>}
      OBVIOUS
<1>7. c \in T
      BY <1>4, <1>6, PlainNone
<1>8. AllNews(stored, before, after) \in T
      BY <1>1, <1>3, <1>5, <1>6, <1>7, NewsStays
<1> QED BY <1>4, <1>8

\* The server sees a request.
LEMMA RequestTaken ==
  ASSUME NEW c, Ready(c), c.requests # <<>>
  PROVE  LET d == [c EXCEPT !.requests = Tail(@)]
         IN  /\ Ready(d) /\ (Matched(c) => Matched(d)) /\ Quiet(c, d) /\ (Heeds(c) => Heeds(d))
             /\ IsOpen(c.stream) /\ IsOpen(d.stream) /\ Head(c.requests) \in RequestType
             /\ \A t \in Targets :
                  Balance(d, t) = Balance(c, t)
                                    + (IF Head(c.requests) \in RequestsOf(t) THEN 1 ELSE 0)
<1> DEFINE d == [c EXCEPT !.requests = Tail(@)]
<1>1. c \in ClientType /\ c.requests \in Seq(RequestType) /\ Fits(c) /\ Linked(c) /\ Awake(c)
      BY DEF Ready, ClientType
<1>2. PICK w : w = Tail(c.requests)
      OBVIOUS
<1>3. Head(c.requests) \in RequestType /\ w \in Seq(RequestType)
      BY <1>1, <1>2, HeadTailProperties
<1>4. d = [c EXCEPT !.requests = w]
      BY <1>2
<1> HIDE DEF d
<1>5. d.requests = w /\ d \in ClientType
      BY <1>1, <1>3, <1>4 DEF ClientType
<1>6. Same(c, d, Fixed \union Meta \union {"targets", "stream", "aggregator"})
      BY <1>1, <1>4 DEF ClientType, Same, Fixed, Meta
<1>7. /\ d.queries = c.queries /\ d.views = c.views /\ d.events = c.events
      /\ d.online = c.online /\ d.timer = c.timer
      /\ d.failed = c.failed /\ d.targets = c.targets /\ d.active = c.active
      /\ d.waiting = c.waiting /\ d.received = c.received /\ d.stream = c.stream
      /\ d.aggregator = c.aggregator /\ d.network = c.network
      BY <1>6 DEF Same, Fixed, Meta
<1>8. IsOpen(c.stream)
      BY <1>1 DEF Linked
<1>9. Fits(d)
      BY <1>1, <1>7 DEF Fits
<1>10. Linked(d)
       BY <1>1, <1>7, <1>8 DEF Linked
<1>11. Awake(d) /\ (Matched(c) => Matched(d))
       <2>1. Matched(c) => Matched(d)
             BY <1>6, MatchedKept DEF Same, Fixed, Meta
       <2> QED BY <1>1, <1>7, <2>1 DEF Awake
<1>12. Quiet(c, d)
       <2>1. Same(c, d, {"events", "queries"})
             BY <1>7 DEF Same
       <2> QED BY <1>1, <2>1, QuietSame
<1>13. Heeds(c) => Heeds(d)
       BY <1>7 DEF Heeds, KeysOf
<1>14. ASSUME NEW t \in Targets
       PROVE  Balance(d, t) = Balance(c, t) + (IF Head(c.requests) \in RequestsOf(t) THEN 1 ELSE 0)
       <2>1. Count(c.requests, RequestsOf(t))
               = Count(w, RequestsOf(t)) + (IF Head(c.requests) \in RequestsOf(t) THEN 1 ELSE 0)
             BY <1>1, <1>2, CountTail
       <2>2. Count(w, RequestsOf(t)) \in Nat
             BY <1>3, CountType
       <2>3. Owed(c, t) \in Int /\ Owed(d, t) = Owed(c, t)
             BY <1>1, <1>7, OwedType DEF Owed
       <2>4. PICK k, m, n : /\ k = Count(c.requests, RequestsOf(t)) /\ m = Count(w, RequestsOf(t))
                            /\ n = IF Head(c.requests) \in RequestsOf(t) THEN 1 ELSE 0
             OBVIOUS
       <2>5. k = m + n /\ m \in Nat /\ n \in {0, 1}
             BY <2>1, <2>2, <2>4
       <2>6. Balance(d, t) = Owed(c, t) - m /\ Balance(c, t) = Owed(c, t) - k
             BY <1>5, <2>3, <2>4 DEF Balance
       <2>7. Balance(d, t) = Balance(c, t) + n
             BY <2>3, <2>5, <2>6
       <2> QED BY <2>4, <2>7
<1> QED BY <1>3, <1>5, <1>7, <1>8, <1>9, <1>10, <1>11, <1>12, <1>13, <1>14 DEF Ready, d

\* The server answers a request with one acknowledgement of it, if the client
\* may listen to its target at all.
LEMMA Served ==
  ASSUME IInv, client.requests # <<>>, client' = [client EXCEPT !.requests = Tail(@)], app' = app,
         truth' = truth, told' \in Partial(Targets, SUBSET Docs),
           \A t \in DOMAIN told' : MayListen(t),
         answers' \in Said,
         \A t \in Targets : MayListen(t) =>
           Count(answers', AcksOf(t))
             = Count(answers, AcksOf(t)) + (IF Head(client.requests) \in RequestsOf(t) THEN 1
               ELSE 0)
  PROVE  IInv'
<1>1. /\ Ready(client) /\ Matched(client) /\ Asking(app, client) /\ client \in ClientType
      /\ Heeds(client) /\ Counted(client, answers) /\ answers \in Said
      BY DEF IInv, Ready, Serving, Said
<1>2. PICK n : n = [client EXCEPT !.requests = Tail(@)]
      OBVIOUS
<1>3. /\ Ready(n) /\ Matched(n) /\ Quiet(client, n) /\ Heeds(n) /\ IsOpen(n.stream)
      /\ \A t \in Targets :
           Balance(n, t) = Balance(client, t)
                             + (IF Head(client.requests) \in RequestsOf(t) THEN 1 ELSE 0)
      BY <1>1, <1>2, RequestTaken
<1>4. Asking(app, n)
      BY <1>1, <1>3, AskingKept DEF Ready
<1>6. ASSUME NEW t \in Targets, MayListen(t)
      PROVE  Balance(n, t) = Count(answers', AcksOf(t))
      <2>1. Balance(client, t) = Count(answers, AcksOf(t))
            BY <1>1, <1>6 DEF Counted
      <2> QED BY <1>3, <1>6, <2>1
<1>7. Counted(n, answers')
      BY <1>6 DEF Counted
<1>8. client' = n
      BY <1>2
<1>9. Serving'
      <2>1. truth \in [Docs -> Status]
            BY DEF IInv, Serving
      <2> QED BY <1>3, <1>8, <2>1 DEF Serving, Said
<1>10. Asking(app, client)' /\ Ready(client)' /\ Matched(client)' /\ Heeds(client)'
       /\ Counted(client, answers)'
       BY <1>3, <1>4, <1>7, <1>8
<1> QED BY <1>9, <1>10 DEF IInv

\* A message without documents, and what it acknowledges.
LEMMA MessageOne ==
  ASSUME NEW type \in {"added", "removed", "rejected"}, NEW t \in Targets
  PROVE  /\ Message(type, t) \in MessageType
         /\ Message(type, t).type = type /\ Message(type, t).target = t
         /\ \A u : Message(type, t) \in AcksOf(u) <=> type # "rejected" /\ u = t
<1>1. /\ Message(type, t) \in MessageType
      /\ Message(type, t).type = type /\ Message(type, t).target = t
      BY DEF Message, MessageType
<1> QED BY <1>1 DEF AcksOf

\* ServeListen: an acknowledgement, the news, and that this was all.
LEMMA ServeListenKeeps ==
  ASSUME IInv, ServeListen
  PROVE  IInv'
<1>1. PICK x, t, result : x = Head(client.requests) /\ t = x.target /\ result = Result(t, truth)
      OBVIOUS
<1>2. /\ client.requests # <<>> /\ x.op = "listen" /\ MayListen(t)
      /\ client' = [client EXCEPT !.requests = Tail(@)]
      /\ truth' = truth /\ app' = app /\ told' = Put(told, t, result)
      BY <1>1 DEF ServeListen, NextRequest
<1>3. PICK news \in News(truth, t, UNION x.token, result) :
        answers' = answers \o <<Message("added", t)>> \o news
                     \o <<[type |-> "current", target |-> t, token |-> {result}], Snapshot(told')>>
      BY <1>1 DEF ServeListen, NextRequest
<1>4. Ready(client) /\ truth \in [Docs -> Status] /\ told \in Partial(Targets, SUBSET Docs)
      /\ (\A u \in DOMAIN told : MayListen(u)) /\ answers \in Seq(MessageType)
      BY DEF IInv, Serving
<1>5. x \in RequestType
      BY <1>1, <1>2, <1>4, RequestTaken
<1>6. t \in Targets /\ UNION x.token \in SUBSET Docs
      BY <1>1, <1>2, <1>5 DEF RequestType, Tokens
<1>7. result \in SUBSET Docs
      BY <1>1, <1>6, TargetResult
<1>8. PICK said : said = Put(told, t, result)
      OBVIOUS
<1>9. /\ said \in Partial(Targets, SUBSET Docs) /\ DOMAIN said = DOMAIN told \union {t}
      /\ said = told'
      <2>1. said \in Partial(Targets, SUBSET Docs)
            BY <1>4, <1>6, <1>7, <1>8, PartialPut
      <2> QED BY <1>2, <1>8, <2>1 DEF Put
<1>10. PICK one, two, three : /\ one = Message("added", t)
                              /\ two = [type |-> "current", target |-> t, token |-> {result}]
                              /\ three = Snapshot(said)
       OBVIOUS
<1>11. news \in Plain
       BY <1>2, <1>4, <1>6, <1>7, NewsPlain
<1>12. /\ <<one>> \in Said
       /\ \A u : Count(<<one>>, AcksOf(u)) = IF u = t THEN 1 ELSE 0
       <2>1. one \in MessageType /\ one.type = "added" /\ \A u : one \in AcksOf(u) <=> u = t
             BY <1>6, <1>10, MessageOne
       <2>2. Permitted(one)
             BY <2>1 DEF Permitted
       <2> QED BY <2>1, <2>2, SaidOne
<1>13. <<two>> \in Plain
       <2>1. two \in MessageType /\ two.type = "current" /\ two.target = t
             BY <1>6, <1>7, <1>10 DEF MessageType, Tokens
       <2>2. Permitted(two) /\ two.type \notin {"added", "removed"}
             BY <1>2, <2>1 DEF Permitted
       <2> QED BY <2>1, <2>2, SaidOne
<1>14. <<three>> \in Plain
       <2>1. three \in MessageType /\ Permitted(three) /\ three.type \notin {"added", "removed"}
             BY <1>9, <1>10, SnapshotSaid
       <2> QED BY <2>1, SaidOne
<1>15. PICK first, second, last : /\ first = answers \o <<one>> /\ second = first \o news
                                  /\ last = <<two, three>>
       OBVIOUS
<1>16. last \in Plain
       <2>1. <<two>> \o <<three>> = <<two, three>>
             <3>1. PICK a, b, c : a = <<two>> /\ b = <<three>> /\ c = <<two, three>>
                   OBVIOUS
             <3>2. /\ Len(a) = 1 /\ Len(b) = 1 /\ a \in Seq({two, three})
                   /\ b \in Seq({two, three}) /\ a[1] = two /\ b[1] = three
                   BY <3>1
             <3>3. /\ a \o b \in Seq({two, three}) /\ Len(a \o b) = 2
                   /\ (a \o b)[1] = two /\ (a \o b)[2] = three
                   BY <3>2, ConcatProperties
             <3>4. c \in Seq({two, three}) /\ Len(c) = 2 /\ c[1] = two /\ c[2] = three
                   BY <3>1
             <3>5. a \o b = c
                   BY <3>3, <3>4, SeqEqual
             <3> QED BY <3>1, <3>5
       <2> QED BY <1>13, <1>14, <1>15, <2>1, PlainConcat
<1>17. answers' = second \o last
       BY <1>3, <1>9, <1>10, <1>15
<1>18. answers \in Said /\ news \in Said /\ last \in Said
       BY <1>11, <1>16, PlainNone DEF IInv, Serving, Said
<1>19. first \in Said /\ second \in Said /\ answers' \in Said
       <2>1. first \in Said
             BY <1>12, <1>15, <1>18, SaidConcat
       <2>2. second \in Said
             BY <1>15, <1>18, <2>1, SaidConcat
       <2> QED BY <1>17, <1>18, <2>1, <2>2, SaidConcat
<1>20. ASSUME NEW u \in Targets
       PROVE  Count(answers', AcksOf(u)) = Count(answers, AcksOf(u)) + (IF x \in RequestsOf(u)
                THEN 1 ELSE 0)
       <2>1. /\ answers \in Seq(MessageType) /\ <<one>> \in Seq(MessageType)
             /\ first \in Seq(MessageType) /\ news \in Seq(MessageType)
             /\ second \in Seq(MessageType) /\ last \in Seq(MessageType)
             BY <1>12, <1>18, <1>19 DEF Said
       <2>2. Count(first, AcksOf(u)) = Count(answers, AcksOf(u)) + Count(<<one>>, AcksOf(u))
             BY <1>15, <2>1, CountConcat
       <2>3. Count(second, AcksOf(u)) = Count(first, AcksOf(u)) + Count(news, AcksOf(u))
             BY <1>15, <2>1, CountConcat
       <2>4. Count(answers', AcksOf(u)) = Count(second, AcksOf(u)) + Count(last, AcksOf(u))
             BY <1>17, <2>1, CountConcat
       <2>5. Count(news, AcksOf(u)) = 0 /\ Count(last, AcksOf(u)) = 0
             BY <1>11, <1>16, PlainNone
       <2>6. Count(<<one>>, AcksOf(u)) = IF x \in RequestsOf(u) THEN 1 ELSE 0
             <3>1. x \in RequestsOf(u) <=> u = t
                   BY <1>1, <1>5 DEF RequestsOf
             <3> QED BY <1>12, <3>1
       <2>7. /\ Count(answers, AcksOf(u)) \in Nat /\ Count(first, AcksOf(u)) \in Nat
             /\ Count(second, AcksOf(u)) \in Nat
             BY <2>1, CountType
       <2> QED BY <2>2, <2>3, <2>4, <2>5, <2>6, <2>7
<1>21. \A u \in DOMAIN told' : MayListen(u)
       BY <1>2, <1>4, <1>9
<1> QED BY <1>1, <1>2, <1>9, <1>19, <1>20, <1>21, Served

\* One message more.
LEMMA SaidAppend ==
  ASSUME NEW s \in Said, NEW m \in MessageType, Permitted(m)
  PROVE  Append(s, m) \in Said
<1>1. s \in Seq(MessageType)
      BY DEF Said
<1>2. PICK w : w = Append(s, m)
      OBVIOUS
<1>3. /\ w \in Seq(MessageType) /\ Len(w) = Len(s) + 1
      /\ \A i \in 1 .. Len(s) : w[i] = s[i]
      /\ w[Len(s) + 1] = m
      BY <1>1, <1>2, AppendProperties
<1>4. /\ DOMAIN w = 1 .. Len(s) + 1 /\ DOMAIN s = 1 .. Len(s) /\ Len(s) \in Nat
      BY <1>1, <1>3, LenProperties
<1>5. ASSUME NEW i \in DOMAIN w PROVE Permitted(w[i])
      <2>1. CASE i \in DOMAIN s
            BY <1>3, <1>4, <2>1 DEF Said
      <2>2. CASE i = Len(s) + 1
            BY <1>3, <2>2
      <2> QED BY <1>4, <2>1, <2>2
<1> QED BY <1>2, <1>3, <1>5 DEF Said

\* The server's answer to a request is a single message.
LEMMA Replied ==
  ASSUME IInv, client.requests # <<>>, client' = [client EXCEPT !.requests = Tail(@)], app' = app,
         truth' = truth, told' \in Partial(Targets, SUBSET Docs),
           \A t \in DOMAIN told' : MayListen(t),
         NEW type \in {"removed", "rejected"},
         answers' = Append(answers, Message(type, Head(client.requests).target)),
         type = "rejected" => ~MayListen(Head(client.requests).target)
  PROVE  IInv'
<1>1. PICK x, m : x = Head(client.requests) /\ m = Message(type, x.target)
      OBVIOUS
<1>2. x \in RequestType
      <2>1. Ready(client)
            BY DEF IInv
      <2> QED BY <1>1, <2>1, RequestTaken
<1>3. x.target \in Targets
      BY <1>2 DEF RequestType
<1>4. /\ m \in MessageType /\ m.type = type /\ m.target = x.target
      /\ \A u : m \in AcksOf(u) <=> type # "rejected" /\ u = x.target
      BY <1>1, <1>3, MessageOne
<1>5. Permitted(m)
      BY <1>1, <1>4 DEF Permitted
<1>6. answers \in Said /\ answers \in Seq(MessageType)
      BY DEF IInv, Serving, Said
<1>7. answers' \in Said
      BY <1>1, <1>4, <1>5, <1>6, SaidAppend
<1>8. ASSUME NEW t \in Targets, MayListen(t)
      PROVE  Count(answers', AcksOf(t)) = Count(answers, AcksOf(t)) + (IF x \in RequestsOf(t)
               THEN 1 ELSE 0)
      <2>1. Count(answers', AcksOf(t)) = Count(answers, AcksOf(t)) + (IF m \in AcksOf(t) THEN 1
              ELSE 0)
            BY <1>1, <1>4, <1>6, CountAppend
      <2>2. x \in RequestsOf(t) <=> t = x.target
            BY <1>2 DEF RequestsOf
      <2>3. m \in AcksOf(t) <=> t = x.target
            BY <1>1, <1>4, <1>8
      <2> QED BY <2>1, <2>2, <2>3
<1> QED BY <1>1, <1>7, <1>8, Served

\* ServeStop: an acknowledgement.
LEMMA ServeStopKeeps ==
  ASSUME IInv, ServeStop
  PROVE  IInv'
<1>1. told \in Partial(Targets, SUBSET Docs) /\ \A t \in DOMAIN told : MayListen(t)
      BY DEF IInv, Serving
<1>2. PICK S : S = DOMAIN told \ {Head(client.requests).target}
      OBVIOUS
<1>3. told' = Restrict(told, S) /\ S \subseteq DOMAIN told
      BY <1>2 DEF ServeStop, NextRequest
<1>4. told' \in Partial(Targets, SUBSET Docs) /\ DOMAIN told' = S
      BY <1>1, <1>3, PartialRestrict DEF Restrict
<1>5. /\ client.requests # <<>> /\ client' = [client EXCEPT !.requests = Tail(@)]
      /\ app' = app /\ truth' = truth
      /\ answers' = Append(answers, Message("removed", Head(client.requests).target))
      BY DEF ServeStop, NextRequest
<1> QED BY <1>1, <1>3, <1>4, <1>5, Replied

\* RefuseListen: a refusal, which acknowledges nothing.
LEMMA RefuseListenKeeps ==
  ASSUME IInv, RefuseListen
  PROVE  IInv'
<1>1. told' \in Partial(Targets, SUBSET Docs) /\ \A t \in DOMAIN told' : MayListen(t)
      BY DEF IInv, Serving, RefuseListen
<1>2. /\ client.requests # <<>> /\ client' = [client EXCEPT !.requests = Tail(@)]
      /\ app' = app /\ truth' = truth /\ ~MayListen(Head(client.requests).target)
      /\ answers' = Append(answers, Message("rejected", Head(client.requests).target))
      BY DEF RefuseListen, NextRequest
<1> QED BY <1>1, <1>2, Replied

\* Edit: news of the targets whose documents change, to whoever listens.
LEMMA EditKeeps ==
  ASSUME IInv, NEW d \in Docs, NEW to \in Status, Edit(d, to)
  PROVE  IInv'
<1>1. /\ truth \in [Docs -> Status] /\ told \in Partial(Targets, SUBSET Docs)
      /\ \A t \in DOMAIN told : MayListen(t)
      /\ answers \in Said /\ answers \in Seq(MessageType)
      /\ ~IsOpen(client.stream) => answers = <<>> /\ told = NoEntries
      BY DEF IInv, Serving, Said
<1>2. /\ truth' = [truth EXCEPT ![d] = to] /\ told' = [t \in DOMAIN told |-> Result(t, truth')]
      /\ app' = app /\ client' = client
      BY DEF Edit
<1>3. PICK stored, said : stored = truth' /\ said = told'
      OBVIOUS
<1>4. stored \in [Docs -> Status]
      BY <1>1, <1>2, <1>3
<1>5. DOMAIN told \subseteq Targets /\ IsFiniteSet(DOMAIN told)
      /\ told \in [DOMAIN told -> SUBSET Docs]
      BY <1>1, PartialOut
<1>6. said = [t \in DOMAIN told |-> Result(t, stored)]
      BY <1>2, <1>3
<1>7. \A t \in DOMAIN told : Result(t, stored) \in SUBSET Docs
      BY <1>5, TargetResult
<1>8. said \in [DOMAIN told -> SUBSET Docs] /\ DOMAIN said = DOMAIN told
      BY <1>6, <1>7
<1>9. said \in Partial(Targets, SUBSET Docs)
      BY <1>5, <1>8, PartialIn
<1>10. ASSUME NEW t \in Targets
       PROVE  answers' \in Said /\ Count(answers', AcksOf(t)) = Count(answers, AcksOf(t))
       <2>1. CASE said = told
             <3>1. answers' = answers
                   BY <1>3, <2>1 DEF Edit
             <3> QED BY <1>1, <3>1
       <2>2. CASE said # told
             <3>1. PICK before : before = told
                   OBVIOUS
             <3>2. PICK news \in AllNews(stored, before, said) :
                     answers' = answers \o news \o <<Snapshot(said)>>
                   BY <1>3, <2>2, <3>1 DEF Edit
             <3>3. AllNews(stored, before, said) \subseteq Plain
                   <4>1. \A u \in DOMAIN before : MayListen(u) /\ said[u] \in SUBSET Docs
                         BY <1>1, <1>8, <3>1
                   <4>2. before \in Partial(Targets, SUBSET Docs)
                         BY <1>1, <3>1
                   <4> QED BY <1>4, <4>1, <4>2, AllNewsPlain
             <3>4. news \in Plain
                   BY <3>3
             <3>5. PICK first, last : first = answers \o news /\ last = <<Snapshot(said)>>
                   OBVIOUS
             <3>6. last \in Plain
                   <4>1. /\ Snapshot(said) \in MessageType /\ Permitted(Snapshot(said))
                         /\ Snapshot(said).type \notin {"added", "removed"}
                         BY <1>9, SnapshotSaid
                   <4> QED BY <3>5, <4>1, SaidOne
             <3>7. /\ news \in Said /\ last \in Said /\ news \in Seq(MessageType)
                   /\ last \in Seq(MessageType)
                   BY <3>4, <3>6, PlainNone
             <3>8. first \in Said /\ first \in Seq(MessageType)
                   <4>1. first \in Said
                         BY <1>1, <3>5, <3>7, SaidConcat
                   <4> QED BY <4>1 DEF Said
             <3>9. answers' = first \o last
                   BY <3>2, <3>5
             <3>10. answers' \in Said
                    BY <3>7, <3>8, <3>9, SaidConcat
             <3>11. Count(first, AcksOf(t)) = Count(answers, AcksOf(t)) + Count(news, AcksOf(t))
                    BY <1>1, <3>5, <3>7, CountConcat
             <3>12. Count(answers', AcksOf(t)) = Count(first, AcksOf(t)) + Count(last, AcksOf(t))
                    BY <3>7, <3>8, <3>9, CountConcat
             <3>13. Count(news, AcksOf(t)) = 0 /\ Count(last, AcksOf(t)) = 0
                    BY <3>4, <3>6, PlainNone
             <3>14. Count(answers, AcksOf(t)) \in Nat /\ Count(first, AcksOf(t)) \in Nat
                    BY <1>1, <3>8, CountType
             <3> QED BY <3>10, <3>11, <3>12, <3>13, <3>14
       <2> QED BY <2>1, <2>2
<1>11. answers' \in Said
       <2>1. Deck \in Targets
             BY DEF Targets
       <2> QED BY <1>10, <2>1
<1>12. Counted(client, answers')
       BY <1>10 DEF IInv, Counted
<1>13. ~IsOpen(client.stream) => answers' = <<>> /\ told' = NoEntries
       <2> SUFFICES ASSUME ~IsOpen(client.stream) PROVE answers' = <<>> /\ told' = NoEntries
           OBVIOUS
       <2>1. answers = <<>> /\ told = NoEntries /\ DOMAIN told = {}
             BY <1>1, PartialNone
       <2>2. said = told
             BY <1>5, <1>8, <2>1
       <2>3. answers' = answers
             BY <1>3, <2>2 DEF Edit
       <2> QED BY <1>3, <2>1, <2>2, <2>3
<1>14. Serving'
       BY <1>1, <1>2, <1>3, <1>4, <1>8, <1>9, <1>11, <1>13 DEF Serving, Said
<1>15. Asking(app, client)' /\ Ready(client)' /\ Matched(client)' /\ Heeds(client)'
       /\ Counted(client, answers)'
       BY <1>2, <1>12 DEF IInv
<1> QED BY <1>14, <1>15 DEF IInv

\* Every step keeps the invariant.
LEMMA Inductive == IInv /\ [Next]_vars => IInv'
<1> SUFFICES ASSUME IInv, [Next]_vars PROVE IInv'
    OBVIOUS
<1>1. CASE UNCHANGED vars
      <2>1. /\ app' = app /\ client' = client /\ truth' = truth /\ told' = told
            /\ answers' = answers
            BY <1>1 DEF vars, server
      <2>2. Serving'
            BY <2>1 DEF IInv, Serving
      <2>3. Asking(app, client)' /\ Ready(client)' /\ Matched(client)' /\ Heeds(client)'
            /\ Counted(client, answers)'
            BY <2>1 DEF IInv
      <2> QED BY <2>2, <2>3 DEF IInv
<1>2. CASE \E q \in Asked : Get(q)
      BY <1>2, GetKeeps
<1>3. CASE RunTask
      BY <1>3, RunTaskKeeps
<1>4. CASE Deliver
      BY <1>4, DeliverKeeps
<1>5. CASE \/ Reconnect \/ TurnNetworkOff \/ TurnNetworkOn
           \/ StreamOpens \/ CredentialsFail \/ StaleCredentials \/ BackoffEnds
           \/ IdleTimeout \/ OnlineTimeout \/ StreamBreaks
      BY <1>5, StreamActionsKeep
<1>6. CASE ReadAnswer
      BY <1>6, ReadAnswerKeeps
<1>7. CASE ServeListen
      BY <1>7, ServeListenKeeps
<1>8. CASE ServeStop
      BY <1>8, ServeStopKeeps
<1>9. CASE RefuseListen
      BY <1>9, RefuseListenKeeps
<1>10. CASE \E change \in Changes : Edit(change[1], change[2])
       <2>1. PICK change \in Changes : Edit(change[1], change[2])
             BY <1>10
       <2>2. change[1] \in Docs /\ change[2] \in Status
             BY ChangesAssumption DEF Status
       <2> QED BY <2>1, <2>2, EditKeeps
<1> QED BY <1>1, <1>2, <1>3, <1>4, <1>5, <1>6, <1>7, <1>8, <1>9, <1>10 DEF Next

\* The invariant holds in every behaviour.
LEMMA Always == Spec => []IInv
<1> QED BY Initially, Inductive, PTL DEF Spec

-----------------------------------------------------------------------------
(* The theorems.                                                           *)

\* The state has the shape of TypeOK, and no more limbo lookups run than there are
\* slots for them: SyncEngine counts a slot as taken and as free again on every
\* path, a lookup resolved, refused, given up or restarted.
THEOREM ReadsTyped == Spec => []TypeOK
<1>1. ASSUME IInv PROVE TypeOK
      <2>1. Ready(client) /\ client \in ClientType /\ WellFormed(app)
            BY <1>1 DEF IInv, Ready, Asking
      <2>2. app \in AppType /\ Len(app.asks) <= MaxReads
            BY <2>1 DEF WellFormed
      <2>3. app.asks \in Seq(Asked) /\ app.answered \in Seq(Seq({"server", "cache", "error"}))
            BY <2>2 DEF AppType, Answer
      <2>4. /\ client.stream \in StreamType /\ client.online \in {"Unknown", "Online", "Offline"}
            /\ client.network \in BOOLEAN /\ client.failed \in BOOLEAN /\ client.timer \in BOOLEAN
            /\ client.cache \in [Docs -> {"in", "out", "gone"}]
            BY <2>1 DEF ClientType, OnlineStates, Status
      <2>5. DOMAIN client.queries \subseteq Asked /\ DOMAIN client.views \subseteq Asked
            <3>1. client.queries \in Partial(Asked, EntryType)
                  /\ client.views \in Partial(Asked, ViewType)
                  BY <2>1 DEF ClientType
            <3> QED BY <3>1, PartialOut
      <2>6. Cardinality(DOMAIN client.active) <= MaxLimbo
            BY <2>1 DEF Ready, Fits
      <2> QED BY <2>2, <2>3, <2>4, <2>5, <2>6 DEF TypeOK
<1> QED BY <1>1, Always, PTL

\* No HARD_ASSERT of the read path fails, whatever the order of the calls, the
\* answers, the timers and the faults: RemoteStore never unlistens what it does not
\* listen to, the online timer never fires while the client is online, and no view
\* hears of a modified document it was not told of before.
THEOREM ReadsSound == Spec => []NoAssertFails
<1>1. IInv => NoAssertFails
      BY DEF IInv, Ready, Linked, NoAssertFails
<1> QED BY <1>1, Always, PTL

\* A read is answered at most once: after the first snapshot ListenOnce is muted,
\* and after an error the EventManager has no listener left to tell.
THEOREM ReadsAnsweredOnce == Spec => []AnsweredOnce
<1>1. IInv => AnsweredOnce
      BY DEF IInv, Asking, Once, AnsweredOnce
<1> QED BY <1>1, Always, PTL

\* RemoteStore listens to what the SyncEngine has views and limbo lookups of, and
\* the SyncEngine has views of the EventManager's queries: no call, refusal or lost
\* connection leaves a target behind, or a query without one.
THEOREM ReadsTargetsMatch == Spec => []TargetsMatch
<1>1. IInv => TargetsMatch
      BY DEF IInv, Ready, Fits, Matched, TargetsMatch
<1> QED BY <1>1, Always, PTL

\* The aggregator waits for exactly the acknowledgements that are in flight, so
\* that it never takes what was said of an earlier listen for the current one.
THEOREM ReadsAcksCounted == Spec => []AcksAreCounted
<1>1. ASSUME IInv PROVE AcksAreCounted
      <2> SUFFICES ASSUME NEW t \in DOMAIN client.aggregator.targets, MayListen(t)
                   PROVE  client.aggregator.targets[t].outstanding = InFlight(t)
          BY DEF AcksAreCounted
      <2>1. /\ client \in ClientType /\ client.aggregator \in AggregatorType
            /\ client.requests \in Seq(RequestType) /\ answers \in Seq(MessageType)
            BY <1>1 DEF IInv, Ready, ClientType, Serving
      <2>2. t \in Targets
            <3>1. client.aggregator.targets \in Partial(Targets, TargetStateType)
                  BY <2>1 DEF AggregatorType
            <3> QED BY <3>1, PartialOut
      <2>3. client.aggregator.targets[t].outstanding = Owed(client, t)
            BY DEF Owed, StateOf
      <2>4. Owed(client, t) - Count(client.requests, RequestsOf(t)) = Count(answers, AcksOf(t))
            BY <1>1, <2>2 DEF IInv, Counted, Balance
      <2>5. Count(client.requests, RequestsOf(t)) = Cardinality(Requested(t))
            <3>1. \A i \in DOMAIN client.requests : client.requests[i] \in RequestType
                  BY <2>1, LenProperties
            <3>2. {i \in DOMAIN client.requests : client.requests[i] \in RequestsOf(t)} = Requested(t)
                  BY <3>1 DEF Requested, RequestsOf
            <3> QED BY <3>2 DEF Count
      <2>6. Count(answers, AcksOf(t)) = Cardinality(Acknowledged(t))
            <3>1. \A i \in DOMAIN answers : answers[i] \in MessageType
                  BY <2>1, LenProperties
            <3>2. {i \in DOMAIN answers : answers[i] \in AcksOf(t)} = Acknowledged(t)
                  BY <3>1 DEF Acknowledged, AcksOf
            <3> QED BY <3>2 DEF Count
      <2>7. /\ Owed(client, t) \in Int /\ Count(client.requests, RequestsOf(t)) \in Nat
            /\ Count(answers, AcksOf(t)) \in Nat
            BY <2>1, OwedType, CountType
      <2> QED BY <2>3, <2>4, <2>5, <2>6, <2>7 DEF InFlight
<1> QED BY <1>1, Always, PTL

\* Every limbo document of a view is looked up or waits for a lookup, unless the
\* server refused one, and nothing else is: none that waits is looked up
\* already, and none waits while a slot is free.
THEOREM ReadsLimboLookedUp == Spec => []LimboIsLookedUp
<1>1. ASSUME IInv PROVE LimboIsLookedUp
      <2>1. /\ Fits(client) /\ Chased(client) /\ client.refs = Referred(client)
            BY <1>1 DEF IInv, Ready, Matched, Tracks
      <2>2. ASSUME NEW x
            PROVE  x \in Wanted(client) <=>
                     \E q \in DOMAIN client.views : x \in client.views[q].limbo
            <3>1. ASSUME x \in Wanted(client)
                  PROVE  \E q \in DOMAIN client.views : x \in client.views[q].limbo
                  <4>1. PICK ref \in Referred(client) : ref[1] = x
                        BY <2>1, <3>1 DEF Wanted
                  <4> QED BY <4>1 DEF Referred
            <3>2. ASSUME NEW q \in DOMAIN client.views, x \in client.views[q].limbo
                  PROVE  x \in Wanted(client)
                  <4>1. <<x, q>> \in Referred(client)
                        BY <3>2 DEF Referred
                  <4> QED BY <2>1, <4>1 DEF Wanted
            <3> QED BY <3>1, <3>2
      <2>3. Lookups(client) \subseteq UNION {client.views[q].limbo : q \in DOMAIN client.views}
            BY <2>1, <2>2 DEF Chased
      <2>4. \A q \in DOMAIN client.views : client.views[q].limbo \ Refused \subseteq Lookups(client)
            BY <2>1, <2>2 DEF Chased
      <2>5. DOMAIN client.active \intersect Range(client.waiting) = {}
            BY <2>1 DEF Fits
      <2>6. /\ client.waiting # <<>> => Cardinality(DOMAIN client.active) = MaxLimbo
            /\ client.refs = UNION {client.views[q].limbo \X {q} : q \in DOMAIN client.views}
            BY <2>1 DEF Chased, Busy, Referred
      <2> QED BY <2>3, <2>4, <2>5, <2>6 DEF LimboIsLookedUp, Lookups
<1> QED BY <1>1, Always, PTL
=============================================================================
