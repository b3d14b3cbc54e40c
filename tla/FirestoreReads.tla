--------------------------- MODULE FirestoreReads ---------------------------
(***************************************************************************)
(* The read path of the Firestore client: what becomes of a getDocument or *)
(* getDocuments.  Each is a listener removed at its first event.  The      *)
(* EventManager keeps the listeners of a query, the SyncEngine a view of   *)
(* its result out of the local cache, and RemoteStore listens to the       *)
(* query's target over the watch stream.  A document the cache has in a    *)
(* result and the server does not name is in limbo: the SyncEngine looks   *)
(* it up with a target of its own, a few at a time.  A read waits for a    *)
(* view without limbo documents that the server calls current, unless the  *)
(* OnlineStateTracker says that the client is offline.                     *)
(*                                                                         *)
(* The screens call from the main queue; everything else on the client     *)
(* runs on one worker queue, so each task of it is one step.               *)
(*                                                                         *)
(* app is the side of the main queue: what each read asks for, the calls   *)
(* on their way to the worker queue, the muted listeners, and what each    *)
(* read has been answered.  client is the side of the worker queue:        *)
(*                                                                         *)
(*   events     on their way to the screens                                *)
(*   queries    [query -> its listeners and last snapshot]  EventManager   *)
(*   raised     listeners that have raised their initial event             *)
(*   views      [query -> View]                             SyncEngine     *)
(*   refs, active, received, waiting, nextLimbo             limbo documents*)
(*   cache      [document -> what is stored of it]          LocalStore     *)
(*   saved      [query -> resume token and matching keys]   LocalStore     *)
(*   targets    [target -> resume token], listen_targets_   RemoteStore    *)
(*   network, stream, aggregator                            RemoteStore    *)
(*   online, failed, timer                            OnlineStateTracker   *)
(*   requests   sent over the watch stream, not seen by the server         *)
(*                                                                         *)
(* truth is what the server stores, told what it has said of each target   *)
(* on this stream, answers what of that the client has not read.  recent   *)
(* remembers the results a query had since it was last listened to anew,   *)
(* misled the queries listened to anew while a mismatch of the previous    *)
(* listen was still waiting for its snapshot (aggregator.resets).          *)
(***************************************************************************)
EXTENDS Naturals, Sequences, SequencesExt, FiniteSetsExt, FirestoreStream, WatchAggregator

CONSTANTS
  MaxReads,     \* bound: calls the screens make
  Docs,         \* profiles; reading one of them asks for itself
  Deck,         \* the query of the deck
  Asked,        \* what the screens ask for
  Refused,      \* what the server does not let the user read, ever
  Stored,       \* what the server may store when the app starts
  Changes,      \* what other users may change: <<profile, what it becomes>>
  MaxLimbo,     \* max_concurrent_limbo_resolutions_
  MaxEdits,     \* bound: changes other users make
  MaxTrouble,   \* bound: faults and reconnections
  Nothing

ASSUME AskedAssumption == Asked \subseteq Docs \union {Deck} /\ Deck \notin Docs
ASSUME DocsAssumption == IsFiniteSet(Docs)
\* The targets of queries and those of limbo resolutions have different ids.
ASSUME TargetsAssumption == (Docs \union {Deck}) \intersect (Docs \X Nat) = {}
ASSUME RefusedAssumption == Refused \subseteq Docs \union {Deck}
ASSUME StoredAssumption == Stored \subseteq [Docs -> {"in", "out", "gone"}]
ASSUME ChangesAssumption == Changes \subseteq Docs \X {"in", "out", "gone"}
ASSUME LimboAssumption == MaxLimbo \in Nat \ {0}
ASSUME BoundsAssumption == MaxReads \in Nat /\ MaxEdits \in Nat /\ MaxTrouble \in Nat

VARIABLES app, client, truth, told, answers, recent, misled, edits, trouble

server == <<truth, told, answers>>
ghost == <<recent, misled>>
vars == <<app, client, server, ghost, edits, trouble>>

\* A target is a query or the <<document, number>> of a limbo resolution.
KeyOf(t) == CASE t = Deck -> {} [] t \in Docs -> {t} [] OTHER -> {t[1]}

\* The documents that match a target.
Result(t, stored) ==
  IF t = Deck THEN {d \in Docs : stored[d] = "in"}
              ELSE {d \in KeyOf(t) : stored[d] # "gone"}

Check(c, condition) == [c EXCEPT !.stream = HardAssert(@, condition)]

\* A step from c for each member of S, in some order.
ForEach(Step(_, _), c, S) ==
  LET order == SetToSeq(S)
      after[i \in 0 .. Len(order)] == IF i = 0 THEN c ELSE Step(after[i - 1], order[i])
  IN  after[Len(order)]

-----------------------------------------------------------------------------
(* EventManager and QueryListener                                          *)

Event(r, what) == [read |-> r, what |-> what]

Raise(c, news) ==
  [c EXCEPT !.events = @ \o SetToSeq(news), !.raised = @ \union {e.read : e \in news}]

\* QueryListener::OnViewSnapshot, which waits for a synced first snapshot
\* as long as the client may be online.
Hears(c, r, snapshot) == r \in c.raised \/ snapshot # "cache" \/ c.online = "Offline"

\* What the listeners of some queries make of [query -> "server" or "cache"].
Heard(c, snapshots) ==
  UNION {{Event(r, snapshots[q]) :
            r \in {r \in c.queries[q].listeners : Hears(c, r, snapshots[q])}} :
         q \in DOMAIN snapshots}

OnViewSnapshots(c, snapshots) ==
  LET reach == Restrict(snapshots, DOMAIN snapshots \intersect DOMAIN c.queries)
      seen == [q \in DOMAIN c.queries |->
                 IF q \in DOMAIN reach THEN [c.queries[q] EXCEPT !.snapshot = reach[q]]
                                       ELSE c.queries[q]]
  IN  Raise([c EXCEPT !.queries = seen], Heard(c, reach))

\* EventManager::OnError
OnError(c, q) ==
  IF q \in DOMAIN c.queries
  THEN Raise([c EXCEPT !.queries = Restrict(@, DOMAIN @ \ {q})],
             {Event(r, "error") : r \in c.queries[q].listeners})
  ELSE c

-----------------------------------------------------------------------------
(* View                                                                    *)

NewView(keys) == [synced |-> keys, limbo |-> {}, current |-> FALSE]

InSync(v) == v.current /\ v.limbo = {}

SnapshotOf(v) == IF InSync(v) THEN "server" ELSE "cache"

\* UpdateLimboDocuments
WithLimbo(v, docs) == IF v.current THEN [v EXCEPT !.limbo = docs \ v.synced] ELSE v

\* ApplyTargetChange
Changing(v, change) ==
  [v EXCEPT !.synced = (@ \union Changed(change, "added")) \ Changed(change, "removed"),
            !.current = change.current]

\* SyncEngine::HandleOnlineStateChange and EventManager::HandleOnlineStateChange
HandleOnlineStateChange(c, state) ==
  LET now == {q \in DOMAIN c.views : c.views[q].current /\ state = "Offline"}
      views == [q \in DOMAIN c.views |->
                  IF q \in now THEN [c.views[q] EXCEPT !.current = FALSE] ELSE c.views[q]]
      falling == {q \in now : InSync(c.views[q])}
      viewed == [OnViewSnapshots([c EXCEPT !.views = views], [q \in falling |-> "cache"])
                   EXCEPT !.online = state]
      waiting == {q \in DOMAIN viewed.queries : viewed.queries[q].snapshot # Nothing}
      last == [q \in waiting |-> viewed.queries[q].snapshot]
  IN  Raise(viewed, {e \in Heard(viewed, last) : e.read \notin viewed.raised})

-----------------------------------------------------------------------------
(* OnlineStateTracker.  kMaxWatchStreamFailures is one, so the count of    *)
(* failures is kept as failed.                                             *)

SetAndBroadcast(c, state) ==
  IF state = c.online THEN c ELSE HandleOnlineStateChange(c, state)

UpdateStateKeepingTimer(c, state) == SetAndBroadcast([c EXCEPT !.failed = FALSE], state)

UpdateState(c, state) == SetAndBroadcast([c EXCEPT !.timer = FALSE, !.failed = FALSE], state)

HandleWatchStreamStartUntimed(c) ==
  IF c.failed THEN c ELSE Check(SetAndBroadcast(c, "Unknown"), ~c.timer)

HandleWatchStreamStart(c) ==
  IF c.failed THEN c
  ELSE [Check(SetAndBroadcast(c, "Unknown"), ~c.timer) EXCEPT !.timer = TRUE]

HandleWatchStreamFailure(c) ==
  IF c.online = "Online"
  THEN Check(SetAndBroadcast(c, "Unknown"), ~c.failed /\ ~c.timer)
  ELSE SetAndBroadcast([c EXCEPT !.failed = TRUE, !.timer = FALSE], "Offline")

OnlineTimerFired(c) ==
  SetAndBroadcast([Check(c, c.online = "Unknown") EXCEPT !.timer = FALSE], "Offline")

-----------------------------------------------------------------------------
(* RemoteStore: listening                                                  *)

ShouldStartWatchStream(c) ==
  c.network /\ ~IsStarted(c.stream) /\ DOMAIN c.targets # {}

StartWatchStream(c) ==
  HandleWatchStreamStart([c EXCEPT !.aggregator = NewAggregator, !.stream = Start(@)])

SendRequest(c, request) ==
  [c EXCEPT !.aggregator = RecordPendingTargetRequest(@, request.target),
            !.stream = Written(@),
            !.requests = Append(@, request)]

SendWatchRequest(c, t) ==
  SendRequest(c, [op |-> "listen", target |-> t, token |-> c.targets[t]])

SendUnwatchRequest(c, t) == SendRequest(c, [op |-> "stop", target |-> t])

RemoteListen(c, t, token) ==
  LET added == [c EXCEPT !.targets = Put(@, t, token)]
  IN  IF t \in DOMAIN c.targets THEN c
      ELSE IF ShouldStartWatchStream(added) THEN StartWatchStream(added)
      ELSE IF IsOpen(c.stream) THEN SendWatchRequest(added, t)
      ELSE added

Untracked(c, t) ==
  [Check(c, t \in DOMAIN c.targets) EXCEPT !.targets = Restrict(@, DOMAIN @ \ {t})]

RemoteStopListening(c, t) ==
  LET left == Untracked(c, t)
      sent == IF IsOpen(c.stream) THEN SendUnwatchRequest(left, t) ELSE left
  IN  IF DOMAIN sent.targets # {} THEN sent
      ELSE IF IsOpen(c.stream) THEN [sent EXCEPT !.stream = MarkIdle(@)]
      ELSE IF c.network THEN UpdateState(sent, "Unknown")
      ELSE sent

-----------------------------------------------------------------------------
(* SyncEngine: limbo documents                                             *)

LookUpNext(c) ==
  LET d == Head(c.waiting)
      t == <<d, c.nextLimbo>>
  IN  RemoteListen([c EXCEPT !.active = Put(@, d, t), !.waiting = Tail(@),
                             !.nextLimbo = @ + 1], t, {})

PumpOneMore(c) == ForEach(LAMBDA e, i : LookUpNext(e), c, DOMAIN c.waiting)

PumpOne(c) ==
  IF c.waiting # <<>> /\ Cardinality(DOMAIN c.active) < MaxLimbo THEN LookUpNext(c) ELSE c

\* PumpEnqueuedLimboResolutions
Pump(c) == ForEach(LAMBDA e, i : PumpOne(e), c, DOMAIN c.waiting)

\* No document waits twice.
Dequeued(c, d) ==
  IF d \in Range(c.waiting)
  THEN [c EXCEPT !.waiting = RemoveAt(@, CHOOSE i \in DOMAIN @ : @[i] = d)]
  ELSE c

RemoveLimboTargetForgetting(c, d) ==
  LET off == Dequeued(c, d)
  IN  IF d \notin DOMAIN c.active THEN off ELSE Pump(RemoteStopListening(off, c.active[d]))

RemoveLimboTargetOnly(c, d) ==
  LET off == Dequeued(c, d)
      stopped == RemoteStopListening(off, c.active[d])
  IN  IF d \notin DOMAIN c.active THEN off
      ELSE [stopped EXCEPT !.active = Restrict(@, DOMAIN @ \ {d}), !.received = @ \ {d}]

\* RemoveLimboTarget
RemoveLimboTarget(c, d) ==
  LET off == Dequeued(c, d)
      stopped == RemoteStopListening(off, c.active[d])
  IN  IF d \notin DOMAIN c.active THEN off
      ELSE Pump([stopped EXCEPT !.active = Restrict(@, DOMAIN @ \ {d}),
                                !.received = @ \ {d}])

Unreferenced(c, d) == \A ref \in c.refs : ref[1] # d

Dereferenced(c, d, q) ==
  LET less == [c EXCEPT !.refs = @ \ {<<d, q>>}]
  IN  IF Unreferenced(less, d) THEN RemoveLimboTarget(less, d) ELSE less

TrackLimboChange(c, d, q) ==
  LET more == [c EXCEPT !.refs = @ \union {<<d, q>>}]
  IN  IF d \in DOMAIN c.active \/ d \in Range(c.waiting) THEN more
      ELSE Pump([more EXCEPT !.waiting = Append(@, d)])

\* UpdateTrackedLimboDocuments
UpdateTrackedLimboDocuments(c, q, before, after) ==
  ForEach(LAMBDA x, d : TrackLimboChange(x, d, q),
          ForEach(LAMBDA x, d : Dereferenced(x, d, q), c, before \ after),
          after \ before)

-----------------------------------------------------------------------------
(* SyncEngine: listening                                                   *)

SyncListen(c, q) ==
  LET view == NewView(c.saved[q].keys)
      viewed == [Check(c, q \notin DOMAIN c.views) EXCEPT !.views = Put(@, q, view)]
  IN  RemoteListen(OnViewSnapshots(viewed, [x \in {q} |-> "cache"]), q, c.saved[q].token)

\* RemoveAndCleanupTarget, for a query that is in no view any more.
CleanUpTarget(c, q) ==
  LET keys == {ref[1] : ref \in {x \in c.refs : x[2] = q}}
      freed == [c EXCEPT !.refs = {x \in @ : x[2] # q}]
  IN  ForEach(LAMBDA x, d : IF Unreferenced(x, d) THEN RemoveLimboTarget(x, d) ELSE x,
              freed, keys)

WithoutView(c, q) ==
  [Check(c, q \in DOMAIN c.views) EXCEPT !.views = Restrict(@, DOMAIN @ \ {q})]

SyncStopListening(c, q) == CleanUpTarget(RemoteStopListening(WithoutView(c, q), q), q)

\* EventManager::AddQueryListener
AddQueryListener(c, r, q) ==
  LET known == q \in DOMAIN c.queries
      entry == IF known THEN c.queries[q] ELSE [listeners |-> {}, snapshot |-> Nothing]
      added == [c EXCEPT !.queries = Put(@, q, [entry EXCEPT !.listeners = @ \union {r}])]
      shown == IF entry.snapshot # Nothing /\ Hears(added, r, entry.snapshot)
               THEN Raise(added, {Event(r, entry.snapshot)}) ELSE added
  IN  IF known THEN shown ELSE SyncListen(shown, q)

\* EventManager::RemoveQueryListener, of a listener that may be gone.
RemoveQueryListener(c, r, q) ==
  LET less == [c EXCEPT !.queries[q].listeners = @ \ {r}]
  IN  IF q \notin DOMAIN c.queries THEN c
      ELSE IF less.queries[q].listeners # {} THEN less
      ELSE SyncStopListening([less EXCEPT !.queries = Restrict(@, DOMAIN @ \ {q})], q)

-----------------------------------------------------------------------------
(* SyncEngine: remote events                                               *)

\* View::ApplyChanges, with the documents the cache now has for the query.
NextView(c, q, event) ==
  LET view == c.views[q]
  IN  WithLimbo(IF q \in DOMAIN event.changes THEN Changing(view, event.changes[q]) ELSE view,
                Result(q, c.cache))

ViewUpdated(c, q, before, after) ==
  UpdateTrackedLimboDocuments([c EXCEPT !.views[q] = after], q, before.limbo, after.limbo)

ViewsUpdated(c, before, after) ==
  ForEach(LAMBDA e, q : ViewUpdated(e, q, before[q], after[q]), c, DOMAIN before)

\* EmitNewSnapshotsAndNotifyLocalStore; before is the cache of before the
\* event, in which cached documents have changed.
EmitNewSnapshots(c, before, event) ==
  LET next == [q \in DOMAIN c.views |-> NextView(c, q, event)]
      differs(q) == \/ Result(q, c.cache) # Result(q, before)
                    \/ \E d \in Result(q, c.cache) : c.cache[d] # before[d]
                    \/ InSync(next[q]) # InSync(c.views[q])
      sound == \A q \in DOMAIN c.views \intersect DOMAIN event.changes :
                 Changed(event.changes[q], "modified") \subseteq c.views[q].synced
      news == {q \in DOMAIN c.views : differs(q)}
  IN  OnViewSnapshots(ViewsUpdated(Check(c, sound), c.views, next),
                      [q \in news |-> SnapshotOf(next[q])])

\* SyncEngine::ApplyRemoteEvent with LocalStore::ApplyRemoteEvent.
ApplyRemoteEvent(c, event) ==
  LET limbo == {d \in DOMAIN c.active : c.active[d] \in DOMAIN event.changes}
      how(d) == event.changes[c.active[d]].changes
      found == {d \in limbo : "added" \in Range(how(d))}
      lost == {d \in limbo : "removed" \in Range(how(d))}
      sound == \A d \in limbo : "modified" \in Range(how(d)) \/ d \in lost => d \in c.received
      stored(q) ==
        LET change == event.changes[q]
        IN  [keys |-> (c.saved[q].keys \union Changed(change, "added"))
                         \ Changed(change, "removed"),
             token |-> IF q \in event.mismatches THEN {}
                       ELSE IF change.token = {} THEN c.saved[q].token ELSE change.token]
      saved == [q \in DOMAIN event.changes \intersect DOMAIN c.views |-> stored(q)]
      applied == [c EXCEPT !.received = (@ \union found) \ lost,
                           !.saved = Overlay(saved, @),
                           !.cache = Overlay(event.documents, @)]
  IN  EmitNewSnapshots(Check(applied, sound), c.cache, event)

\* SyncEngine::HandleRejectedListen
HandleRejectedListen(c, t) ==
  LET d == CHOOSE x \in KeyOf(t) : TRUE
      freed == Pump([c EXCEPT !.active = Restrict(@, DOMAIN @ \ {d}), !.received = @ \ {d}])
  IN  IF t \in Range(c.active)
      THEN ApplyRemoteEvent(freed, [changes |-> NoEntries, documents |-> [x \in {d} |-> "gone"],
                                    mismatches |-> {}])
      ELSE CleanUpTarget(OnError(WithoutView(c, t), t), t)

-----------------------------------------------------------------------------
(* RemoteStore: the watch stream                                           *)

\* SyncEngine::GetRemoteKeys
KeysOf(c, t) ==
  IF t \in DOMAIN c.views THEN c.views[t].synced
  ELSE {d \in KeyOf(t) \intersect c.received : c.active[d] = t}

\* CreateRemoteEvent with what the aggregator asks RemoteStore for.
EventOf(c, aggregator) ==
  LET known == DOMAIN aggregator.targets
  IN  RemoteEvent(aggregator, [t \in known |-> KeyOf(t)], [t \in known |-> KeysOf(c, t)],
                  DOMAIN c.targets)

ListenAnew(c, t) == SendWatchRequest(SendUnwatchRequest(c, t), t)

RaiseWatchSnapshotResuming(c, tokens) ==
  LET tracked == DOMAIN c.targets
      updated == UpdateResumeTokens(c.aggregator, tokens, tracked)
      event == EventOf(c, updated)
      resumed(t) == IF t \in DOMAIN event.changes /\ event.changes[t].token # {}
                    THEN event.changes[t].token ELSE c.targets[t]
      raised == [c EXCEPT !.aggregator = AfterRemoteEvent(updated, event),
                          !.targets = [t \in tracked |-> resumed(t)]]
  IN  ApplyRemoteEvent(ForEach(ListenAnew, raised, event.mismatches \intersect tracked), event)

RaiseWatchSnapshot(c, tokens) ==
  LET tracked == DOMAIN c.targets
      updated == UpdateResumeTokens(c.aggregator, tokens, tracked)
      event == EventOf(c, updated)
      resumed(t) == IF t \in event.mismatches THEN {}
                    ELSE IF t \in DOMAIN event.changes /\ event.changes[t].token # {}
                         THEN event.changes[t].token ELSE c.targets[t]
      raised == [c EXCEPT !.aggregator = AfterRemoteEvent(updated, event),
                          !.targets = [t \in tracked |-> resumed(t)]]
  IN  ApplyRemoteEvent(ForEach(ListenAnew, raised, event.mismatches \intersect tracked), event)

\* ProcessTargetError
ProcessTargetError(c, t) ==
  IF t \in DOMAIN c.targets
  THEN HandleRejectedListen([Untracked(c, t) EXCEPT !.aggregator = RemoveTarget(@, t)], t)
  ELSE c

\* OnWatchStreamChange
OnWatchStreamChange(c, message) ==
  LET t == message.target
      tracked == DOMAIN c.targets
      up == UpdateState(c, "Online")
      into(aggregator) == [up EXCEPT !.aggregator = aggregator]
  IN  CASE message.type = "added" -> into(TargetAdded(up.aggregator, t))
        [] message.type = "removed" -> into(TargetRemoved(up.aggregator, t))
        [] message.type = "rejected" -> ProcessTargetError(up, t)
        [] message.type = "documents" ->
             into(HandleDocumentChange(up.aggregator, t, message.found, message.removed,
                                       KeysOf(up, t), tracked))
        [] message.type = "filter" ->
             into(HandleExistenceFilter(up.aggregator, t, message.count, KeyOf(t),
                                        KeysOf(up, t), tracked))
        [] message.type = "current" ->
             into(TargetCurrent(up.aggregator, t, message.token, tracked))
        [] message.type = "snapshot" -> RaiseWatchSnapshot(up, message.tokens)

OnWatchStreamOpen(c) == ForEach(SendWatchRequest, c, DOMAIN c.targets)

OnWatchStreamClose(c, graceful) ==
  LET clean == [Check(c, graceful => ~ShouldStartWatchStream(c))
                  EXCEPT !.aggregator = NewAggregator]
  IN  IF ShouldStartWatchStream(c) THEN StartWatchStream(HandleWatchStreamFailure(clean))
      ELSE UpdateState(clean, "Unknown")

Close(c, graceful) ==
  OnWatchStreamClose([c EXCEPT !.stream = Closed(@, graceful), !.requests = <<>>], graceful)

Stop(c) == IF IsStarted(c.stream) THEN Close(c, TRUE) ELSE c

EnableNetwork(c) ==
  LET on == [c EXCEPT !.network = TRUE]
  IN  IF ShouldStartWatchStream(on) THEN StartWatchStream(on) ELSE UpdateState(on, "Unknown")

DisableNetwork(c) == UpdateState(Stop([c EXCEPT !.network = FALSE]), "Offline")

RestartNetwork(c) ==
  LET off == UpdateState(Stop([c EXCEPT !.network = FALSE]), "Unknown")
  IN  EnableNetwork([off EXCEPT !.stream = InhibitBackoff(@)])

-----------------------------------------------------------------------------
Init ==
  /\ app = [asks |-> <<>>, tasks |-> <<>>, muted |-> {}, answered |-> <<>>]
  /\ client = [events |-> <<>>, queries |-> NoEntries, raised |-> {}, views |-> NoEntries,
               refs |-> {}, active |-> NoEntries, received |-> {}, waiting |-> <<>>,
               nextLimbo |-> 1, cache |-> [d \in Docs |-> "in"],
               saved |-> [q \in Asked |-> [token |-> {}, keys |-> {}]],
               targets |-> NoEntries, network |-> TRUE, stream |-> NewStream,
               aggregator |-> NewAggregator, online |-> "Unknown", failed |-> FALSE,
               timer |-> FALSE, requests |-> <<>>]
  /\ truth \in Stored
  /\ told = NoEntries /\ answers = <<>>
  /\ recent = [q \in Asked |-> {}] /\ misled = {}
  /\ edits = 0 /\ trouble = 0

\* What the server had to say is lost with the gRPC stream.
ClientStep(next) ==
  /\ client' = next
  /\ IF IsOpen(client.stream) /\ ~IsOpen(client'.stream)
     THEN told' = NoEntries /\ answers' = <<>> ELSE UNCHANGED <<told, answers>>
  /\ UNCHANGED <<truth, edits>>

Disturbed == trouble < MaxTrouble /\ trouble' = trouble + 1

\* DocumentReference::GetDocument, Query::GetDocuments
Get(q) ==
  /\ Len(app.asks) < MaxReads
  /\ app' = [app EXCEPT !.asks = Append(@, q), !.answered = Append(@, <<>>),
                        !.tasks = Append(@, [op |-> "add", read |-> Len(app.asks) + 1])]
  /\ UNCHANGED <<client, server, ghost, edits, trouble>>

\* The worker queue runs the next call that came from the main queue.
RunTask ==
  LET task == Head(app.tasks)
      q == app.asks[task.read]
      next == IF task.op = "add" THEN AddQueryListener(client, task.read, q)
                                 ELSE RemoveQueryListener(client, task.read, q)
  IN  /\ app.tasks # <<>>
      /\ app' = [app EXCEPT !.tasks = Tail(@)]
      /\ ClientStep(next)
      /\ IF q \in DOMAIN client'.views \ DOMAIN client.views
         THEN /\ recent' = [recent EXCEPT ![q] = {Result(q, truth)}]
              /\ misled' = misled \union ({q} \intersect client.aggregator.resets)
         ELSE UNCHANGED ghost
      /\ UNCHANGED trouble

\* ListenOnce::OnEvent on the main queue, unless the listener is muted.  It
\* removes the registration first, and its future can be had only once.  An
\* error leaves nothing to remove.
DeliverUnmuted ==
  LET event == Head(client.events)
      r == event.read
      answered == [app EXCEPT !.answered[r] = Append(@, event.what)]
      removed == [answered EXCEPT !.tasks = Append(@, [op |-> "remove", read |-> r])]
  IN  /\ client.events # <<>>
      /\ client' = [client EXCEPT !.events = Tail(@)]
      /\ app' = IF event.what = "error" THEN answered ELSE removed
      /\ UNCHANGED <<server, ghost, edits, trouble>>

Deliver ==
  LET event == Head(client.events)
      r == event.read
      answered == [app EXCEPT !.answered[r] = Append(@, event.what)]
      removed == [answered EXCEPT !.muted = @ \union {r},
                                  !.tasks = Append(@, [op |-> "remove", read |-> r])]
  IN  /\ client.events # <<>>
      /\ client' = [client EXCEPT !.events = Tail(@)]
      /\ app' = IF r \in app.muted THEN app
                ELSE IF event.what = "error" THEN answered ELSE removed
      /\ UNCHANGED <<server, ghost, edits, trouble>>

Reconnect ==
  /\ Disturbed /\ client.network
  /\ ClientStep(RestartNetwork(client)) /\ UNCHANGED <<app, ghost>>

TurnNetworkOff ==
  /\ Disturbed /\ client.network
  /\ ClientStep(DisableNetwork(client)) /\ UNCHANGED <<app, ghost>>

TurnNetworkOn ==
  /\ ~client.network
  /\ ClientStep(EnableNetwork(client)) /\ UNCHANGED <<app, ghost, trouble>>

StreamOpens ==
  /\ "current" \in client.stream.asked
  /\ ClientStep(OnWatchStreamOpen(
       [client EXCEPT !.stream = Resumed(CredentialsArrived(@, "current"))]))
  /\ UNCHANGED <<app, ghost, trouble>>

CredentialsFail ==
  /\ Disturbed
  /\ "current" \in client.stream.asked
  /\ ClientStep(Close(Check([client EXCEPT !.stream = CredentialsArrived(@, "current")],
                            client.stream.state = "Starting"), FALSE))
  /\ UNCHANGED <<app, ghost>>

StaleCredentials ==
  /\ "stale" \in client.stream.asked
  /\ ClientStep([client EXCEPT !.stream = CredentialsArrived(@, "stale")])
  /\ UNCHANGED <<app, ghost, trouble>>

BackoffEnds ==
  /\ client.stream.backoff
  /\ ClientStep([client EXCEPT !.stream = BackoffElapsed(@)])
  /\ UNCHANGED <<app, ghost, trouble>>

IdleTimeout ==
  /\ client.stream.idle
  /\ ClientStep(Stop(client)) /\ UNCHANGED <<app, ghost, trouble>>

OnlineTimeout ==
  /\ client.timer
  /\ ClientStep(OnlineTimerFired(client)) /\ UNCHANGED <<app, ghost, trouble>>

StreamBreaks ==
  /\ Disturbed
  /\ IsOpen(client.stream)
  /\ ClientStep(Close(client, FALSE)) /\ UNCHANGED <<app, ghost>>

\* OnStreamRead, WatchStream::NotifyStreamResponse
ReadAnswer ==
  /\ answers # <<>>
  /\ client' = OnWatchStreamChange(client, Head(answers))
  /\ answers' = Tail(answers)
  /\ UNCHANGED <<app, truth, told, ghost, edits, trouble>>

-----------------------------------------------------------------------------
(* The server, as far as the client relies on it.  It serves the requests  *)
(* of a stream in order.  Asked to listen with a resume token, it tells    *)
(* what has changed since it gave the token, and instead of the documents  *)
(* that have left it may tell how many there are.  It sends a snapshot     *)
(* when what it has told of all targets is consistent.                     *)

Found(docs, stored) == [d \in docs |-> stored[d]]

Lost(docs, stored) == [d \in docs |-> IF stored[d] = "gone" THEN "gone" ELSE Unnamed]

Message(type, t) == [type |-> type, target |-> t]

\* What tells the client that a target's result is not token but result.
News(stored, t, token, result) ==
  LET of(found, removed) ==
        IF found = {} /\ removed = {} THEN <<>>
        ELSE <<[type |-> "documents", target |-> t,
                found |-> Found(found, stored), removed |-> Lost(removed, stored)]>>
      filter == <<[type |-> "filter", target |-> t, count |-> Cardinality(result)]>>
      in == result \ token
      left == token \ result
  IN  {of(in, left)} \union (IF left = {} THEN {} ELSE {of(in, {}) \o filter})

Followed(sent, news) == {a \o b : a \in sent, b \in news}

\* What tells it of all the targets whose results have changed.
AllNews(stored, before, after) ==
  ForEach(LAMBDA sent, t : Followed(sent, News(stored, t, before[t], after[t])),
          {<<>>}, {t \in DOMAIN before : after[t] # before[t]})

Snapshot(said) ==
  [type |-> "snapshot", target |-> Nothing, tokens |-> [t \in DOMAIN said |-> {said[t]}]]

NextRequest == Head(client.requests)

MayListen(t) == IF t = Deck THEN Deck \notin Refused ELSE KeyOf(t) \intersect Refused = {}

ServeListen ==
  LET t == NextRequest.target
      result == Result(t, truth)
  IN  /\ client.requests # <<>> /\ NextRequest.op = "listen" /\ MayListen(t)
      /\ client' = [client EXCEPT !.requests = Tail(@)]
      /\ UNCHANGED truth
      /\ told' = Put(told, t, result)
      /\ \E news \in News(truth, t, UNION NextRequest.token, result) :
           answers' = answers \o <<Message("added", t)>> \o news
                        \o <<[type |-> "current", target |-> t, token |-> {result}],
                             Snapshot(told')>>
      /\ UNCHANGED <<app, ghost, edits, trouble>>

ServeStop ==
  /\ client.requests # <<>> /\ NextRequest.op = "stop"
  /\ client' = [client EXCEPT !.requests = Tail(@)]
  /\ told' = Restrict(told, DOMAIN told \ {NextRequest.target})
  /\ answers' = Append(answers, Message("removed", NextRequest.target))
  /\ UNCHANGED <<app, truth, ghost, edits, trouble>>

RefuseListen ==
  /\ client.requests # <<>> /\ NextRequest.op = "listen" /\ ~MayListen(NextRequest.target)
  /\ client' = [client EXCEPT !.requests = Tail(@)]
  /\ answers' = Append(answers, Message("rejected", NextRequest.target))
  /\ UNCHANGED <<app, truth, told, ghost, edits, trouble>>

\* Another user changes a profile; at most one target is concerned at a time
\* but for the deck and a limbo resolution.
Edit(d, to) ==
  /\ edits < MaxEdits /\ edits' = edits + 1
  /\ truth[d] # to
  /\ truth' = [truth EXCEPT ![d] = to]
  /\ told' = [t \in DOMAIN told |-> Result(t, truth')]
  /\ IF told' = told THEN UNCHANGED answers
     ELSE \E news \in AllNews(truth', told, told') :
            answers' = answers \o news \o <<Snapshot(told')>>
  /\ recent' = [q \in Asked |-> recent[q] \union
                   (IF q \in DOMAIN client.views THEN {Result(q, truth')} ELSE {})]
  /\ UNCHANGED <<app, client, misled, trouble>>

Next ==
  \/ \E q \in Asked : Get(q)
  \/ RunTask \/ Deliver
  \/ Reconnect \/ TurnNetworkOff \/ TurnNetworkOn
  \/ StreamOpens \/ CredentialsFail \/ StaleCredentials \/ BackoffEnds
  \/ IdleTimeout \/ OnlineTimeout \/ StreamBreaks \/ ReadAnswer
  \/ ServeListen \/ ServeStop \/ RefuseListen
  \/ \E change \in Changes : Edit(change[1], change[2])

Spec == Init /\ [][Next]_vars

\* The queues run what is put on them, the online timer runs out, and answers are
\* read.  No stream need ever open, and no server be there when one does; but a
\* server that has spoken goes on serving while the stream lasts.
Fairness ==
  /\ WF_vars(Deliver)
  /\ []<>(app.tasks = <<>>) \/ []<><<RunTask>>_vars
  /\ []<>(~client.timer) \/ []<><<OnlineTimeout>>_vars
  /\ []<>(answers = <<>>) \/ []<><<ReadAnswer>>_vars
  /\ []<>(client.requests = <<>> \/ client.online # "Online")
       \/ []<><<ServeListen \/ ServeStop \/ RefuseListen>>_vars

FairSpec == Spec /\ Fairness

-----------------------------------------------------------------------------
\* The shape of the state, and that no more limbo lookups run than there are
\* slots for them.
TypeOK ==
  /\ app.asks \in Seq(Asked) /\ Len(app.asks) <= MaxReads
  /\ app.answered \in Seq(Seq({"server", "cache", "error"}))
  /\ client.stream \in StreamType
  /\ client.online \in {"Unknown", "Online", "Offline"}
  /\ client.network \in BOOLEAN /\ client.failed \in BOOLEAN /\ client.timer \in BOOLEAN
  /\ DOMAIN client.queries \subseteq Asked /\ DOMAIN client.views \subseteq Asked
  /\ client.cache \in [Docs -> {"in", "out", "gone"}]
  /\ Cardinality(DOMAIN client.active) <= MaxLimbo

\* No HARD_ASSERT of the read path fails, whatever the order of the calls, the
\* answers, the timers and the faults: the timer never fires while the client is
\* known to be online, nothing is unlistened twice, and a view hears of a modified
\* document only after it was told of it.
NoAssertFails == client.stream.sound

\* ListenOnce answers a read at most once, although more snapshots of the query
\* may be on their way to it when the first arrives.
AnsweredOnce == \A r \in DOMAIN app.answered : Len(app.answered[r]) <= 1

\* RemoteStore listens to what the SyncEngine has views and limbo lookups of.
TargetsMatch ==
  /\ DOMAIN client.targets = DOMAIN client.views \union Range(client.active)
  /\ DOMAIN client.views = DOMAIN client.queries

Requested(t) == {i \in DOMAIN client.requests : client.requests[i].target = t}
Acknowledged(t) ==
  {i \in DOMAIN answers : answers[i].type \in {"added", "removed"} /\ answers[i].target = t}
InFlight(t) == Cardinality(Requested(t)) + Cardinality(Acknowledged(t))

\* What the aggregator waits for before it believes what it is told of a target is
\* exactly the requests of this target that the server has yet to acknowledge: a
\* query dropped and listened to anew is not taken for the old one.  A refusal is
\* not counted by the code, hence MayListen.
AcksAreCounted ==
  \A t \in DOMAIN client.aggregator.targets :
    MayListen(t) => client.aggregator.targets[t].outstanding = InFlight(t)

\* A view that calls itself in sync with the server shows a result the server has
\* had since the client listens to the query: a read answered "from the server" is
\* no mixture of old and new.  misled is what the code gets wrong, see
\* MismatchIsRepaired.
IsServers(q) == InSync(client.views[q]) => Result(q, client.cache) \in recent[q]

\* The views in sync show what the server has had.
ViewIsServers == \A q \in DOMAIN client.views \ misled : IsServers(q)

\* What WatchChangeAggregator::ResetTarget promises after an existence filter
\* mismatch: documents the server does not send again leave the target.  The
\* mismatch of a query that is dropped and listened to anew before the snapshot
\* is taken for one of the new listen, whose removals nobody has recorded.
MismatchIsRepaired == \A q \in DOMAIN client.views : IsServers(q)

\* The resume token of a query never gets ahead of the documents remembered for
\* it, in the cache, the view or the RemoteStore: the server, resuming from the
\* token, leaves out nothing the client does not have.
TokensMatchKeys ==
  /\ \A q \in Asked \ misled :
       LET saved == client.saved[q]
       IN  IF saved.token = {} THEN saved.keys = {} ELSE saved.token = {saved.keys}
  /\ \A q \in DOMAIN client.views : client.saved[q].keys = client.views[q].synced
  /\ \A q \in DOMAIN client.views \ misled : client.targets[q] = client.saved[q].token

\* Every limbo document of a view is looked up or waits for a slot, unless the
\* server refused its lookup; nothing else is, and no document twice, and none
\* waits while a slot is free.  A refused lookup is not tried again: the document
\* is taken for deleted, and a view that was out of sync when that happened keeps
\* it as limbo (View::UpdateLimboDocuments) until the server names it again.
LimboIsLookedUp ==
  LET limbo(q) == client.views[q].limbo
      lookups == DOMAIN client.active \union Range(client.waiting)
  IN  /\ client.refs = UNION {limbo(q) \X {q} : q \in DOMAIN client.views}
      /\ lookups \subseteq UNION {limbo(q) : q \in DOMAIN client.views}
      /\ \A q \in DOMAIN client.views : limbo(q) \ Refused \subseteq lookups
      /\ DOMAIN client.active \intersect Range(client.waiting) = {}
      /\ client.waiting # <<>> => Cardinality(DOMAIN client.active) = MaxLimbo

\* The last target is gone while its stream is still being started: RemoteStore
\* cancels the online timer, and the next Listen finds the stream started and
\* starts none.
Abandoned == DOMAIN client.targets = {} /\ client.stream.state \in {"Starting", "Backoff"}

TimerLost == client.online = "Unknown" /\ IsStarted(client.stream) /\ ~client.timer

\* Every getDocument and getDocuments is answered, server or no server: without one
\* the online timer, a stream failure or the disabled network ends the wait.  The
\* code has one gap, the timer of an abandoned start: a read after that waits for
\* as long as the stream neither fails nor hears from a server.
EveryReadIsAnswered ==
  \/ []<>(\A r \in DOMAIN app.asks : app.answered[r] # <<>>)
  \/ <>Abandoned /\ <>[]TimerLost
=============================================================================
