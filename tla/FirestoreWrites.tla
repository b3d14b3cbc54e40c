--------------------------- MODULE FirestoreWrites ---------------------------
(***************************************************************************)
(* The write path of the Firestore client: what becomes of a setData.      *)
(* SyncEngine::WriteMutations files the write in the queue of the current  *)
(* user (LevelDbMutationQueue, on disk), RemoteStore keeps the oldest      *)
(* batches of that queue in its write pipeline and sends them over the     *)
(* write stream, and the answers, which carry no name, are taken to be for *)
(* the pipeline's first batch.                                             *)
(*                                                                         *)
(* Everything on the client runs on one worker queue, so each task of it   *)
(* is one step.  client is the client's state, on disk and in memory:      *)
(*                                                                         *)
(*   queue      [user -> [batch id -> write]]       on disk                *)
(*   tokens     users with a stream token stored    on disk                *)
(*   user       current_user_ of the SyncEngine                            *)
(*   nextId     next_batch_id_ of the current user's mutation queue        *)
(*   callbacks  [user -> [batch id -> write]], mutation_callbacks_         *)
(*   network    is_network_enabled_                                        *)
(*   pipeline   write_pipeline_                                            *)
(*   stream, handshake, token      the WriteStream; whose token it holds   *)
(*   session    the user whose credentials opened the gRPC stream          *)
(*   requests   sent over the gRPC stream and not yet seen by the server   *)
(*   outcome    what the app has been told of each write                   *)
(*                                                                         *)
(* answers and fault are on their way from the server; stored is each      *)
(* user's document there (the apps write only the own profile), committed  *)
(* what was ever stored, issued the order in which the app wrote.  trouble *)
(* counts what disturbs the client.                                        *)
(***************************************************************************)
EXTENDS Naturals, Sequences, SequencesExt, FiniteSetsExt, FirestoreStream

CONSTANTS
  Users,             \* who may be signed in
  Writes,            \* the writes the app makes, each of them once
  Refused,           \* those the server refuses for good
  MaxPendingWrites,  \* kMaxPendingWrites: the length of the pipeline
  MaxTrouble,        \* bound: faults, restarts, changes of user or network
  Nothing            \* no write, nobody

ASSUME WritesAssumption ==
  /\ IsFiniteSet(Writes) /\ Refused \subseteq Writes
  /\ Nothing \notin Writes \union Users /\ {"handshake", "ended"} \intersect Writes = {}
ASSUME PipelineAssumption == MaxPendingWrites \in Nat \ {0}

VARIABLES client, answers, fault, stored, committed, issued, trouble

cloud == <<stored, committed>>
vars == <<client, answers, fault, cloud, issued, trouble>>

Outcomes == {"unwritten", "pending", "ok", "failed", "forgotten"}

\* The status a gRPC stream ends with.  Both errors are permanent ones
\* (Datastore::IsPermanentError), but an aborted write may be tried again.
Faults == {"ok", "unavailable", "aborted", "permanent"}
IsPermanentError(status) == status \in {"aborted", "permanent"}
IsPermanentWriteError(status) == status = "permanent"

\* Requests besides the writes; after Ended the server reads no more.
Handshake == "handshake"
Ended == "ended"
NoBatches == [id \in {} |-> Nothing]

Batch(c, id) == [id |-> id, write |-> c.queue[c.user][id]]

-----------------------------------------------------------------------------
(* The handlers, each as a function of the client's state.                 *)

ShouldStartWriteStream(c) ==
  c.network /\ ~IsStarted(c.stream) /\ c.pipeline # <<>>

StartIfNeeded(c) ==
  IF ShouldStartWriteStream(c) THEN [c EXCEPT !.stream = Start(@)] ELSE c

\* AddToWritePipeline, for some batches in turn.
AddToWritePipeline(c, batches) ==
  LET added == [c EXCEPT !.pipeline = @ \o batches]
  IN  IF batches # <<>> /\ IsOpen(c.stream) /\ c.handshake
      THEN [added EXCEPT !.stream = Written(@),
                         !.requests = @ \o [i \in DOMAIN batches |-> batches[i].write]]
      ELSE added

\* GetNextMutationBatch: the batches the pipeline has not come to.
Later(c) ==
  {id \in DOMAIN c.queue[c.user] : c.pipeline # <<>> => id > Last(c.pipeline).id}

\* Batches are kept by their ids: the place of one, and all in that order.
Place(ids, id) == Cardinality({i \in ids : i <= id})
InOrder(ids) == [i \in 1 .. Cardinality(ids) |-> CHOOSE id \in ids : Place(ids, id) = i]

RoomForOneMore(c) == IF c.network THEN MaxPendingWrites + 1 - Len(c.pipeline) ELSE 0

\* CanAddToWritePipeline
Room(c) == IF c.network THEN MaxPendingWrites - Len(c.pipeline) ELSE 0

FillWritePipeline(c) ==
  LET next == {id \in Later(c) : Place(Later(c), id) <= Room(c)}
      ids == InOrder(next)
      filled == AddToWritePipeline(c, [i \in DOMAIN ids |-> Batch(c, ids[i])])
      idle == c.network /\ filled.pipeline = <<>>
  IN  StartIfNeeded(IF idle THEN [filled EXCEPT !.stream = MarkIdle(@)] ELSE filled)

NextBatchIdForgetting(queue) == 1

\* The batch ids start above every batch on disk, of whatever user.
NextBatchId(queue) ==
  1 + Max({0} \union UNION {DOMAIN queue[u] : u \in Users})

\* What a put into the queue's rows replaces, an insert into the callbacks keeps.
Put(batches, id, w) ==
  [i \in DOMAIN batches \union {id} |-> IF i = id THEN w ELSE batches[i]]
Insert(batches, id, w) ==
  [i \in DOMAIN batches \union {id} |-> IF i \in DOMAIN batches THEN batches[i] ELSE w]

\* SyncEngine::WriteMutations
WriteMutations(c, w) ==
  FillWritePipeline(
    [c EXCEPT !.queue[c.user] = Put(@, c.nextId, w),
              !.nextId = @ + 1,
              !.callbacks[c.user] = Insert(@, c.nextId, w),
              !.outcome[w] = "pending"])

\* LevelDbMutationQueue::RemoveMutationBatch, which needs the batch there.
RemoveBatch(c, batch) ==
  [c EXCEPT !.stream = HardAssert(@, batch.id \in DOMAIN c.queue[c.user]),
            !.queue[c.user] = Restrict(@, DOMAIN @ \ {batch.id})]

NotifyUserKeeping(c, batch, answer) ==
  LET callbacks == c.callbacks[c.user]
  IN  IF batch.id \in DOMAIN callbacks
      THEN [c EXCEPT !.outcome[callbacks[batch.id]] = answer] ELSE c

\* SyncEngine::NotifyUser
NotifyUser(c, batch, answer) ==
  LET callbacks == c.callbacks[c.user]
  IN  IF batch.id \in DOMAIN callbacks
      THEN [c EXCEPT !.outcome[callbacks[batch.id]] = answer,
                     !.callbacks[c.user] = Restrict(@, DOMAIN @ \ {batch.id})]
      ELSE c

HandleSuccessfulWrite(c, batch) == RemoveBatch(NotifyUser(c, batch, "ok"), batch)

HandleRejectedWrite(c, batch) == NotifyUser(RemoveBatch(c, batch), batch, "failed")

\* OnWriteStreamMutationResult
MutationResult(c) ==
  IF c.pipeline = <<>>
  THEN [c EXCEPT !.stream = HardAssert(@, FALSE)]
  ELSE LET popped == [c EXCEPT !.pipeline = Tail(@), !.token = c.session,
                               !.tokens = @ \union {c.user}]
       IN  FillWritePipeline(HandleSuccessfulWrite(popped, Head(c.pipeline)))

\* OnWriteStreamHandshakeComplete: the whole pipeline is sent.
HandshakeComplete(c) ==
  [c EXCEPT !.handshake = TRUE,
            !.token = c.session,
            !.tokens = @ \union {c.user},
            !.stream = IF c.pipeline = <<>> THEN @ ELSE Written(@),
            !.requests = @ \o [i \in DOMAIN c.pipeline |-> c.pipeline[i].write]]

HandleHandshakeError(c, status) ==
  IF IsPermanentError(status)
  THEN [c EXCEPT !.token = Nothing, !.tokens = @ \ {c.user}]
  ELSE c

HandleWriteErrorAlways(c, status) ==
  LET batch == Head(c.pipeline)
      dropped == [c EXCEPT !.pipeline = Tail(@), !.stream = InhibitBackoff(@)]
  IN  FillWritePipeline(HandleRejectedWrite(dropped, batch))

HandleWriteError(c, status) ==
  IF ~IsPermanentWriteError(status)
  THEN c
  ELSE LET batch == Head(c.pipeline)
           dropped == [c EXCEPT !.pipeline = Tail(@), !.stream = InhibitBackoff(@)]
       IN  FillWritePipeline(HandleRejectedWrite(dropped, batch))

OnWriteStreamCloseNoRestart(c, status) ==
  CASE status = "ok" \/ c.pipeline = <<>> -> c
    [] OTHER -> IF c.handshake THEN HandleWriteError(c, status)
                               ELSE HandleHandshakeError(c, status)

OnWriteStreamClose(c, status) ==
  LET checked == [c EXCEPT !.stream =
                    HardAssert(@, status = "ok" => ~ShouldStartWriteStream(c))]
  IN  StartIfNeeded(
        CASE status = "ok" \/ c.pipeline = <<>> -> checked
          [] OTHER -> IF c.handshake
                      THEN HandleWriteError(checked, status)
                      ELSE HandleHandshakeError(checked, status))

CloseKeepingHandshake(c, status) ==
  OnWriteStreamClose([c EXCEPT !.stream = Closed(@, status = "ok")], status)

\* Stream::Close and WriteStream::NotifyStreamClose, which resets the
\* handshake only after the owner has been told.
Close(c, status) ==
  [OnWriteStreamClose([c EXCEPT !.stream = Closed(@, status = "ok")], status)
     EXCEPT !.handshake = FALSE]

Stop(c) == IF IsStarted(c.stream) THEN Close(c, "ok") ELSE c

DisableNetworkKeepingPipeline(c) == Stop([c EXCEPT !.network = FALSE])

DisableNetwork(c) == [Stop([c EXCEPT !.network = FALSE]) EXCEPT !.pipeline = <<>>]

EnableNetwork(c) ==
  FillWritePipeline(
    [c EXCEPT !.network = TRUE,
              !.token = IF c.user \in c.tokens THEN c.user ELSE Nothing])

RestartNetwork(c) ==
  EnableNetwork([DisableNetwork(c) EXCEPT !.stream = InhibitBackoff(@)])

HandleCredentialChangeQuietly(c, u) ==
  IF u = c.user THEN c ELSE [c EXCEPT !.user = u, !.nextId = NextBatchId(c.queue)]

\* SyncEngine::HandleCredentialChange; a refreshed token of the same user
\* comes this way, too.
HandleCredentialChange(c, u) ==
  LET changed == IF u = c.user THEN c
                 ELSE [c EXCEPT !.user = u, !.nextId = NextBatchId(c.queue)]
  IN  IF c.network THEN RestartNetwork(changed) ELSE changed

\* The process dies and the app is launched again: what is on disk stays, and
\* so does the session, which Auth keeps.  FirestoreClient::Initialize.
Relaunched(c) ==
  EnableNetwork(
    [c EXCEPT !.nextId = NextBatchId(c.queue),
              !.callbacks = [u \in Users |-> NoBatches],
              !.pipeline = <<>>, !.stream = NewStream, !.handshake = FALSE,
              !.outcome = [w \in Writes |-> IF @[w] = "pending" THEN "forgotten" ELSE @[w]]])

-----------------------------------------------------------------------------
Init ==
  /\ \E u \in Users :
       client = [queue |-> [v \in Users |-> NoBatches], tokens |-> {},
                 user |-> u, nextId |-> 1,
                 callbacks |-> [v \in Users |-> NoBatches],
                 network |-> TRUE, pipeline |-> <<>>,
                 stream |-> NewStream, handshake |-> FALSE, token |-> Nothing,
                 session |-> u, requests |-> <<>>,
                 outcome |-> [w \in Writes |-> "unwritten"]]
  /\ answers = <<>> /\ fault = "ok"
  /\ stored = [u \in Users |-> Nothing] /\ committed = {}
  /\ issued = [u \in Users |-> <<>>]
  /\ trouble = 0

\* A step of the client that closes the gRPC stream loses what is on its way
\* from the server.
ClientStep(next) ==
  /\ client' = next
  /\ IF IsOpen(client.stream) /\ ~IsOpen(client'.stream)
     THEN answers' = <<>> /\ fault' = "ok" ELSE UNCHANGED <<answers, fault>>
  /\ UNCHANGED cloud

Disturbed == trouble < MaxTrouble /\ trouble' = trouble + 1

\* setData.
Write(w) ==
  /\ client.outcome[w] = "unwritten"
  /\ ClientStep(WriteMutations(client, w))
  /\ issued' = [issued EXCEPT ![client.user] = Append(@, w)]
  /\ UNCHANGED trouble

ChangeCredentials(u) ==
  /\ Disturbed
  /\ ClientStep(HandleCredentialChange(client, u))
  /\ UNCHANGED issued

TurnNetworkOff ==
  /\ Disturbed
  /\ ClientStep(DisableNetwork(client)) /\ UNCHANGED issued

TurnNetworkOn ==
  /\ ~client.network
  /\ ClientStep(EnableNetwork(client)) /\ UNCHANGED <<issued, trouble>>

\* The callback RemoteStore::Start gives to the ConnectivityMonitor.
ConnectivityChanged ==
  /\ Disturbed /\ client.network
  /\ ClientStep(RestartNetwork(client)) /\ UNCHANGED issued

Relaunch ==
  /\ Disturbed
  /\ ClientStep(Relaunched(client)) /\ UNCHANGED issued

\* HandleSuccessfulWrite calls the app back before it writes to the disk.
DieInResult ==
  /\ Disturbed
  /\ answers # <<>> /\ Head(answers) # Handshake
  /\ ClientStep(Relaunched(NotifyUser(client, Head(client.pipeline), "ok")))
  /\ UNCHANGED issued

\* The token is there: the stream opens and sends its handshake.
StreamOpens ==
  /\ "current" \in client.stream.asked
  /\ LET resumed == Resumed(CredentialsArrived(client.stream, "current"))
         opened == Written(HardAssert(resumed, ~client.handshake))
     IN  client' = [client EXCEPT !.stream = opened, !.session = client.user,
                                  !.requests = <<Handshake>>]
  /\ answers' = <<>> /\ fault' = "ok"
  /\ UNCHANGED <<cloud, issued, trouble>>

CredentialsFail ==
  /\ Disturbed
  /\ "current" \in client.stream.asked
  /\ LET s == HardAssert(CredentialsArrived(client.stream, "current"),
                         client.stream.state = "Starting")
     IN  ClientStep(Close([client EXCEPT !.stream = s], "unavailable"))
  /\ UNCHANGED issued

StaleCredentials ==
  /\ "stale" \in client.stream.asked
  /\ ClientStep([client EXCEPT !.stream = CredentialsArrived(@, "stale")])
  /\ UNCHANGED <<issued, trouble>>

BackoffEnds ==
  /\ client.stream.backoff
  /\ ClientStep([client EXCEPT !.stream = BackoffElapsed(@)])
  /\ UNCHANGED <<issued, trouble>>

IdleTimeout ==
  /\ client.stream.idle
  /\ ClientStep(Stop(client))
  /\ UNCHANGED <<issued, trouble>>

\* OnStreamRead, WriteStream::NotifyStreamResponse
ReadAnswer ==
  /\ answers # <<>>
  /\ client' = IF client.handshake THEN MutationResult(client) ELSE HandshakeComplete(client)
  /\ answers' = Tail(answers)
  /\ UNCHANGED <<fault, cloud, issued, trouble>>

\* OnStreamFinish, when all the server had answered has been read.
StreamEnds ==
  /\ fault # "ok" /\ answers = <<>>
  /\ ClientStep(Close(client, fault))
  /\ UNCHANGED <<issued, trouble>>

-----------------------------------------------------------------------------
(* The server, as far as the client relies on it.  It serves a stream's    *)
(* requests in order and answers them in order.  What the client sent over *)
(* a stream it has since closed may still be served, until it opens the    *)
(* next one.  It ends a stream only with an error.                         *)

Listening == IsOpen(client.stream) /\ fault = "ok"

Served(request) ==
  /\ client' = [client EXCEPT !.requests = Tail(@)]
  /\ answers' = IF Listening THEN Append(answers, request) ELSE answers

ServeHandshake ==
  /\ client.requests # <<>> /\ Head(client.requests) = Handshake
  /\ Served(Handshake)
  /\ UNCHANGED <<fault, cloud, issued, trouble>>

ServeWrite ==
  /\ client.requests # <<>> /\ Head(client.requests) \in Writes \ Refused
  /\ Served(Head(client.requests))
  /\ stored' = [stored EXCEPT ![client.session] = Head(client.requests)]
  /\ committed' = committed \union {Head(client.requests)}
  /\ UNCHANGED <<fault, issued, trouble>>

EndStream(status) ==
  /\ client' = [client EXCEPT !.requests = <<Ended>>]
  /\ fault' = IF Listening THEN status ELSE fault
  /\ UNCHANGED <<cloud, issued>>

RefuseWrite ==
  /\ client.requests # <<>> /\ Head(client.requests) \in Refused
  /\ EndStream("permanent")
  /\ UNCHANGED <<answers, trouble>>

RefuseHandshake ==
  /\ Disturbed
  /\ client.requests # <<>> /\ Head(client.requests) = Handshake
  /\ EndStream("permanent")
  /\ UNCHANGED answers

AbortWrite ==
  /\ Disturbed
  /\ client.requests # <<>> /\ Head(client.requests) \in Writes
  /\ EndStream("aborted")
  /\ UNCHANGED answers

\* The connection breaks: the answers not read yet are lost, while the server
\* may not have noticed.
Break ==
  /\ Disturbed
  /\ Listening
  /\ answers' = <<>> /\ fault' = "unavailable"
  /\ UNCHANGED <<client, cloud, issued>>

Next ==
  \/ \E w \in Writes : Write(w)
  \/ \E u \in Users : ChangeCredentials(u)
  \/ TurnNetworkOff \/ TurnNetworkOn \/ ConnectivityChanged \/ Relaunch \/ DieInResult
  \/ StreamOpens \/ CredentialsFail \/ StaleCredentials \/ BackoffEnds \/ IdleTimeout
  \/ ReadAnswer \/ StreamEnds
  \/ ServeHandshake \/ ServeWrite \/ RefuseWrite \/ RefuseHandshake \/ AbortWrite \/ Break

Spec == Init /\ [][Next]_vars

\* The platform runs the timers and fetches tokens, the network and the server
\* answer; trouble is bounded, the user and the app are under no obligation.
\* The last two are weak fairness with ENABLED spelled out, which TLC is too
\* slow to evaluate for a whole handler.
Fairness ==
  /\ WF_vars(StreamOpens) /\ WF_vars(BackoffEnds)
  /\ WF_vars(ServeHandshake) /\ WF_vars(ServeWrite) /\ WF_vars(RefuseWrite)
  /\ []<>(answers = <<>>) \/ []<><<ReadAnswer>>_vars
  /\ []<>(fault = "ok" \/ answers # <<>>) \/ []<><<StreamEnds>>_vars

FairSpec == Spec /\ Fairness

-----------------------------------------------------------------------------
RequestType == Writes \union {Handshake, Ended}

BatchType == [id : Nat, write : Writes]

\* The shape of the state; the pipeline stays as short as the code wants it, and
\* no batch id is handed out that the writes do not account for.
TypeOK ==
  /\ DOMAIN client = {"queue", "tokens", "user", "nextId", "callbacks", "network",
        "pipeline", "stream", "handshake", "token", "session", "requests", "outcome"}
  /\ \A u \in Users :
       /\ DOMAIN client.queue[u] \subseteq 1 .. Cardinality(Writes)
       /\ Range(client.queue[u]) \union Range(client.callbacks[u]) \subseteq Writes
  /\ client.tokens \subseteq Users /\ client.user \in Users /\ client.session \in Users
  /\ client.token \in Users \union {Nothing}
  /\ client.nextId \in Nat /\ client.network \in BOOLEAN /\ client.handshake \in BOOLEAN
  /\ client.pipeline \in Seq(BatchType) /\ Len(client.pipeline) <= MaxPendingWrites
  /\ client.stream \in StreamType
  /\ client.requests \in Seq(RequestType) /\ answers \in Seq(Writes \union {Handshake})
  /\ fault \in Faults
  /\ client.outcome \in [Writes -> Outcomes]
  /\ stored \in [Users -> Writes \union {Nothing}]

\* No HARD_ASSERT of stream.cc, write_stream.cc, remote_store.cc, local_store.cc
\* or leveldb_mutation_queue.cc ever fails.
NoAssertFails == client.stream.sound

\* The pipeline holds the oldest batches of the current user, in their order.
PipelineIsOldest ==
  \A i \in DOMAIN client.pipeline :
    LET id == client.pipeline[i].id
        queue == client.queue[client.user]
    IN  /\ id \in DOMAIN queue /\ client.pipeline[i].write = queue[id]
        /\ Place(DOMAIN queue, id) = i

\* An answer names no write: the client takes it to be for the first batch of
\* its pipeline, and that is the write the server has answered.
AnswersCorrelate ==
  answers # <<>> =>
    IF client.handshake THEN /\ client.pipeline # <<>>
                             /\ Head(answers) = Head(client.pipeline).write
                        ELSE Head(answers) = Handshake

\* A callback waits for the batch filed with it, though ids are used again.
CallbacksMatchQueue ==
  \A u \in Users : \A id \in DOMAIN client.callbacks[u] :
    id \in DOMAIN client.queue[u] /\ client.queue[u][id] = client.callbacks[u][id]

\* Nothing is sent with the stream token, or stored in the session, of somebody
\* else.
OwnSession ==
  /\ client.handshake => client.token = client.session
  /\ Range(client.requests) \intersect Writes \subseteq Range(issued[client.session])
  /\ \A u \in Users : stored[u] \in Range(issued[u]) \union {Nothing}

\* No batch gets lost or filed twice: a user's writes are over, but for the
\* last ones, which are the ones in the queue.
QueueIsTheRest ==
  \A u \in Users :
    LET ids == InOrder(DOMAIN client.queue[u])
        over == Len(issued[u]) - Len(ids)
    IN  /\ [i \in DOMAIN ids |-> client.queue[u][ids[i]]]
             = SubSeq(issued[u], over + 1, Len(issued[u]))
        /\ \A i \in 1 .. over : issued[u][i] \in Refused \union committed

\* A write is settled when it is in its user's queue no more.
Settled == [u \in Users |-> Len(issued[u]) - Cardinality(DOMAIN client.queue[u])]
Told == client.outcome

Contract == INSTANCE SetDataContract WITH done <- Settled, outcome <- Told

\* The write path keeps the contract of setData: writes are stored in the order of
\* the calls and reported truthfully and once, whatever is resent, lost or restarted.
KeepsContract == Contract!Spec

\* When a user's queue is empty, the document on the server is the result of the
\* last write the server accepts: no write resent late overtakes it.
LastWriteWins == Contract!LastWriteWins

\* With the network enabled and only so much trouble, every write of the user
\* is settled, however the stream fared.
EveryWriteSettles ==
  LET Waits(w) == client.network /\ w \in Range(client.queue[client.user])
  IN  \A w \in Writes : Waits(w) ~> ~Waits(w)
=============================================================================
