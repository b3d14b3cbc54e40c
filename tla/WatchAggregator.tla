--------------------------- MODULE WatchAggregator ---------------------------
(***************************************************************************)
(* WatchChangeAggregator (remote/remote_event.cc): what the watch stream   *)
(* has said since the last consistent snapshot.                            *)
(*                                                                         *)
(*   targets    [target -> its TargetState]: outstanding requests, whether *)
(*              the server called it current, whether there is something   *)
(*              to tell (dirty), what became of which document, and the    *)
(*              resume token                                               *)
(*   documents  pending_document_updates_                                  *)
(*   resets     pending_target_resets_                                     *)
(*                                                                         *)
(* A resume token is {} when there is none, or {docs} if the server had    *)
(* named docs when it handed it out.  A document is "in" the deck's query, *)
(* "out" of it, or "gone"; Unnamed stands for a document the server sent   *)
(* no content of.  tracked are the targets RemoteStore listens to, key the *)
(* document a target asks for ({} for a query), keys those the views hold  *)
(* for it.                                                                 *)
(***************************************************************************)
EXTENDS Naturals, Sequences, SequencesExt, FiniteSetsExt

Unnamed == "unnamed"
NoEntries == [x \in {} |-> Unnamed]

\* An entry set in a map, and the entries of a map laid over those of another.
Put(f, x, value) == [y \in DOMAIN f \union {x} |-> IF y = x THEN value ELSE f[y]]
Overlay(f, g) == [y \in DOMAIN f \union DOMAIN g |-> IF y \in DOMAIN f THEN f[y] ELSE g[y]]

NewAggregator == [targets |-> NoEntries, documents |-> NoEntries, resets |-> {}]

NewTargetState ==
  [outstanding |-> 0, current |-> FALSE, dirty |-> TRUE, changes |-> NoEntries, token |-> {}]

\* EnsureTargetState
StateOf(a, t) == IF t \in DOMAIN a.targets THEN a.targets[t] ELSE NewTargetState

WithState(a, t, s) == [a EXCEPT !.targets = Put(@, t, s)]

IsPending(a, t) == StateOf(a, t).outstanding # 0

IsActive(a, t, tracked) == ~IsPending(a, t) /\ t \in tracked

RecordPendingTargetRequest(a, t) ==
  WithState(a, t, [StateOf(a, t) EXCEPT !.outstanding = @ + 1])

ClearPendingChanges(s) == [s EXCEPT !.dirty = FALSE, !.changes = NoEntries]

RemoveTarget(a, t) ==
  [a EXCEPT !.targets = Restrict(@, DOMAIN @ \ {t})]

\* HandleTargetChange: a request to listen is acknowledged.
TargetAddedUncounted(a, t) ==
  WithState(a, t, ClearPendingChanges([StateOf(a, t) EXCEPT !.outstanding = 0]))

TargetAdded(a, t) ==
  LET s == [StateOf(a, t) EXCEPT !.outstanding = @ - 1]
  IN  WithState(a, t, IF s.outstanding = 0 THEN ClearPendingChanges(s) ELSE s)

\* HandleTargetChange: a request to stop listening is acknowledged.
TargetRemoved(a, t) ==
  LET s == [StateOf(a, t) EXCEPT !.outstanding = @ - 1]
  IN  IF s.outstanding = 0 THEN RemoveTarget(a, t) ELSE WithState(a, t, s)

TargetCurrent(a, t, token, tracked) ==
  IF IsActive(a, t, tracked)
  THEN WithState(a, t, [StateOf(a, t) EXCEPT !.current = TRUE, !.dirty = TRUE, !.token = token])
  ELSE a

\* HandleDocumentChange: found documents match the target, removed ones do not.
HandleDocumentChange(a, t, found, removed, keys, tracked) ==
  LET left == DOMAIN removed
      before == StateOf(a, t).changes
      after == Overlay([d \in left \intersect keys |-> "removed"],
                       Restrict(before, DOMAIN before \ left))
      changes == Overlay([d \in DOMAIN found |-> IF d \in keys THEN "modified" ELSE "added"],
                         after)
      named == {d \in left : removed[d] # Unnamed}
  IN  IF IsActive(a, t, tracked)
      THEN [WithState(a, t, [StateOf(a, t) EXCEPT !.dirty = TRUE, !.changes = changes])
              EXCEPT !.documents = Overlay(found, Overlay(Restrict(removed, named), @))]
      ELSE a

ResetTargetKeeping(a, t, keys, tracked) == WithState(a, t, NewTargetState)

ResetTarget(a, t, keys, tracked) ==
  HandleDocumentChange(WithState(a, t, NewTargetState), t, NoEntries,
                       [d \in keys |-> Unnamed], keys, tracked)

Changed(s, how) == {d \in DOMAIN s.changes : s.changes[d] = how}

\* HandleExistenceFilter: the server only counts the documents.  key is the
\* one document the target asks for, {} if it is a query.
HandleExistenceFilter(a, t, count, key, keys, tracked) ==
  LET s == StateOf(a, t)
      counted == Cardinality(keys) + Cardinality(Changed(s, "added"))
                   - Cardinality(Changed(s, "removed"))
  IN  IF ~IsActive(a, t, tracked) THEN a
      ELSE IF key # {}
      THEN IF count = 0
           THEN HandleDocumentChange(a, t, NoEntries, [d \in key |-> "gone"], keys, tracked)
           ELSE a
      ELSE IF counted = count THEN a
           ELSE [ResetTarget(a, t, keys, tracked) EXCEPT !.resets = @ \union {t}]

\* A change for all targets: the active ones get the new resume token.
UpdateResumeTokens(a, tokens, tracked) ==
  [a EXCEPT !.targets = [t \in DOMAIN @ |->
     IF IsActive(a, t, tracked) /\ t \in DOMAIN tokens
     THEN [@[t] EXCEPT !.dirty = TRUE, !.token = tokens[t]] ELSE @[t]]]

\* CreateRemoteEvent.  A target that asks for one document and is current
\* without it has been told that the document does not exist.  Of several that ask
\* for the same one, the first in the order of an unordered map makes it known.
Absent(a, key, keys, tracked) ==
  {t \in DOMAIN a.targets :
     /\ IsActive(a, t, tracked) /\ a.targets[t].current
     /\ key[t] # {} /\ key[t] \intersect (DOMAIN a.documents \union keys[t]) = {}}

Missing(a, key, keys, tracked) ==
  LET absent == Absent(a, key, keys, tracked)
  IN  {t \in absent : t = CHOOSE first \in absent : key[first] = key[t]}

RemoteEvent(a, key, keys, tracked) ==
  LET missing == Missing(a, key, keys, tracked)
      told == {t \in DOMAIN a.targets :
                 IsActive(a, t, tracked) /\ (a.targets[t].dirty \/ t \in missing)}
      settled(t) == IF t \in missing THEN [a.targets[t] EXCEPT !.changes = NoEntries]
                                     ELSE a.targets[t]
  IN  [changes |-> [t \in told |-> settled(t)],
       documents |-> Overlay([d \in UNION {key[t] : t \in missing} |-> "gone"], a.documents),
       mismatches |-> a.resets]

\* What stays in the aggregator after that.
AfterRemoteEvent(a, event) ==
  [targets |-> [t \in DOMAIN a.targets |->
                  IF t \in DOMAIN event.changes THEN ClearPendingChanges(a.targets[t])
                                                ELSE a.targets[t]],
   documents |-> NoEntries, resets |-> {}]
=============================================================================
