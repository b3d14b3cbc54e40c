# TLA+ models of TinderClone and InstaClone

This directory holds TLA+ models of the two iOS apps in this repository, the
TLC configurations that check them and proofs about them. `src/` is the
repository; most of its 9970 files are vendored pods (Firebase, gRPC,
BoringSSL, JGProgressHUD, SDWebImage). The apps' own code is about 2450 lines of
Swift: TinderClone (22 files) and InstaClone (10 files). Both are thin clients
of Firebase, so what can go wrong in them is the order of things: which answer
arrives first, what has changed between a press and its answer, and which HUD
is still on the screen meanwhile. What the screens may rely on is decided in the
Firestore client, whose source (`Pods/FirebaseFirestore/Firestore/core`) is in
the repository too; its write and read paths are modelled as well.

## 1. Inventory

| Part | State it keeps | Operations | Interacts with | Hard behaviour |
|---|---|---|---|---|
| **JGProgressHUD** (vendored, its control modelled because every screen relies on it to block touches) | target view, `_transitioning`, `_dismissAfterTransitionFinished`, delayed blocks | show, dismiss, dismiss(afterDelay:), end of a fade | all screens | calls in the middle of a fade, delayed blocks hitting a later presentation |
| **Sign-up screen** (`RegisterViewController`, `RegisterViewModel`, `Bindable`) | the three texts, the photo, the button, two kinds of HUD | edit, pick a photo, Login, Register | Auth, Storage, Firestore through nested callbacks | overlapping presses, state read after an answer, failure half way |
| **Main screen** (`MainViewController`, `Extensions+Firestore`) | `currentUser`, the cards in `profileMainView` | Refresh, Settings, `settingsSaved`, two queries | Firestore, settings screen (delegate), registration screen | queries overtaking each other, answers after the screen has moved on |
| **Settings screen** (`SettingsViewController`, `AgeRangeCell`) | `currentUser`, the cells, the photo buttons, uploads | load, edit, scroll, move sliders, pick photo, Save Data, Close, Logout | Firestore, Storage, SDWebImage, main screen | two copies of the data, saving before loading, late pictures and URLs |
| **User / UserProfileViewModel / ProfileView** | the profile; the index of the photo shown | conversion from the document; next and previous photo; swipe | main screen, SDWebImage | photos that load late, both ends of the ring, an empty photo list |
| **Auth and Storage clients** (vendored) | current user, accounts, blobs | createUser, signOut, putData, downloadURL | all screens | asynchronous answers, sessions that change meanwhile |
| **Firestore client, write path** (vendored: `SyncEngine`, `LocalStore`, `RemoteStore`, `WriteStream`) | each user's queue on disk, the pipeline, callbacks, the stream with its timers | setData, change of user, network off and on, answers and refusals, launch | screens, Auth, server | answers lost after the write was stored, crash between two steps, ids used again, restarts of the stream |
| **Firestore client, read path** (vendored: `EventManager`, `SyncEngine`, `View`, `RemoteStore`, `WatchChangeAggregator`, `OnlineStateTracker`) | listeners, views, limbo lookups, resume tokens and keys, the watch stream, the online state | getDocument(s), snapshots, refusals, existence filters, timeouts | screens, server | a listen dropped and made anew while answers are on their way, caches that disagree, offline |
| **Scene and session** | window, root screen | launch; registration is presented when nobody is signed in | main screen | relaunch with writes pending |
| **Membership screen** | e-mail, password | nothing is wired up | - | - |
| **InstaClone sign-up, profile, tabs** | form, HUD; the profile shown | register; read the profile | Auth, Storage, Firestore | overlapping saves, state read after an answer, HUD that stays after a failed upload |
| Layout views, colour and anchor extensions | none | - | - | - |

What makes each part correct:

* HUD: a dismissal asked for is never lost, and never hits a later presentation.
* Sign-up: the button follows the form; an account gets the profile of the
  attempt that made it (it does not, see findings); profiles are never mixed;
  the HUDs leave; every press is answered.
* Deck: Refresh is serialised; no user is on two cards (not so, see findings);
  no HUD stays.
* Card: the bar lit and the photo shown belong together; the index stays in the
  list of photos.
* InstaClone's sign-up: attempts do not overlap until their photo is stored; an
  account gets the profile typed for it, also where TinderClone's does not.
* Firestore, writes: each user's writes are stored in the order of the calls,
  none is lost, and the app is told of each at most once and truthfully; with the
  network on all of them settle.
* Firestore, reads: no read is answered twice, and each is answered, with a
  server or without (with a gap, see section 3); a result said to be the
  server's is one the server had (not quite so, see findings); a resume token
  never gets ahead of the documents kept for it.
* Settings: cells and data agree; ranges are ordered; a save writes what is in
  the cells, or a default for what the profile never had (before loading it
  writes defaults over what it has, see findings); no profile names a missing
  photo.

`PROJECT.json` lists the same parts with their sources, and under `hazards` the
places in the code where these properties are at stake.

## 2. Modules

| Module | What it is |
|---|---|
| `ProgressHUD` | a HUD as a record and its methods as operators on it; shared by the screens |
| `HudLifecycle` | one HUD whose methods are called in every order |
| `Registration` | the sign-up screen with the Firebase calls of one or more presses of Register |
| `RegistrationProofs` | theorems about `Registration` |
| `HomeDeck`, `HomeDeckProofs` | the main screen, its two queries, and what it sees of the settings screen; theorems about them |
| `SettingsScreen`, `SettingsScreenProofs` | the settings screen, its cells, photos and writes; theorems about them |
| `ProfileCard`, `ProfileCardProofs` | one card of the deck: photos, bars, taps, drags, late loads; theorems about it |
| `SignUpContract` | what a sign-up promises, abstractly |
| `InstaSignUp`, `InstaSignUpProofs` | InstaClone's sign-up screen; its safety, that it implements `SignUpContract`, and that the promise then holds |
| `ProgressHUDProofs` | lemmas about the HUD the proofs of both sign-ups and of the deck use; theorems about `HudLifecycle` |
| `FirestoreStream` | a stream of the Firestore client as a record, its methods as operators; shared by both paths |
| `SetDataContract` | what setData promises, abstractly |
| `FirestoreWrites`, `FirestoreWritesProofs` | the write path, shown to implement `SetDataContract`; its safety, the refinement and the contract's promises proved |
| `WatchAggregator` | what the watch stream has said since the last snapshot, as a record with operators |
| `FirestoreReads`, `FirestoreReadsProofs` | the read path, on top of `FirestoreStream` and `WatchAggregator`; theorems about it |
| `MCFirestoreWrites`, `MCFirestoreReads`, `MCProfileCard`, `MCInstaSignUp`, `MCHudLifecycle`, `MCRegistration`, `MCHomeDeck`, `MCSettingsScreen` | symmetry sets and values for TLC |

Each module has one action per handler or per answer of Firebase. Callbacks run
on the main queue one at a time, so a handler or a callback body is one atomic
step; between two of them anything else may happen. Definitions whose names say
that something is missing or wrong (`CleanUpAfterPresentationForgetting`,
`ValidDataNameForgotten`, ...) are plausible bugs, listed under `mutants` in
PROJECT.json; nothing else uses them. They show that the property they are
listed with would notice.

### ProgressHUD and HudLifecycle

`phase` stands for `targetView` and `_transitioning`: hidden, showing (fading
in), shown, hiding (fading out). `later` is `_dismissAfterTransitionFinished`,
`timers` the number of blocks `dismiss(afterDelay:)` has dispatched. `Show`,
`Dismiss`, `DismissAfterDelay`, `CleanUpAfterPresentation`,
`CleanUpAfterDismissal` are the methods of those names, `TimerFired` the
dispatched block, `AnimationFinished` is `animationDidFinish:`. `show` during a
fade or while the HUD is up does nothing, as in the code.

What a HUD does to touches is an assumption about UIKit: from `show` until the
fade-out starts it swallows the touches of the view it covers (its default
interaction type is to block all touches); the fade-out sets its alpha to 0 at
once, and a view of alpha 0 is not hit. A navigation bar is outside the covered
view.

### Registration

`form` and `enabled` are the view model's texts and `registerButton.isEnabled`.
An *attempt* is one press of Register that gets past the guards.
`RegisterViewModel` is a struct: the closures of `userRegister` capture a copy of
it, so an attempt keeps the texts of its press (`entry`). The `Bindable` objects
stay shared, so an attempt uploads the photo selected when createUser answers;
which one that is nothing else depends on (every upload has a name of its own,
a missing photo is uploaded as an empty file), so the photo is left out and a
stored profile's `ImageURL` names the attempt that uploaded it. The stages of an
attempt follow the closures:

    idle -> creating -> created -> signedIn -> uploading -> asking -> saving -> stored -> succeeded
            PressRegister  |    SignInAsNew        |            |       |   SaveStored  SaveAnswered
                     CreateAccount   CreateAnswered   UploadAnswered  URLAnswered

with `refused` (createUser failed) and `failed` (a later step failed) as the
other ends. `CreateAccount` is the server, `SignInAsNew` is Auth's own work
queue, which makes the new account the current user before it calls back.
`URLAnswered` is the body of the innermost callback: it sets registering to
false, asks Auth for the current user, and queues the write. Firestore keeps a
queue of writes per user and drops the answers of a user who is no longer
current (`NotifyUser` in sync_engine.cc): `before` holds the writes ahead of an
attempt's own, and `SaveAnswered` needs `owner[a] = session`. That Firestore
learns of a change of user a little later than Auth is not modelled.

The two HUDs are `hud` (`registerHud`, one for the screen) and `errorHud` (one
made for each failure). A field being edited keeps the keyboard while a HUD is
up, so `EditField` is allowed under an error HUD; the press itself ends editing.
`Init` lets any of the addresses have an account already. An account is
identified with its address and its uid.

### HomeDeck

`user` holds what `currentUser` is asked for here, the search range. A query is
one run of `getByUserInfoFromFirestore`, with the HUD it makes for itself. A
card is a pair of query and user, so that two cards of one user can be told
apart; it is only taken away by the two loops over `profileMainView.subviews`
(a swipe just moves it, `endPanAnimation`). The settings screen is reduced to
what this one sees: writes pending (`saves`, each marked `here` as long as the screen
that made it is shown), the dismissal and `settingsSaved`. Logout may leave the
session as it is (`try? signOut()`). A client reads its own pending write (`OwnView`). Offline,
`getDocuments` answers from the cache with some of the matches. What dismissing
a screen that is gone does with its completion is left open
(`SettingsSavedLate`); another settings screen that may be in front stays. Other users' profiles change at any time.
`usersProfileViewModel` and `lastIncomingUser` are written and never read, so
they are left out.

### SettingsScreen

`user` is `currentUser`, `cells` what the table shows, kept apart because the
handlers of the cells write through `currentUser?`, which does nothing while it
is nil. `Scroll` is a cell being built anew by `cellForRowAt`. `picture`,
`loads` and `upload` are the buttons, the SDWebImage loads and the uploads.
`Covered` says whether a HUD hangs over the table, from show to dismiss; that a
HUD then leaves is checked in `HudLifecycle`. A failed `putData` never
dismisses its HUD (`UploadFailed`). The navigation bar is not covered: Close,
Logout and Save Data stay in reach. Logout ends the session or, if `signOut`
fails, does not, and closes the screen either way. `Reopen` is a new screen; the answers still
under way for the old one reach only the old one, so uploads and loads of the
old one are dropped and its writes are marked. Firestore's document before the
screen opens is either as registration left it or as a save completed it.

### ProfileCard

`names` is `imageNames`, `index` `displayIndex`, `lit` the white bars, `image`
the picture in `imgProfile`. A tap sets `displayIndex`, and its `didSet` looks
the name up and calls the observer, which whitens the bar of that index and
calls `sd_setImage`: all one step (`Display`). An index out of bounds ends the
app (`crashed`). `load` holds SDWebImage's operations, `current` the one the
image view knows: `SetImage` cancels it, clears the image and starts another.
`Fetched` is the answer of the net or a cache leaving for the main queue,
`Answered` the block run there, which does nothing if its operation has been
cancelled. A drag past the limit moves the card off the screen but leaves it in
its superview; a cancelled pan leaves it where it is, and taps still reach it
there (one finger at a time is assumed). After `Remove` the card lives on,
because the observer and the card hold each other. A profile's photos are three
URLs, missing, empty or different from each other; that a URL string always
parses is assumed.

### SignUpContract and InstaSignUp

`SignUpContract` is what a sign-up promises whatever its screens look like. A
request asks for an account (`Ask`), may get one if the address is free
(`Make`), has its profile saved with its own name (`Save`), and is then told
(`Report`); it may fail before it has saved. `SuccessMeansRegistered` is its
promise.

`InstaSignUp` is `ViewController` of InstaClone, `registerButtonClicked` with
its closures. The stages are those of `Registration`; `stuck` is a failed
upload, which returns without dismissing the HUD, and `unsaved` a failed
`setData`. What differs: the texts and the uid are captured, so each write goes
to the account of its own attempt; each press makes a HUD of its own (`hud[a]`)
that stays until the URL has arrived. `resetAppearance` empties the fields in
code, which sends no editing event, so `enabled` stays as it was. As in
`Registration` a field being edited keeps its keyboard under a HUD; which field
has the focus is not modelled, so `EditField` allows somewhat more than a user
can do. `photo` is read from the button when createUser answers. A failed
`downloadURL` is only printed, and the profile is saved without a photo
(`NoURL`).

`Contract` in `InstaSignUp` is the refinement mapping: the stages collapse to
the contract's (`Progress`), e-mail and name are the captured ones, a profile is
the document's `UserName`. `KeepsContract` is `Contract!Spec`. In the repository
this screen is created by Main.storyboard alone; `SceneDelegate` shows
`ICTabBarController`, so until a screen presents it the model is of the class.

### SetDataContract and FirestoreWrites

`FirestoreWrites` follows a `setData` through the client. Everything on the
client runs on one worker queue, so a task of it is one step, and its handlers
are operators on the record `client` that call each other as in the code:
`WriteMutations` (SyncEngine) files the write and calls `FillWritePipeline`
(RemoteStore), which may call `Start` (Stream), and so on. `ClientStep` turns
such a handler into an action and drops what was on its way from the server if
the handler has closed the gRPC stream.

On disk are `queue` (batches by user and id), of which `NextBatchId` starts the
ids anew at a launch or a change of user, and `tokens`, reduced to who has one.
In memory are `pipeline` (the oldest batches of the current user), `callbacks`,
the stream and its `handshake`. `session` is the user whose credentials opened
the gRPC stream: the main queue, the credentials provider's `token_counter` and
the worker queue hand over a change of user before any token asked for after it,
and `close_count_` drops those asked for before. `Closed` makes every token
request under way stale; `Close` resets the handshake after the owner has been
told, as `WriteStream::NotifyStreamClose` does. `Relaunch` is a crash at any
point between two tasks followed by `FirestoreClient::Initialize`;
`DieInResult` is one in the middle of `HandleSuccessfulWrite`, which calls the
app back before it writes to the disk. Open and Healthy, and the length of a
backoff, are not told apart. The apps write only the own profile with setData,
so a user's document is the last write stored. The app and the local view of
pending writes are in the screens' modules (`OwnView`).

Of the server is assumed: a stream's requests are served and answered in order;
it ends a stream only with an error, which comes after the answers before it; what
was sent over a closed stream may still be served, but not once the client has
opened the next one; it refuses certain writes (`Refused`) and always the same.
gRPC is assumed to deliver in order, leveldb transactions to be atomic.

`SetDataContract` knows no streams: writes are issued, stored again and again in
an order that never skips one, settled one by one, and answered; the app may die
at any time. `Contract` is the refinement mapping: what is settled is what is no
longer in the queue. The sign-up and settings modules take from it what they
assume: writes of one user are stored in order and answered in order, an answer
may never come, and the user who is not current is told nothing.

### WatchAggregator and FirestoreReads

A `getDocument` or `getDocuments` is a listener that is removed at its first
event. `app` is what happens on the main queue: the calls on their way to the
worker queue (`tasks`), the muted listeners, and what each read was answered;
`client` is the worker queue's side, with handlers as operators as above.

A target is a query (the deck, or a document asking for itself) or the lookup of
a limbo document, which has the document and a number that is never used again.
Documents are *in* the deck's query, *out* of it or *gone*; what else they hold
plays no part in the client. A resume token is the set of documents the server had
named when it gave it (a set of that set, or {} for none), so the server knows
what to tell a client that resumes, and `TokensMatchKeys` can say what a token
must not do. `saved` is the TargetData on disk with the keys it stands for.
Versions are left out: the server sends them in order. `SetAndBroadcast` and the
rest of OnlineStateTracker keep `failed` for the count of failures, whose limit
is one.

`told` is what the server has said of each target on this stream, `answers` what
of it has not been read. Instead of the documents that have left a target it may
send how many there are (`News`), which is what existence filters are for.
Assumed of it: requests are served in order; a snapshot comes when all targets
are consistent; what a user may not read (`Refused`) never changes; once it has
spoken on a stream it serves that stream's requests. Nothing is assumed of a
stream that has not been heard from: it may open, which contacts no server yet
(`GrpcStream::Start`, `grpc_stream.cc:107`), or not.
Left out: documents with pending writes in a view, orders and limits, the
server's target resets, reads of the cache alone, snapshot listeners that stay,
garbage collection, bundles. A change of user is a reconnection (`Reconnect`).

`recent` and `misled` are history variables of the properties: the results a
query had since the client listens to it, and the queries hit by the finding
below.

## 3. Runs and what they show

| Run | Checks | Result |
|---|---|---|
| `hud` | `DismissalIsKept`, `NoStaleDismissal`; `AskedHudLeaves` (fairness) | hold |
| `registration` | `HudsWillLeave`, `ProfilesAreWhole`; `PressIsAnswered` (fairness) | hold |
| `registration_success` | `SuccessMeansRegistered` | violated |
| `deck` | `RefreshNeverRepeats`; `HudsLeave` (fairness) | hold |
| `deck_repeats` | `NoRepeatedCards` | violated |
| `settings` | `CellsMatchUser`, `RangesAreOrdered`, `PhotosAreStored`, `OneUploadAtATime`, `LoadedSaveWrites` | hold |
| `settings_blind` | `SavesCurrentData` | violated |
| `profile_card` | `PhotoBelongsToBar`, `CrashOnlyWithoutPhotos` | hold |
| `insta_signup` | `SessionIsOwn`, `EmptyFormNeverRegisters`, `PhotoStaysPut`; `KeepsContract` (refinement), `HudsLeave` (fairness) | hold |
| `writes` | `TypeOK`, `NoAssertFails`, `PipelineIsOldest`, `AnswersCorrelate`, `CallbacksMatchQueue`, `OwnSession`, `QueueIsTheRest`, `LastWriteWins`; `KeepsContract` (refinement), `EveryWriteSettles` (fairness) | hold |
| `reads` | `TypeOK`, `NoAssertFails`, `AnsweredOnce`, `TargetsMatch`, `AcksAreCounted`, `ViewIsServers`, `TokensMatchKeys`, `LimboIsLookedUp`; `EveryReadIsAnswered` (fairness) | hold |
| `reads_filter` | `MismatchIsRepaired` | violated |

`LoadedSaveWrites` says what a save pressed after loading writes: the cells, but for
three things. A name or job the profile never had, and that nobody typed, is shown
empty and written as "No Name Surname" or "NULL"; an emptied one is written as the
empty text it is. A profile without search ages, or with the -1 to -1 of an earlier
save, is shown as 18 to 18 and written as -1 to -1 until a slider is moved. An age
typed into a cell that was built without one, which has no handler, is written as
-1.

`EveryReadIsAnswered` assumes no server. A read waits for a synced view while the
client may be online (`query_listener.cc:144`); the ten-second timer, a failure of
the stream or the disabled network ends the wait, and without the timer's fairness
the property does not hold. It has one exception, which is a gap in the code.
`StopListening` of the last target, while the stream is still starting, goes back
to Unknown and cancels the timer (`remote_store.cc:183`); the next `Listen` finds
the stream started and starts none (`Abandoned`, `TimerLost`). Where streams hang
instead of failing, a first read is answered from the cache after ten seconds, and
the second one waits for as long as the stream hangs, against "rather than
waiting indefinitely" (`online_state_tracker.cc:47`). Without the last line of
`EveryReadIsAnswered` TLC finds this in eleven states.

`PhotoBelongsToBar` rests on SDWebImage's marking of cancelled operations
(`Cancel`): without it a load that is already on its way would put its photo
under another bar. `CrashOnlyWithoutPhotos` is as much as can be said: a user
may well have no photo (the save of the settings before loading writes three
empty URLs), and tapping that card ends the app.

The modules state more than the runs check: `TypeOK` in each, and in
`Registration`, `ProfileCard`, `InstaSignUp`, `HomeDeck` (`QueriesBehindHud`,
`OneRefreshAtATime`) and `SettingsScreen` invariants that are proved (section 4)
for every instance and therefore not run. `TypeOK` of `HudLifecycle` holds in its
run, too.

`RegisteredOnSuccess` of InstaClone is the property TinderClone's sign-up
violates (`registration_success`); it is proved. `HudsLeave` excepts the failed upload, after
which the HUD does stay for good (`ViewController.swift:111`).

`AnswersCorrelate` is the heart of the write path: answers carry no name, and
the client takes each for the first batch of its pipeline, which refusals,
reconnections and changes of user keep rearranging. `NoAssertFails` covers the
HARD_ASSERTs of the two paths, each of which ends the app.
`ViewIsServers` says what "from the server" is worth to a screen: the result is
one the query had while it was listened to, not a mixture of old and new.
`AcksAreCounted` excepts refused targets, whose refusal the code never counts
(see the hazards), `ViewIsServers` and `TokensMatchKeys` except the queries of
the finding.

### Findings

* **An attempt may succeed without a profile** (`registration_success`). Press
  Register, and press it again with another address while the first attempt
  is uploading. The second account becomes the current user; the first attempt
  then saves its profile under the second one's uid
  (`RegisterViewModel.swift:81`) and prints "Kayıt başarılı". The account it
  registered has no profile. `ProfilesAreWhole` still holds: the profiles that
  exist are not mixed.
* **Cards repeat** (`deck_repeats`). `getByCurrentUser` empties the deck so that
  "the data does not repeat" (comment at `MainViewController.swift:52`), but its
  own cards come two answers later, and another query may have put them there by
  then. Refresh alone never repeats cards (`RefreshNeverRepeats`).
* **A save before loading writes defaults** (`settings_blind`). "Current data
  saves to Firebase" (`SettingsViewController.swift:84`), but until the
  profile has been loaded that is "No Name Surname", "NULL" and -1.

* **A mismatch outlives its listen** (`reads_filter`). The server's count tells
  the client that a document has left a query (existence filter). Before the
  snapshot comes, the screen's read ends and the query is dropped, and another
  read listens to it anew. The removals noted for the old listen are gone with
  its TargetState, but the target is still in `pending_target_resets_`: the first
  snapshot of the new listen clears its resume token and listens a third time,
  without removing anything. The document stays among the query's keys, against
  "Trigger removal for any documents currently mapped to this target"
  (`remote_event.cc:404`), the view calls itself in sync, and what the server says
  next is saved over those keys, so later listens resume from it.

### Bounds, and why they are enough

* `hud`: up to 20 delayed dismissals outstanding. A HUD reacts to them one at a
  time, so two would do; the rest costs nothing.
* `registration`: two attempts, two addresses, each with a name of its own
  (`OwnNames`), and one password; no symmetry, because liveness is checked. Two
  attempts are enough for one to overtake the other, to take its session, and for
  both to write one profile, one behind the other, with different names. The
  constraint cuts only what the user types, and no edit is fair, so it hides no
  unfair behaviour; which names go with which addresses decides nothing but what a
  profile holds. `registration_success` has the same two addresses.
* `deck`: the signed-in user and one other, two queries, one fetch
  outstanding, one save, ages {-1, 20} so that a range can hit and miss; the other
  user never saves without an age (`OthersTypeAges`). A third query repeats what the second does. A query is used again when its HUD and
  cards are gone, so the number of refreshes is not bounded. `deck_repeats` takes
  one age and two fetches.
* `settings`: a name, one text besides the empty one and the placeholder, sliders
  from 18 to 19, one pending save, one photo button and two uploads, one of which
  can come while the other is under way; symmetry over uploads (no liveness). The
  job is a field like the name; a second photo button is loaded after the first
  and else like it. One age can be typed, but only as long as no photo has been
  picked (`AgesApart`): no handler brings ages and photos together.
  `settings_blind` has both fields and an age, and no photos. A pending save
  outlives its screen, and both runs reopen. An upload's name is used again only
  after reopening and if Storage does not hold it.
* `writes`: two users, three writes, the third of them refused, a pipeline of
  two, three disturbances (faults, restarts, changes of user or network). Three
  writes put one outside the pipeline and a refused one before, between or behind
  the others; three disturbances let one write be stored, lost, and hit twice
  more. The real pipeline has ten places.
* `reads`: two profiles, both in the cache as part of the deck while the server
  has only the first, so the second is in limbo; the first is not readable on its
  own; two reads, one lookup at a time (really a hundred), one change by
  another user, one disturbance. Two reads are what joining, dropping and
  listening anew take. `reads_filter` asks for the deck alone and refuses nothing.
* `profile_card`: three photos, the most a profile has, and three loads: one
  answering, one cancelled on its way and the current one.
* `insta_signup`: two presses, two addresses, one name and one password (empty
  texts tell names apart), no photo besides the button's own and none: these two
  already tell the photo at the press from a later one. No symmetry, as liveness
  is checked.

Deadlock is checked except in the Firestore runs, where the app may have made all
its calls and had them answered, in the settings runs, where after Logout the
registration screen covers everything and the settings screen really has
stopped, and in `profile_card`, where a crash ends the app.

### Fairness

Liveness is checked under `FairSpec` of each module. Weak fairness is given to
what the platform guarantees: animations end (`HudAnimated`, `Animated`),
dispatched blocks run (`Timer`), and Auth's and Storage's requests answer or time
out. In `Registration` the answers of Auth and Storage to an attempt share one
condition, which is all that `PressIsAnswered` needs; in `HomeDeck` the answer to a
query shares one with the animations of its HUD. That `getDocuments` answers, from
the cache when offline, is what `EveryReadIsAnswered` shows but for the gap named
there: in it the "Fetching Profiles..." HUD covers the deck until the stream fails.
`setData` and `getDocument` of the own profile get no fairness in the screens'
modules: Firestore keeps an unsent write for as long as the app is offline. The user
gets none either.

In `FirestoreWrites` the worker queue runs its tasks, timers run out, tokens are
fetched (or fail, which is a disturbance), and a server that is listening answers.
Disturbances are bounded, so the network is quiet in the end; `EveryWriteSettles`
needs that and says so. In `FirestoreReads` less is assumed: the queues run, the
online timer runs out, answers are read, and a server that has spoken serves the
stream's requests (if it dies, gRPC's keepalive, `grpc_connection.cc:307`, ends the
stream, which here is one of the bounded disturbances). No token need be fetched,
no stream open, no backoff end. Some of these conditions are written out as
"infinitely often disabled or infinitely often taken" instead of with WF, which is
the same and saves TLC from finding the successors of a whole handler only to see
whether there is one.

## 4. Proofs

Every safety property the passing runs check of `HudLifecycle`, `Registration`,
`ProfileCard`, `InstaSignUp`, `HomeDeck`, `SettingsScreen` and `FirestoreWrites`
is proved, for all values of the constants, and so are the two refinements. Of
`FirestoreReads` six of the eight are.

`RegistrationProofs` proves those of `Registration`, for any number of attempts
and any sets of texts, from the assumptions of `Registration`
(`TextsAssumption`, `NoneAssumption`: the "no value" constants are not values).
Only the second is used: a document differs from no document, an address from
no user.

### The HUD

The two properties of `HudLifecycle` are inductive together (`LifeInv` in
`ProgressHUDProofs`, for a HUD `anyHud` and any number of delayed dismissals):
that a dismissal remembered belongs to the fade under way (`NoStaleDismissal`) is
what lets `DismissalIsKept` go through the end of a fade. Theorems
`HudKeepsDismissals`, `HudForgetsDismissals`; the bound on the timers is not used.

### The sign-up screen of TinderClone

1. *Types.* `TypeOK` is not inductive: `SignInAsNew` sets `session` to the
   address of an entry, which is an address, and not a text never typed, only
   because the server made an account of it. `TypeInv` adds `AccountsExist`.
   Theorem `TypeCorrect`.
2. *HUDs and button.* `HudsWillLeave` and `ButtonMatchesForm` are inductive
   relative to the types; `WillLeaveKept` says what each method of a HUD keeps.
   Theorems `HudsAlwaysWillLeave`, `ButtonAlwaysMatches`.
3. *The chain of closures.* The uid of a save is the session of that moment. What
   must be known of it is that every session began with an attempt's own
   sign-in (`SessionOwned`), that therefore every write and every document lies
   under the uid of such an attempt (`WritesOwned`, `DocsOwned`), that photos
   are stored before they are referred to (`PhotosFirst`), that an attempt only
   starts with a filled form (`EntriesValid`, from `ButtonMatchesForm`), and
   that two attempts past createUser have two addresses (`Unique`).
   `ChainInv` is their conjunction; there is a lemma per action that disturbs
   it (`ChainPress`, `ChainCreateAccount`, `ChainSignIn`, `ChainUpload`,
   `ChainURL`, `ChainStored`), one for all steps in which an attempt merely moves
   on (`ChainMoves`) and one for steps that touch none of it
   (`ChainUntouched`). Theorems `SavesAlwaysAddressed`, `ProfilesAlwaysWhole`,
   `SuccessAlwaysLeavesAProfile` follow from it, and the
   action property `ProfilesFollowSessions`: if the account signing in already
   had a document or a pending write, an attempt with its address would have
   signed in before, against `Unique`.

### The main screen

`HomeDeckProofs` proves the invariants of `HomeDeck` for any users, ages and
queries. `RefreshNeverRepeats` alone is not inductive: cards of one query say
nothing of another still running. `OneLiveRefresh` says that at most one query
of a Refresh has cards in the deck or is going to lay some. A press keeps it
because the HUD of a running query covers the button (`QueriesBehindHud`), so
that a press finds none running, and empties the deck; a query of
`getByCurrentUser`, which may start over a running one, is no Refresh. `Started`
says what `StartQuery` does: the id it takes belongs to no running query, though
ids are used again. `RefreshInFront` is needed for `OneRefreshAtATime`. Theorems
`DeckTypeCorrect`, `QueriesAlwaysBehindHud`, `RefreshesOneAtATime`,
`RefreshesNeverRepeat`; assumed are that Me is a user, and that one fetch may be
outstanding.

### The settings screen

`SettingsScreenProofs` proves the invariants of `SettingsScreen` for any fields,
ages, photo slots and uploads (`SettingsInv`).

1. *Types and ranges.* `TypeStep` shows of each step that makes a profile, from
   the document, the cells or the sliders, that it makes one with a range in
   order or none; `RangesAreOrdered` follows from the types (`RangesFollow`).
2. *Cells.* `CellsMatchUser` is inductive given the types: an edit goes to both
   copies or finds no handler, `ClampIsOnSlider` says a slider shows an age as
   it is, `CellsForMatch` that a cell built anew shows `currentUser`.
3. *Photos.* `PhotosAreStored` needs `AskingIsStored`: a URL is asked for only
   after putData has answered. Each copy of the profile is looked at by itself
   (`PhotosAreHeld`): an answer moves the oldest write into the document
   (`OldestSave`), a new screen keeps the writes of the old one (`LeftSaves`).
4. *Uploads.* `OneUploadAtATime` needs `PickerHasTheScreen`: with the picker in
   front nothing is uploading, because the picker opens under no HUD.
5. *Saves.* Only Save Data adds to the calls (`OnlySaveDataSaves`), and what it
   writes is `currentUser` (`SaveEffect`), which is what the cells show but for the
   exceptions of section 3. That a cell without a handler means a profile without an
   age (`NoHandlerNoAge`) is inductive (`HandlerStep`). Theorem
   `LoadedSavesWriteOrDefault`, an action property.

The assumptions are that the sliders have two ends in order, and that "no value",
the empty text and the slots are not typed texts, ages or uploads
(`ValuesAssumption`). The placeholder may be typed: nothing here depends on it.

### The card

`ProfileCardProofs` needs no more than that the index is in the list and one bar
is lit while there are photos, that the load the image view knows is the only
one under way that is not cancelled, and that this one fetches the photo of the
index. Theorems `CardTypeCorrect`, `PhotoAlwaysBelongsToBar`,
`CrashesOnlyWithoutPhotos`, `TurningBackAlwaysReturns`; the assumption used is
that "no load" is not a load.

### The sign-up screen of InstaClone, and its contract

1. *The HUD keeps attempts apart.* `Held` (in `ProgressHUDProofs`) says of a HUD
   that it covers the screen and nothing is under way to take it away;
   `HeldKept` that fades and animations keep it so. `BusyCovered`: the HUD of an
   attempt waiting for Auth or Storage is held. Hence nobody can press Register
   or open the picker then (`PickerAlone`), so attempts are busy one at a time.
   Theorems `AttemptsOneAtATime`, `SessionAlwaysOwn`, `PhotoAlwaysStaysPut`.
2. *Empty forms.* The button is enabled over a valid form or over one without an
   address (`ButtonInv`), and an attempt without an address is refused. Theorem
   `EmptyFormsNeverRegister`.
3. *Refinement.* `ContractStep` maps each step to one of the contract or to a
   stutter, a lemma per action; it needs that an attempt past createUser has an
   address with an account (`AccountsExist`) and that no profile equals "no
   document" (`NothingAssumption`). Theorem `ImplementsContract`.
4. *The promise.* `ContractHolds` proves it from the steps of the contract alone,
   under the mapping: no two requests that got an account got the same one, so
   nobody writes over a saved profile. `AlwaysRegisteredOnSuccess` joins it with
   the refinement.

`Registration` has no such theorem: the same mapping fails at `SaveStored`,
which writes under the session of the moment (the first finding).

### What setData promises

The promises of `SetDataContract` are proved from its steps alone (the last part of
`FirestoreWritesProofs`), for any number of users and writes and any refused ones,
assuming only that `Nothing` is no write (part of `WritesAssumption`). `LastWriteWins` speaks
of the moment when everything is settled; to get there `NotBehind` says at every
moment that the document is at or past each settled accepted write. That keeps
through `Settle` because a write is only settled when the document has reached
it, and through `Store` because settled writes are never stored again. That an
answered write was stored (`AnswersAreTrue`) needs more when the document has
already gone on to a later one: `StoredInOrder` says a stored write vouches for
the accepted ones before it, and `MadeOnce` that a write has one place in one
queue, so "the place of the document" means something. Theorems
`LastWriteAlwaysWins`, `AnswersAlwaysTrue`. That the write path keeps the
contract is the next section.

### The write path of Firestore

`FirestoreWritesProofs` proves the safety of `FirestoreWrites` for any users,
writes and refusals, any length of the pipeline and any number of disturbances,
and that it implements `SetDataContract`. From the assumptions it uses that there
are finitely many writes (the client's books are finite), that no write is one of
the values that stand for none, for a handshake or for an ended stream, and that
the pipeline has a place.

None of the invariants the run checks is inductive. That the next answer is for
the first batch of the pipeline (`AnswersCorrelate`) holds because of where the
answers come from: requests still on their way, a server that may lag behind or
have ended the stream, and a queue which writes, refusals, restarts and changes of
user rearrange. `WInv` therefore describes the whole line from the calls to the
answers, in five parts:

* `ClientOK`: the pipeline is the oldest batches of the current user's queue; the
  stream belongs to that user, its timers and token requests to its state; the
  client does not connect for nothing and keeps nothing while the network is off.
* `IdsOK`: ids stay below the number of writes made, and those of the current user
  below the next one. It makes the reuse of ids after a launch or a change of user
  harmless.
* `CallbacksOK`: a callback waits for the batch it was filed with, and a batch has
  one as long as the app has not been told.
* `LogOK`: a user's queue, in the order of its ids, is the end of that user's
  calls; the calls before it are stored or refused; no call is in two places.
* `ServerOK`: the requests not yet seen are the session's calls behind some p-th,
  up to which all is over; the answers not yet read belong to the first batches of
  the pipeline, are true, and the document is at the last of them or further; a
  stream the server ended with a refusal stands at the first batch not answered.

A batch's number is its `Place` among the ids of its queue, and the lemmas about
places (a new batch is last, taking away the oldest moves the others up by one)
are the arithmetic under all of it. Then the proof goes along the calls in the
code: what the handlers of the stream do to its record, what `FillWritePipeline`,
`OnWriteStreamClose` and `HandleSuccessfulWrite` do to the client (`FillEffect`,
`CloseEffect`, `ResultEffect`, `WriteEffect`), what filing a write and settling one
do to the log (`WrittenLog`, `SettledLog`), and one lemma per action. Theorems
`TypeCorrect`, `NoAssertEverFails`, `PipelineAlwaysOldest`,
`AnswersAlwaysCorrelate`, `CallbacksAlwaysMatch`, `AlwaysOwnSession`,
`QueueAlwaysTheRest`.

*Refinement.* Most actions leave what the contract sees, queue, answers, calls and
documents (`Unnoticed`), and stutter. `ContractStep` maps the others: a call issues
a write, the server's work stores one again or for the first time, a result or a
refusal settles the oldest and tells the app, a death in the middle of a result
tells it without settling. Theorem `ImplementsContract`; `LastWriteAlwaysWins` is
then the theorem of the same name about the contract, instantiated with the
mapping.

### The read path of Firestore

`FirestoreReadsProofs` proves six invariants of `FirestoreReads` for any
documents, refusals, limits on the lookups, and numbers of reads, edits and
disturbances. All the assumptions of `FirestoreReads` but `RefusedAssumption` are
used; those with content are that there are finitely many documents
(`DocsAssumption`), that the targets of queries and of lookups have different ids
(`TargetsAssumption`), and that there is a slot for lookups at all
(`LimboAssumption`).

None of them is inductive, and they lean on each other in a circle: whether an
assertion fails depends on what the aggregator believes, that on whether it
counts acknowledgements right, that on what RemoteStore listens to, and that on
what the SyncEngine and the EventManager made of the events, errors included.
`IInv` has six parts:

* `Ready`: types; RemoteStore listens to the targets of views and lookups, no
  document waits for a lookup it has, no more lookups run than there are slots
  (`Fits`); the stream's state, its token requests, its timers, the online state
  and the network agree, and a stream that is not open holds no records and no
  requests (`Linked`); the stream runs if there is something to listen to
  (`Awake`).
* `Matched`: there is a view of each query of the EventManager, and the SyncEngine
  keeps track of the views' limbo documents (`Tracks`): its references are the limbo
  documents of each view with the view's query, what is referred to is looked up or
  waits unless the server refused it, nothing else is, and none waits while a slot
  is free.
* `Asking`: a read is at one place only on its way from the call to its answer. A
  read still to be added has heard nothing; one that has been answered is muted or
  will hear nothing more; an error is the last thing it hears.
* `Counted`: for each target the server serves, the aggregator waits for as many
  acknowledgements as there are requests and acknowledgements in flight.
* `Heeds`: of a target that is listened to and waits for nothing, what the
  aggregator has recorded as modified or removed is a document the view has, and
  it will be raised with the next snapshot. For the others the next
  acknowledgement clears it. This is why the assertions of View and SyncEngine
  hold when a query is dropped and listened to anew while answers to the old one
  are on their way.
* `Serving`: the server speaks only of what it serves, and only over an open
  stream.

A task of the worker queue runs through many handlers, so each handler's effect
is a relation between the client before and after it. `Quiet` bounds what
listeners can hear of it, `Talk` says that each new request is waited for and no
record is touched, `Steady` that records stay about documents the target has or
are about to be cleared; `Moved` and `Going` join the three. All are transitive,
and there is a lemma per handler, from the innermost outwards (`SendRequestEffect`,
`RemoteListenEffect`, `PumpEffect`, ..., `ApplyRemoteEventEffect`,
`RaiseWatchSnapshotEffect`, `OnWatchStreamChangeEffect`, `CloseEffect`). The loops
of the code are folds (`ForEach`) over sets of any size. The provers take no
induction over an operator; instead a loop gets a lemma that says that any set of
clients closed under its step holds its result (`PumpStays`, `TrackedStays`,
`UpdatedStays`, ...), proved from the equation of the fold with `RunExists`,
`RunWithin` and `Induct`, an induction over a set of numbers. In the same way the server's
side is reduced to what may be said (`Said`) and what acknowledges nothing
(`Plain`).

`Tracks` is the one part for which it is not enough that a loop keeps something:
the references after a view has changed are exactly those of its new limbo
documents (`Retracked`), and in the middle of a loop lookups and references
disagree by what the loop has still to do. So the lemmas of those loops
(`DereferencedStays`, `TrackedStays`, `FreedStays`) carry a set of clients for each
set of documents done so far. `LimboIsLookedUp` was corrected on the way: it once
said that every limbo document is looked up, but a view that is out of sync when
its lookup is refused keeps the document as limbo (`View::UpdateLimboDocuments`),
and `SyncEngine` does not look it up again until it is limbo anew.

Theorems `ReadsTyped`, `ReadsSound`, `ReadsAnsweredOnce`,
`ReadsTargetsMatch`, `ReadsAcksCounted`, `ReadsLimboLookedUp`.

### What is only model-checked

All liveness (`PressIsAnswered`, `AskedHudLeaves`, `HudsLeave`,
`EveryWriteSettles`, `EveryReadIsAnswered`) is out of the prover's reach. Not
proved of `FirestoreReads` are `ViewIsServers` and `TokensMatchKeys`. They speak of
the documents themselves: they need, on top of `IInv`, that cache, view, token and
the messages on their way add up to what the server told last, message by message,
but for the queries the filter mismatch has `misled`.

## 5. Not modelled, and the plan

Left out for good: layout, colours, keyboard shifting, the texts of HUDs,
`tryLogin` and `setUserProfilesFireStore` (never called), the vendored pods but
for the parts named above. Of Firestore: gRPC (`grpc_stream.cc`), leveldb and its
serializers, garbage collection, transactions, bundles and indexes, which the
apps do not use or which are storage below one step of the models. The selectors
wired up in property initialisers (`addTarget(self, ...)` in stored closures) are
taken to reach the screen, as the code means them to.

Next, in this order:

1. Proofs: what the documents and tokens are worth (`TokensMatchKeys`,
   `ViewIsServers`).
2. `TinderApp`: registration, deck and settings composed over one session and one
   document store, with launch, relaunch and termination between two steps, with
   `SetDataContract` for the writes.
3. `InstaProfile`: the read of the profile InstaClone's sign-up leaves.
4. In `FirestoreReads`, the server's target resets and the views with pending
   writes.
5. `Membership`: the view model, once a screen uses it.

## 6. Running it

    tlc -config MCRegistration.cfg MCRegistration
    tlapm RegistrationProofs.tla

The longest runs (`MCRegistration`, `MCHomeDeck`, `MCFirestoreReads`,
`MCInstaSignUp`, `MCSettingsScreen`) take about two minutes each, most others less
than one; each proof module takes less than two, but `FirestoreWritesProofs` about
seven and `FirestoreReadsProofs` about thirteen.
