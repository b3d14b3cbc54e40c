------------------------------ MODULE HomeDeck ------------------------------
(***************************************************************************)
(* The main screen of TinderClone, MainViewController: it reads the        *)
(* profile of the signed-in user (getByCurrentUser), asks Firestore for    *)
(* the users whose age lies in that profile's search range                 *)
(* (getByUserInfoFromFirestore), and lays one card per user found into     *)
(* profileMainView.  Refresh repeats the query; the settings screen calls  *)
(* back with settingsSaved, which repeats both.                            *)
(*                                                                         *)
(* A card is <<q, u>>: user u, found by query q.  A swipe only moves a     *)
(* card out of sight (endPanAnimation), so nothing but the two loops over  *)
(* profileMainView.subviews takes cards away.                              *)
(***************************************************************************)
EXTENDS ProgressHUD, Integers, Sequences

CONSTANTS
  Users, Me,     \* profiles in Firestore, the signed-in user's among them
  Ages,          \* ages and ends of search ranges; -1 is Save Data's default
  Queries,       \* bound: deck queries whose HUD or cards are still there
  MaxFetches,    \* bound: getDocument calls outstanding
  MaxSaves,      \* bound: Save Data calls outstanding
  Nil

ASSUME MeAssumption == Me \in Users
ASSUME AgesAssumption == Ages \subseteq Int /\ Nil \notin Ages
ASSUME BoundsAssumption == MaxFetches \in Nat \ {0} /\ MaxSaves \in Nat

VARIABLES
  age,        \* Firestore: the Age of everybody else's profile
  own,        \* Firestore: Age, MinimumAge and MaximumAge of Me's profile
  front,      \* the screen in front
  signedIn,   \* Auth.auth().currentUser # nil
  saves,      \* this client's setData calls not answered yet, oldest first
  fetching,   \* getByCurrentUser calls whose answer is outstanding
  user,       \* currentUser: the range read last, Nil while there is no user
  query,      \* the deck queries
  hud,        \* the "Fetching Profiles..." HUD of each query
  cards       \* profileMainView.subviews

vars == <<age, own, front, signedIn, saves, fetching, user, query, hud, cards>>
remoteVars == <<age, own>>
deckVars   == <<query, hud, cards>>

\* A user without search ages has the range NoRange: both fields are written
\* together or not at all.
NoRange == [min |-> Nil, max |-> Nil]
Ranges == {r \in [min : Ages, max : Ages] : r.min <= r.max}

Others == Users \ {Me}

\* A profile holds the ages Save Data wrote, or none, as registration left it.
Registered == [age |-> Nil, range |-> NoRange]
OwnData == [age : Ages, range : Ranges] \cup {Registered}

\* A setData call, and whether the screen that made it is still the one shown.
Write == [data : OwnData, here : BOOLEAN]

QueryStates == {"free", "running", "answered"}
Origins == {"refresh", "user"}
NoQuery == [state |-> "free", origin |-> "user", range |-> NoRange]

TypeOK ==
  /\ age \in [Others -> Ages \cup {Nil}]
  /\ own \in OwnData
  /\ front \in {"deck", "settings", "register"}
  /\ signedIn \in BOOLEAN
  /\ saves \in Seq(Write) /\ Len(saves) <= MaxSaves
  /\ fetching \in 0..MaxFetches
  /\ user \in Ranges \cup {NoRange, Nil}
  /\ query \in [Queries -> [state : QueryStates, origin : Origins, range : Ranges \cup {NoRange}]]
  /\ hud \in [Queries -> HudType]
  /\ cards \subseteq Queries \X Users

-----------------------------------------------------------------------------
Touchable == front = "deck" /\ \A q \in Queries : ~BlocksTouches(hud[q])

\* A query id is used again once its HUD and its cards are gone.
Free(q, kept) ==
  query[q].state = "free" \/ (query[q].state = "answered" /\ hud[q].phase = "hidden"
                                /\ \A u \in Users : <<q, u>> \notin kept)

\* getByUserInfoFromFirestore for the range in r, up to the call of
\* getDocuments; it does nothing unless both ages are known.
StartQuery(r, origin, kept) ==
  IF r \in {Nil, NoRange}
  THEN UNCHANGED <<query, hud>>
  ELSE \E q \in Queries :
         /\ Free(q, kept)
         /\ query' = [query EXCEPT ![q] = [state |-> "running", origin |-> origin, range |-> r]]
         /\ hud' = [hud EXCEPT ![q] = Show(NewHud)]

\* getByCurrentUser up to the call of getDocument: the deck is emptied, and
\* without a signed-in user nothing is asked and nobody is called back.
GetByCurrentUser ==
  /\ cards' = {}
  /\ IF signedIn
     THEN fetching < MaxFetches /\ fetching' = fetching + 1
     ELSE UNCHANGED fetching

\* viewDidLoad has run, and viewDidAppear, which covers the deck with the
\* registration screen if nobody is signed in.
Init ==
  /\ age \in [Others -> Ages \cup {Nil}]
  /\ own \in OwnData
  /\ signedIn \in BOOLEAN
  /\ front = IF signedIn THEN "deck" ELSE "register"
  /\ saves = <<>>
  /\ fetching = IF signedIn THEN 1 ELSE 0
  /\ user = Nil
  /\ query = [q \in Queries |-> NoQuery]
  /\ hud = [q \in Queries |-> NewHud]
  /\ cards = {}

-----------------------------------------------------------------------------
(* The user.                                                               *)

PressRefreshKeepingCards ==
  /\ Touchable
  /\ StartQuery(user, "refresh", cards)
  /\ UNCHANGED <<remoteVars, front, signedIn, saves, fetching, user, cards>>

\* pressRefreshButton.
PressRefresh ==
  /\ Touchable
  /\ cards' = {}
  /\ StartQuery(user, "refresh", {})
  /\ UNCHANGED <<remoteVars, front, signedIn, saves, fetching, user>>

PressSettings ==
  /\ Touchable
  /\ front' = "settings"
  /\ UNCHANGED <<remoteVars, signedIn, saves, fetching, user, deckVars>>

\* Save Data: setData queues the write, which this client reads back at once;
\* the screen stays until the answer.
SaveData(a, r) ==
  /\ front = "settings" /\ Len(saves) < MaxSaves
  /\ saves' = Append(saves, [data |-> [age |-> a, range |-> r], here |-> TRUE])
  /\ UNCHANGED <<remoteVars, front, signedIn, fetching, user, deckVars>>

\* The settings screen goes, the calls it has made stay.
Left(s) == [i \in DOMAIN s |-> [s[i] EXCEPT !.here = FALSE]]

CloseSettings ==
  /\ front = "settings"
  /\ front' = "deck"
  /\ saves' = Left(saves)
  /\ UNCHANGED <<remoteVars, signedIn, fetching, user, deckVars>>

\* Logout signs out and closes the settings, whether signOut failed or not;
\* viewDidAppear then presents the registration screen, which is never closed, if
\* nobody is signed in.
Logout ==
  /\ front = "settings"
  /\ signedIn' \in {signedIn, FALSE}
  /\ front' = IF signedIn' THEN "deck" ELSE "register"
  /\ saves' = Left(saves)
  /\ UNCHANGED <<remoteVars, fetching, user, deckVars>>

-----------------------------------------------------------------------------
(* Answers.                                                                *)

\* setData answers with success: the settings screen that called it closes and
\* calls settingsSaved.
SettingsSaved ==
  /\ saves # <<>> /\ Head(saves).here
  /\ saves' = Left(Tail(saves))
  /\ front' = "deck"
  /\ own' = Head(saves).data
  /\ GetByCurrentUser
  /\ UNCHANGED <<age, signedIn, user, query, hud>>

\* The same when that settings screen is closed already, another one in front or
\* none: dismiss on a screen that is not presented may or may not run its
\* completion.
SettingsSavedLate ==
  /\ saves # <<>> /\ ~Head(saves).here
  /\ saves' = Tail(saves)
  /\ own' = Head(saves).data
  /\ \/ GetByCurrentUser
     \/ UNCHANGED <<cards, fetching>>
  /\ UNCHANGED <<age, front, signedIn, user, query, hud>>

\* The server rejects the write, and the client's view of it is gone.
SaveFailed ==
  /\ saves # <<>>
  /\ saves' = Tail(saves)
  /\ UNCHANGED <<remoteVars, front, signedIn, fetching, user, deckVars>>

\* What this client reads of Me's profile: its own last write, if one is still
\* unanswered, else what Firestore has.
OwnView == IF saves = <<>> THEN own ELSE saves[Len(saves)].data

\* getDocument answers with the profile as it reads now; the deck query
\* follows at once, without emptying the deck again.
UserAnswered ==
  /\ fetching > 0
  /\ fetching' = fetching - 1
  /\ user' = OwnView.range
  /\ StartQuery(OwnView.range, "user", cards)
  /\ UNCHANGED <<remoteVars, front, signedIn, saves, cards>>

\* An error, or "User Not Found".
UserFailed ==
  /\ fetching > 0
  /\ fetching' = fetching - 1
  /\ UNCHANGED <<remoteVars, front, signedIn, saves, user, deckVars>>

\* Users whose Age lies in the range; a profile without Age matches nothing.
Matches(r) ==
  LET InRange(a) == a # Nil /\ r.min <= a /\ a <= r.max
  IN  {u \in Others : InRange(age[u])} \cup {u \in {Me} : InRange(OwnView.age)}

\* getDocuments answers: one card per document, the user's own not excepted.
\* Offline the answer holds those the cache has.
QueryAnswered(q) ==
  /\ query[q].state = "running"
  /\ query' = [query EXCEPT ![q].state = "answered", ![q].range = NoRange]
  /\ hud' = [hud EXCEPT ![q] = Dismiss(@)]
  /\ \E found \in SUBSET Matches(query[q].range) : cards' = cards \cup ({q} \X found)
  /\ UNCHANGED <<remoteVars, front, signedIn, saves, fetching, user>>

QueryFailedHudKept(q) ==
  /\ query[q].state = "running"
  /\ query' = [query EXCEPT ![q].state = "answered", ![q].range = NoRange]
  /\ UNCHANGED <<remoteVars, front, signedIn, saves, fetching, user, hud, cards>>

\* getDocuments answers with an error.
QueryFailed(q) ==
  /\ query[q].state = "running"
  /\ query' = [query EXCEPT ![q].state = "answered", ![q].range = NoRange]
  /\ hud' = [hud EXCEPT ![q] = Dismiss(@)]
  /\ UNCHANGED <<remoteVars, front, signedIn, saves, fetching, user, cards>>

HudAnimated(q) ==
  /\ Transitioning(hud[q])
  /\ hud' = [hud EXCEPT ![q] = AnimationFinished(@)]
  /\ UNCHANGED <<remoteVars, front, signedIn, saves, fetching, user, query, cards>>

\* Somebody else saves another age.
OthersChange(u, a) ==
  /\ age' = [age EXCEPT ![u] = a]
  /\ UNCHANGED <<own, front, signedIn, saves, fetching, user, deckVars>>

-----------------------------------------------------------------------------
Next ==
  \/ PressRefresh \/ PressSettings \/ CloseSettings \/ Logout
  \/ \E a \in Ages, r \in Ranges : SaveData(a, r)
  \/ SettingsSaved \/ SettingsSavedLate \/ SaveFailed
  \/ UserAnswered \/ UserFailed
  \/ \E q \in Queries : QueryAnswered(q) \/ QueryFailed(q) \/ HudAnimated(q)
  \/ \E u \in Others, a \in Ages : OthersChange(u, a)

Spec == Init /\ [][Next]_vars

\* Of each query the animations end and getDocuments answers, from the cache if
\* need be.
Fairness ==
  \A q \in Queries : WF_vars(HudAnimated(q) \/ QueryAnswered(q) \/ QueryFailed(q))

FairSpec == Spec /\ Fairness

-----------------------------------------------------------------------------
Running == {q \in Queries : query[q].state = "running"}

\* While a query runs its HUD is up, not leaving: touches stay blocked until
\* the cards are there.
QueriesBehindHud == \A q \in Running : BlocksTouches(hud[q]) /\ ~hud[q].later

\* The HUD is the only thing that keeps Refresh from overtaking itself: its
\* queries run one at a time, with the deck in front.
OneRefreshAtATime ==
  \A q \in Running : query[q].origin = "refresh" =>
    front = "deck" /\ \A p \in Running : query[p].origin = "refresh" => p = q

\* Pressing Refresh again and again never lays out a user twice.
RefreshNeverRepeats ==
  \A u \in Users, p, q \in Queries :
    /\ <<p, u>> \in cards /\ query[p].origin = "refresh"
    /\ <<q, u>> \in cards /\ query[q].origin = "refresh"
    => p = q

\* Every "Fetching Profiles..." HUD leaves.
HudsLeave == \A q \in Queries : Visible(hud[q]) ~> ~Visible(hud[q])

\* What the comment in getByCurrentUser says: the deck is emptied first, so
\* the data does not repeat.
NoRepeatedCards ==
  \A u \in Users, p, q \in Queries : <<p, u>> \in cards /\ <<q, u>> \in cards => p = q
=============================================================================
