--------------------------- MODULE SettingsScreen ---------------------------
(***************************************************************************)
(* The settings screen of TinderClone, SettingsViewController: it loads    *)
(* the profile of the signed-in user into currentUser, shows it in a table *)
(* of cells, lets the user edit it and pick photos (each uploaded to       *)
(* Storage at once), and writes the whole profile document on Save Data.   *)
(*                                                                         *)
(* The cells and currentUser are two copies of the data: edits go to both, *)
(* but only while currentUser is there.  HUDs cover the table but not the  *)
(* navigation bar with Close, Logout and Save Data.  A HUD counts as       *)
(* covering the table from show to dismiss; HudLifecycle says that it then *)
(* leaves.                                                                 *)
(***************************************************************************)
EXTENDS Integers, Sequences

CONSTANTS
  Fields, Texts,     \* the text fields and what is typed into them
  NumSlots,          \* the photo buttons, in the order they load
  Uploads,           \* bound: photos picked while the screen is open
  MaxSaves,          \* bound: setData calls outstanding
  Ages,              \* what is typed into the age field
  MinAge, MaxAge,    \* the ends of the two sliders
  Nil, Empty, Placeholder   \* nil, "", and Save Data's default text

ASSUME SlotsAssumption == NumSlots \in Nat
ASSUME AgesAssumption == MinAge \in Nat /\ MaxAge \in Nat /\ MinAge <= MaxAge
                         /\ Ages \subseteq Int /\ Nil \notin Int
ASSUME ValuesAssumption == Nil # Empty /\ Nil \notin Texts /\ Empty \notin Texts
                           /\ Uploads \cap (1..NumSlots \cup {Nil, Empty}) = {}
                           /\ MaxSaves \in Nat

VARIABLES
  own,       \* Firestore: the user's profile document
  saves,     \* this client's setData calls not answered yet, oldest first
  stored,    \* Storage: the uploads it holds
  signedIn,  \* Auth.auth().currentUser # nil
  front,     \* what is in front: the table, the photo picker, another screen
  picking,   \* the slot the picker was opened for (buttonSelectImage)
  fetching,  \* getByUserInfo is not answered yet
  user,      \* currentUser, Nil until the profile is loaded
  cells,     \* what the cells show
  picture,   \* what the photo buttons show
  loads,     \* SDWebImage: the picture being loaded for each slot
  upload     \* the uploads this screen has started

vars == <<own, saves, stored, signedIn, front, picking, fetching, user, cells, picture,
          loads, upload>>
remoteVars == <<own, saves, stored, signedIn>>
photoVars  == <<picture, loads, upload>>
localVars  == <<front, picking, fetching, user, cells, photoVars>>

Slots == 1..NumSlots
TextValues == Texts \cup {Nil, Empty, Placeholder}
NoRange == [min |-> Nil, max |-> Nil]
BlindRange == [min |-> -1, max |-> -1]     \* written by a save without ages
SliderRanges == {r \in [min : MinAge..MaxAge, max : MinAge..MaxAge] : r.min <= r.max}

\* A URL is the upload it came from, or the slot whose picture was there before.
URLs == Uploads \cup Slots \cup {Nil, Empty}
Profile == [text  : [Fields -> TextValues], age : Ages \cup {Nil, -1},
            range : SliderRanges \cup {NoRange, BlindRange}, url : [Slots -> URLs]]

\* A pending write, and whether the screen that made it is still the one shown.
Write == [data : Profile, here : BOOLEAN]

NoUpload == [state |-> "unused", slot |-> Nil]

TypeOK ==
  /\ own \in Profile /\ saves \in Seq(Write) /\ Len(saves) <= MaxSaves
  /\ stored \subseteq Uploads
  /\ signedIn \in BOOLEAN
  /\ front \in {"table", "picker", "gone"}
  /\ picking \in Slots \cup {Nil}
  /\ fetching \in BOOLEAN
  /\ user \in Profile \cup {Nil}
  /\ cells \in [text : [Fields -> TextValues], age : Ages \cup {Nil, -1},
                ageHandled : BOOLEAN, min : MinAge..MaxAge, max : MinAge..MaxAge]
  /\ picture \in [Slots -> Uploads \cup Slots \cup {Nil}]
  /\ loads \in [Slots -> Uploads \cup Slots \cup {Nil}]
  /\ upload \in [Uploads -> [state : {"unused", "uploading", "asking", "failed", "done"},
                             slot : Slots \cup {Nil}]]

-----------------------------------------------------------------------------
(* Cells.                                                                  *)

Shown(text) == IF text = Nil THEN Empty ELSE text

\* A UISlider clamps what it is given; 18 stands in for a missing age.
Clamp(a) == CASE a = Nil -> MinAge
              [] a # Nil /\ a < MinAge -> MinAge
              [] a # Nil /\ a > MaxAge -> MaxAge
              [] OTHER -> a

\* cellForRowAt for the profile p, or for none.  The age field gets its
\* handler only if there is an age.
CellsFor(p) ==
  IF p = Nil
  THEN [text |-> [f \in Fields |-> Empty], age |-> Nil, ageHandled |-> FALSE,
        min |-> MinAge, max |-> MinAge]
  ELSE [text |-> [f \in Fields |-> Shown(p.text[f])], age |-> p.age,
        ageHandled |-> p.age # Nil,
        min |-> Clamp(p.range.min), max |-> Clamp(p.range.max)]

-----------------------------------------------------------------------------
\* The document registration writes, and one Save Data has completed.
Registered(t) == [text |-> [f \in Fields |-> IF f = "name" THEN t ELSE Nil],
                  age |-> Nil, range |-> NoRange,
                  url |-> [k \in Slots |-> IF k = 1 THEN 1 ELSE Nil]]
Completed(t, a, r) == [text |-> [f \in Fields |-> t], age |-> a, range |-> r,
                       url |-> [k \in Slots |-> k]]

\* The screen just opened: viewDidLoad has built the cells and asked for the
\* profile.
Opened ==
  /\ front' = "table" /\ picking' = Nil /\ fetching' = signedIn /\ user' = Nil
  /\ cells' = CellsFor(Nil)
  /\ picture' = [k \in Slots |-> Nil] /\ loads' = [k \in Slots |-> Nil]
  /\ upload' = [u \in Uploads |-> NoUpload]

Init ==
  /\ \/ \E t \in Texts : own = Registered(t)
     \/ \E t \in Texts, a \in Ages, r \in SliderRanges : own = Completed(t, a, r)
  /\ saves = <<>> /\ stored = {} /\ signedIn = TRUE
  /\ front = "table" /\ picking = Nil /\ fetching = TRUE /\ user = Nil
  /\ cells = CellsFor(Nil)
  /\ picture = [k \in Slots |-> Nil] /\ loads = [k \in Slots |-> Nil]
  /\ upload = [u \in Uploads |-> NoUpload]

-----------------------------------------------------------------------------
(* Loading.                                                                *)

\* What this client reads of the document: its own last unanswered write, or
\* what Firestore has.
OwnView == IF saves = <<>> THEN own ELSE saves[Len(saves)].data

HasPicture(p, k) == p.url[k] \notin {Nil, Empty}

\* loadProfilePictures: the first slot without a URL ends the chain.
ToLoad(p) ==
  [k \in Slots |-> IF \A j \in 1..k : HasPicture(p, j) THEN p.url[k] ELSE Nil]

\* getByUserInfo answers: the profile, the pictures to load, reloadData.
ProfileAnswered ==
  /\ fetching /\ fetching' = FALSE
  /\ user' = OwnView
  /\ cells' = CellsFor(OwnView)
  /\ loads' = ToLoad(OwnView)
  /\ UNCHANGED <<remoteVars, front, picking, picture, upload>>

ProfileFailed ==
  /\ fetching /\ fetching' = FALSE
  /\ UNCHANGED <<remoteVars, front, picking, user, cells, photoVars>>

\* A load ends, with a picture or without, and sets its button, whatever the
\* button shows by now.
PictureLoaded(k) ==
  /\ loads[k] # Nil
  /\ loads' = [loads EXCEPT ![k] = Nil]
  /\ \E shown \in {loads[k], Nil} : picture' = [picture EXCEPT ![k] = shown]
  /\ UNCHANGED <<remoteVars, front, picking, fetching, user, cells, upload>>

-----------------------------------------------------------------------------
(* Editing.                                                                *)

CoveredBySavesOnly == \E i \in 1..Len(saves) : saves[i].here

\* A HUD over the table: a save of this screen is unanswered, an upload is
\* under way, or one has failed in putData, whose HUD nobody dismisses.
Covered ==
  \/ \E i \in 1..Len(saves) : saves[i].here
  \/ \E u \in Uploads : upload[u].state \in {"uploading", "asking", "failed"}

Touchable == front = "table" /\ ~Covered

\* catchTheNameTextFieldChange, catchTheJobTextFieldChange.  The keyboard of a
\* field being edited stays when a HUD comes up.
EditText(f, t) ==
  /\ front = "table"
  /\ cells' = [cells EXCEPT !.text[f] = t]
  /\ user' = IF user = Nil THEN Nil ELSE [user EXCEPT !.text[f] = t]
  /\ UNCHANGED <<remoteVars, front, picking, fetching, photoVars>>

\* catchTheAgeTextFieldChange, if the cell has it; Nil is any text Int rejects.
EditAge(a) ==
  /\ front = "table"
  /\ cells' = [cells EXCEPT !.age = a]
  /\ user' = IF user # Nil /\ cells.ageHandled THEN [user EXCEPT !.age = a] ELSE user
  /\ UNCHANGED <<remoteVars, front, picking, fetching, photoVars>>

SetMinMaxUnordered(min, max) ==
  /\ cells' = [cells EXCEPT !.min = min, !.max = max]
  /\ user' = IF user = Nil THEN Nil ELSE [user EXCEPT !.range = [min |-> min, max |-> max]]

SetMinMaxSliderLeft(min, max) ==
  /\ cells' = [cells EXCEPT !.min = min, !.max = max]
  /\ user' = IF user = Nil THEN Nil
             ELSE [user EXCEPT !.range = [min |-> min, max |-> IF min > max THEN min ELSE max]]

\* setMinMaxSlider, after one of the sliders has been moved.
SetMinMax(min, max) ==
  LET upper == IF min > max THEN min ELSE max
  IN  /\ cells' = [cells EXCEPT !.min = min, !.max = upper]
      /\ user' = IF user = Nil THEN Nil
                 ELSE [user EXCEPT !.range = [min |-> min, max |-> upper]]

MoveSlider(a) ==
  /\ Touchable
  /\ SetMinMax(a, cells.max) \/ SetMinMax(cells.min, a)
  /\ UNCHANGED <<remoteVars, front, picking, fetching, photoVars>>

\* Scrolling builds the cells that come into sight anew, from currentUser: a
\* text field, the age field, or the sliders.
Scroll ==
  /\ Touchable
  /\ LET new == CellsFor(user)
     IN  \/ \E f \in Fields : cells' = [cells EXCEPT !.text[f] = new.text[f]]
         \/ cells' = [cells EXCEPT !.age = new.age, !.ageHandled = new.ageHandled]
         \/ cells' = [cells EXCEPT !.min = new.min, !.max = new.max]
  /\ UNCHANGED <<remoteVars, front, picking, fetching, user, photoVars>>

-----------------------------------------------------------------------------
(* Photos.                                                                 *)

OpenPicker(k) ==
  /\ Touchable
  /\ front' = "picker" /\ picking' = k
  /\ UNCHANGED <<remoteVars, fetching, user, cells, photoVars>>

CancelPicker ==
  /\ front = "picker"
  /\ front' = "table" /\ picking' = Nil
  /\ UNCHANGED <<remoteVars, fetching, user, cells, photoVars>>

\* didFinishPickingMediaWithInfo: the photo is shown at once and its upload
\* starts; without image data there is neither.
PickPhoto ==
  /\ front = "picker"
  /\ front' = "table" /\ picking' = Nil
  /\ \/ \E u \in Uploads :
          /\ upload[u].state = "unused" /\ u \notin stored
          /\ picture' = [picture EXCEPT ![picking] = u]
          /\ upload' = [upload EXCEPT ![u] = [state |-> "uploading", slot |-> picking]]
     \/ picture' = [picture EXCEPT ![picking] = Nil] /\ UNCHANGED upload
  /\ UNCHANGED <<remoteVars, fetching, user, cells, loads>>

UploadState(u, s) == upload' = [upload EXCEPT ![u].state = s]

UploadAnswered(u) ==
  /\ upload[u].state = "uploading"
  /\ UploadState(u, "asking")
  /\ stored' = stored \cup {u}
  /\ UNCHANGED <<own, saves, signedIn, front, picking, fetching, user, cells, picture, loads>>

\* putData answers with an error: the HUD is not dismissed.
UploadFailed(u) ==
  /\ upload[u].state = "uploading"
  /\ UploadState(u, "failed")
  /\ UNCHANGED <<remoteVars, front, picking, fetching, user, cells, picture, loads>>

URLAnsweredEarly(u) ==
  /\ upload[u].state \in {"uploading", "asking"}
  /\ UploadState(u, "done")
  /\ user' \in {user, IF user = Nil THEN Nil ELSE [user EXCEPT !.url[upload[u].slot] = u]}
  /\ UNCHANGED <<remoteVars, front, picking, fetching, cells, picture, loads>>

\* downloadURL answers, with the URL or an error.
URLAnswered(u) ==
  /\ upload[u].state = "asking"
  /\ UploadState(u, "done")
  /\ user' \in {user, IF user = Nil THEN Nil ELSE [user EXCEPT !.url[upload[u].slot] = u]}
  /\ UNCHANGED <<remoteVars, front, picking, fetching, cells, picture, loads>>

-----------------------------------------------------------------------------
(* Saving and leaving.                                                     *)

\* The document saveInfoButtonPressed makes of currentUser.
Default(v, d) == IF v = Nil THEN d ELSE v
SavedDataRangeSwapped ==
  IF user = Nil
  THEN [text |-> [f \in Fields |-> Placeholder], age |-> -1, range |-> BlindRange,
        url |-> [k \in Slots |-> Empty]]
  ELSE [user EXCEPT !.age = Default(@, -1),
          !.text = [f \in Fields |-> Default(@[f], Placeholder)],
          !.range = [min |-> Default(user.range.max, -1), max |-> Default(user.range.min, -1)],
          !.url = [k \in Slots |-> Default(@[k], Empty)]]

SavedData ==
  IF user = Nil
  THEN [text |-> [f \in Fields |-> Placeholder], age |-> -1, range |-> BlindRange,
        url |-> [k \in Slots |-> Empty]]
  ELSE [text  |-> [f \in Fields |-> Default(user.text[f], Placeholder)],
        age   |-> Default(user.age, -1),
        range |-> [min |-> Default(user.range.min, -1), max |-> Default(user.range.max, -1)],
        url   |-> [k \in Slots |-> Default(user.url[k], Empty)]]

\* saveInfoButtonPressed, in the navigation bar, out of the HUDs' reach.
\* Without a session it would stop with its HUD up, but while the screen is open
\* there is one.
SaveData ==
  /\ front = "table" /\ signedIn
  /\ Len(saves) < MaxSaves
  /\ saves' = Append(saves, [data |-> SavedData, here |-> TRUE])
  /\ UNCHANGED <<own, stored, signedIn, localVars>>

\* setData answers: the screen that made the call closes (and the main screen
\* gets settingsSaved, see HomeDeck).
SaveAnswered ==
  /\ saves # <<>> /\ signedIn
  /\ own' = Head(saves).data
  /\ saves' = Tail(saves)
  /\ front' = IF Head(saves).here THEN "gone" ELSE front
  /\ UNCHANGED <<stored, signedIn, picking, fetching, user, cells, photoVars>>

SaveFailed ==
  /\ saves # <<>> /\ signedIn
  /\ saves' = Tail(saves)
  /\ UNCHANGED <<own, stored, signedIn, localVars>>

Close ==
  /\ front = "table"
  /\ front' = "gone"
  /\ UNCHANGED <<remoteVars, picking, fetching, user, cells, photoVars>>

\* logoutButtonPressed drops the error of signOut and closes all the same.
Logout ==
  /\ front = "table"
  /\ signedIn' \in {signedIn, FALSE}
  /\ front' = "gone"
  /\ UNCHANGED <<own, saves, stored, picking, fetching, user, cells, photoVars>>

\* The main screen presents a new settings screen; answers still to come for
\* the old one do not reach it.
Reopen ==
  /\ front = "gone" /\ signedIn
  /\ Opened
  /\ saves' = [i \in DOMAIN saves |-> [saves[i] EXCEPT !.here = FALSE]]
  /\ UNCHANGED <<own, stored, signedIn>>

-----------------------------------------------------------------------------
Next ==
  \/ ProfileAnswered \/ ProfileFailed \/ \E k \in Slots : PictureLoaded(k)
  \/ \E f \in Fields, t \in Texts \cup {Empty} : EditText(f, t)
  \/ \E a \in Ages \cup {Nil} : EditAge(a)
  \/ \E a \in MinAge..MaxAge : MoveSlider(a)
  \/ Scroll
  \/ CancelPicker \/ PickPhoto \/ \E k \in Slots : OpenPicker(k)
  \/ \E u \in Uploads : UploadAnswered(u) \/ UploadFailed(u) \/ URLAnswered(u)
  \/ SaveData \/ SaveAnswered \/ SaveFailed \/ Close \/ Logout \/ Reopen

Spec == Init /\ [][Next]_vars

-----------------------------------------------------------------------------
(* Properties.                                                             *)

\* The two copies of the data agree: once the profile is loaded, the text
\* cells and the sliders show what currentUser holds, and the age cell does
\* whenever its handler is attached, through edits, scrolling and reloads.
CellsMatchUser ==
  user # Nil =>
    /\ \A f \in Fields : cells.text[f] = Shown(user.text[f])
    /\ cells.min = Clamp(user.range.min) /\ cells.max = Clamp(user.range.max)
    /\ cells.ageHandled => cells.age = user.age

\* A search range is missing, a blind save's -1..-1, or lies on the sliders
\* in the right order, wherever it has got to.
IsRange(r) == r \in SliderRanges \cup {NoRange, BlindRange}
RangesAreOrdered ==
  /\ user # Nil => IsRange(user.range)
  /\ IsRange(own.range)
  /\ \A i \in 1..Len(saves) : IsRange(saves[i].data.range)

\* Every copy of the profile there is.
Profiles == {own} \cup {saves[i].data : i \in 1..Len(saves)} \cup ({user} \ {Nil})

\* No profile refers to a photo that Storage does not hold.
PhotosAreStored == \A p \in Profiles, k \in Slots : p.url[k] \in Uploads => p.url[k] \in stored

\* The "Uploading.." HUD is all that keeps the uploads apart: one at a time,
\* and none after one whose putData failed.
OneUploadAtATime ==
  \A u, v \in Uploads :
    /\ upload[u].state \in {"uploading", "asking", "failed"}
    /\ upload[v].state \in {"uploading", "asking", "failed"}
    => u = v

\* A save pressed after the profile is loaded (saveInfoButtonPressed) writes
\* what the cells show, with three exceptions: a text currentUser lacks is
\* shown empty and written as the placeholder; a range it lacks, or the -1..-1
\* of an earlier save, is shown on the sliders and written as -1..-1; and what
\* is typed into an age field that was built without an age is not written.
LoadedSaveWrites ==
  [][user # Nil /\ Len(saves') > Len(saves) =>
       LET data == saves'[Len(saves')].data
       IN  /\ \A f \in Fields :
                data.text[f] = IF user.text[f] = Nil THEN Placeholder ELSE cells.text[f]
           /\ data.range = IF user.range \in {NoRange, BlindRange} THEN BlindRange
                           ELSE [min |-> cells.min, max |-> cells.max]
           /\ data.age = IF cells.ageHandled THEN Default(cells.age, -1) ELSE -1]_vars

\* What the comment in saveInfoButtonPressed says, "Current data saves to
\* Firebase": a save never puts a default over a text the profile has.
SavesCurrentData ==
  [][Len(saves') > Len(saves) =>
       \A f \in Fields : OwnView.text[f] \in Texts =>
         saves'[Len(saves')].data.text[f] # Placeholder]_vars
=============================================================================
