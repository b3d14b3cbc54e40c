------------------------ MODULE SettingsScreenProofs ------------------------
(***************************************************************************)
(* Proofs about SettingsScreen, for any fields, photo slots and uploads.   *)
(*                                                                         *)
(* The cells and currentUser agree because each edit goes to both.  A save *)
(* writes what the cells show, missing values excepted, because they agree *)
(* and an age field lacks its handler only while there is no age           *)
(* (NoHandlerNoAge).  No profile refers to a photo Storage does not hold   *)
(* because a URL is only asked for once putData has answered               *)
(* (AskingIsStored).  Uploads come one at a time because the picker opens  *)
(* only with no HUD over the table, and nothing starts an upload while the *)
(* picker is in front (PickerHasTheScreen).                                *)
(***************************************************************************)
EXTENDS SettingsScreen, TLAPS

Active(u) == upload[u].state \in {"uploading", "asking", "failed"}

\* An upload whose URL is being asked for has been stored.
AskingIsStored == \A u \in Uploads : upload[u].state = "asking" => u \in stored

\* While the photo picker is in front no upload is under way.
PickerHasTheScreen == front = "picker" => \A u \in Uploads : ~Active(u)

\* The age field was built without its handler only if there is no age.
NoHandlerNoAge == user # Nil /\ ~cells.ageHandled => user.age = Nil

SettingsInv ==
  /\ TypeOK
  /\ CellsMatchUser
  /\ NoHandlerNoAge
  /\ PhotosAreStored
  /\ AskingIsStored
  /\ OneUploadAtATime
  /\ PickerHasTheScreen

Cells == [text : [Fields -> TextValues], age : Ages \cup {Nil, -1},
          ageHandled : BOOLEAN, min : MinAge..MaxAge, max : MinAge..MaxAge]

-----------------------------------------------------------------------------
(* What the operators return.                                              *)

\* A slider shows an age on it as it is, and any other value as one on it.
LEMMA ClampIsOnSlider ==
  ASSUME NEW a \in Int \cup {Nil}
  PROVE  Clamp(a) \in MinAge..MaxAge /\ (a \in MinAge..MaxAge => Clamp(a) = a)
<1>1. CASE a = Nil
  BY <1>1, AgesAssumption DEF Clamp
<1>2. CASE a # Nil
  <2>1. CASE a < MinAge
    BY <1>2, <2>1, AgesAssumption DEF Clamp
  <2>2. CASE a > MaxAge
    BY <1>2, <2>2, AgesAssumption DEF Clamp
  <2>3. CASE ~(a < MinAge) /\ ~(a > MaxAge)
    <3>1. Clamp(a) = a
      BY <1>2, <2>3, AgesAssumption DEF Clamp
    <3> QED
      BY <1>2, <2>3, <3>1, AgesAssumption
  <2> QED
    BY <2>1, <2>2, <2>3
<1> QED
  BY <1>1, <1>2

\* A profile's range holds ages, -1 or nothing.
LEMMA RangeParts ==
  ASSUME NEW r \in SliderRanges \cup {NoRange, BlindRange}
  PROVE  r.min \in Int \cup {Nil} /\ r.max \in Int \cup {Nil}
BY AgesAssumption DEF SliderRanges, NoRange, BlindRange

\* cellForRowAt makes cells of a profile, or of none.
LEMMA CellsForType ==
  ASSUME NEW p \in Profile \cup {Nil}
  PROVE  CellsFor(p) \in Cells
<1>1. CASE p = Nil
  BY <1>1, AgesAssumption DEF CellsFor, Cells, TextValues
<1>2. CASE p # Nil
  <2>1. p \in Profile
    BY <1>2
  <2>2. p.text \in [Fields -> TextValues] /\ p.age \in Ages \cup {Nil, -1}
    BY <2>1 DEF Profile
  <2>3. Clamp(p.range.min) \in MinAge..MaxAge /\ Clamp(p.range.max) \in MinAge..MaxAge
    BY <2>1, RangeParts, ClampIsOnSlider DEF Profile
  <2>4. [f \in Fields |-> Shown(p.text[f])] \in [Fields -> TextValues]
    BY <2>2 DEF Shown, TextValues
  <2> QED
    BY <1>2, <2>2, <2>3, <2>4 DEF CellsFor, Cells
<1> QED
  BY <1>1, <1>2

\* A profile's range is in order by its type: what keeps it so is that every
\* step that makes a profile makes one of the type.
LEMMA RangesFollow == TypeOK => RangesAreOrdered
<1> SUFFICES ASSUME TypeOK PROVE RangesAreOrdered
  OBVIOUS
<1>1. \A p \in Profile : IsRange(p.range)
  BY DEF Profile, IsRange
<1>2. \A i \in 1..Len(saves) : saves[i].data \in Profile
  <2>1. saves \in Seq(Write)
    BY DEF TypeOK
  <2>2. \A i \in 1..Len(saves) : saves[i] \in Write
    BY <2>1
  <2> QED
    BY <2>2 DEF Write
<1> QED
  BY <1>1, <1>2 DEF TypeOK, RangesAreOrdered

\* What the client reads of the document is a profile.
LEMMA OwnViewIsProfile ==
  ASSUME TypeOK
  PROVE  /\ OwnView \in Profile
         /\ OwnView \in {own} \cup {saves[i].data : i \in 1..Len(saves)}
<1>1. CASE saves = <<>>
  BY <1>1 DEF OwnView, TypeOK
<1>2. CASE saves # <<>>
  <2>1. saves \in Seq(Write) /\ Len(saves) \in 1..Len(saves)
    BY <1>2 DEF TypeOK
  <2>2. saves[Len(saves)] \in Write
    BY <2>1
  <2> QED
    BY <1>2, <2>1, <2>2 DEF OwnView, Write
<1> QED
  BY <1>1, <1>2

\* Save Data writes a profile, and no URL that is not in currentUser.
LEMMA SavedDataIsProfile ==
  ASSUME TypeOK
  PROVE  /\ SavedData \in Profile
         /\ \A k \in Slots : SavedData.url[k] \in Uploads =>
              user # Nil /\ SavedData.url[k] = user.url[k]
<1>1. CASE user = Nil
  <2>1. SavedData = [text |-> [f \in Fields |-> Placeholder], age |-> -1,
                     range |-> BlindRange, url |-> [k \in Slots |-> Empty]]
    BY <1>1 DEF SavedData
  <2>2. SavedData \in Profile
    BY <2>1 DEF Profile, TextValues, URLs
  <2>3. \A k \in Slots : SavedData.url[k] \notin Uploads
    BY <2>1, ValuesAssumption
  <2> QED
    BY <2>1, <2>2, <2>3
<1>2. CASE user # Nil
  <2>1. user \in Profile
    BY <1>2 DEF TypeOK
  <2> DEFINE Range == [min |-> Default(user.range.min, -1), max |-> Default(user.range.max, -1)]
  <2>2. SavedData = [text  |-> [f \in Fields |-> Default(user.text[f], Placeholder)],
                     age   |-> Default(user.age, -1), range |-> Range,
                     url   |-> [k \in Slots |-> Default(user.url[k], Empty)]]
    BY <1>2 DEF SavedData
  <2>3. Range \in SliderRanges \cup {NoRange, BlindRange}
    <3>1. user.range \in SliderRanges \cup {NoRange, BlindRange}
      BY <2>1 DEF Profile
    <3>2. CASE user.range \in SliderRanges
      <4>1. user.range.min # Nil /\ user.range.max # Nil
        BY <3>2, AgesAssumption DEF SliderRanges
      <4>2. user.range = [min |-> user.range.min, max |-> user.range.max]
        BY <3>2 DEF SliderRanges
      <4> QED
        BY <3>2, <4>1, <4>2 DEF Default
    <3>3. CASE user.range = NoRange
      BY <3>3 DEF NoRange, BlindRange, Default
    <3>4. CASE user.range = BlindRange
      BY <3>4, AgesAssumption DEF BlindRange, Default
    <3> QED
      BY <3>1, <3>2, <3>3, <3>4
  <2>4. [f \in Fields |-> Default(user.text[f], Placeholder)] \in [Fields -> TextValues]
    BY <2>1 DEF Profile, Default, TextValues
  <2>5. Default(user.age, -1) \in Ages \cup {Nil, -1}
    BY <2>1 DEF Profile, Default
  <2>6. [k \in Slots |-> Default(user.url[k], Empty)] \in [Slots -> URLs]
    BY <2>1 DEF Profile, Default, URLs
  <2>7. SavedData \in Profile
    BY <2>2, <2>3, <2>4, <2>5, <2>6 DEF Profile
  <2>8. \A k \in Slots : SavedData.url[k] \in Uploads => SavedData.url[k] = user.url[k]
    BY <2>2, ValuesAssumption DEF Default
  <2> QED
    BY <1>2, <2>7, <2>8
<1> QED
  BY <1>1, <1>2

\* An answer takes the oldest save away and leaves the others in their order.
LEMMA OldestSave ==
  ASSUME saves \in Seq(Write), saves # <<>>, saves' = Tail(saves)
  PROVE  /\ saves' \in Seq(Write) /\ Len(saves') <= Len(saves)
         /\ saves[1] \in Write /\ 1 \in 1..Len(saves)
         /\ \A i \in 1..Len(saves') : i + 1 \in 1..Len(saves) /\ saves'[i] = saves[i + 1]
<1>1. Len(saves) \in Nat \ {0} /\ Len(saves') = Len(saves) - 1 /\ saves' \in Seq(Write)
  OBVIOUS
<1>2. saves[1] \in Write /\ 1 \in 1..Len(saves)
  BY <1>1
<1>3. \A i \in 1..Len(saves') : i + 1 \in 1..Len(saves) /\ saves'[i] = saves[i + 1]
  BY <1>1
<1> QED
  BY <1>1, <1>2, <1>3

\* A new screen leaves the saves of the old one as they are, but for here.
LEMMA LeftSaves ==
  ASSUME saves \in Seq(Write),
         saves' = [i \in DOMAIN saves |-> [saves[i] EXCEPT !.here = FALSE]]
  PROVE  /\ saves' \in Seq(Write) /\ Len(saves') = Len(saves)
         /\ \A i \in 1..Len(saves) : saves'[i].data = saves[i].data
<1> DEFINE left(w) == [w EXCEPT !.here = FALSE]
<1>1. \A w \in Write : left(w) \in Write /\ left(w).data = w.data
  BY DEF Write
<1>2. Len(saves) \in Nat /\ DOMAIN saves = 1..Len(saves)
      /\ \A i \in 1..Len(saves) : saves[i] \in Write
  OBVIOUS
<1>3. saves' = [i \in 1..Len(saves) |-> left(saves[i])]
  BY <1>2
<1> HIDE DEF left
<1>4. saves' \in [1..Len(saves) -> Write]
  BY <1>1, <1>2, <1>3
<1>5. saves' \in Seq(Write) /\ Len(saves') = Len(saves)
  BY <1>2, <1>3, <1>4
<1>6. \A i \in 1..Len(saves) : saves'[i].data = saves[i].data
  BY <1>1, <1>2, <1>3
<1> QED
  BY <1>5, <1>6

-----------------------------------------------------------------------------
(* The types.                                                              *)

LEMMA TypeInit == Init => TypeOK
<1> SUFFICES ASSUME Init PROVE TypeOK
  OBVIOUS
<1>1. own \in Profile
  <2>1. ASSUME NEW t \in Texts PROVE Registered(t) \in Profile
    <3>1. [f \in Fields |-> IF f = "name" THEN t ELSE Nil] \in [Fields -> TextValues]
      BY DEF TextValues
    <3>2. [k \in Slots |-> IF k = 1 THEN 1 ELSE Nil] \in [Slots -> URLs]
      BY DEF URLs
    <3> QED
      BY <3>1, <3>2 DEF Registered, Profile
  <2>2. ASSUME NEW t \in Texts, NEW a \in Ages, NEW r \in SliderRanges
        PROVE  Completed(t, a, r) \in Profile
    <3>1. [f \in Fields |-> t] \in [Fields -> TextValues]
      BY DEF TextValues
    <3>2. [k \in Slots |-> k] \in [Slots -> URLs]
      BY DEF URLs
    <3> QED
      BY <3>1, <3>2 DEF Completed, Profile
  <2> QED
    BY <2>1, <2>2 DEF Init
<1>2. saves \in Seq(Write) /\ Len(saves) <= MaxSaves
  BY ValuesAssumption DEF Init
<1>3. cells \in Cells
  BY CellsForType DEF Init
<1>4. /\ picture \in [Slots -> Uploads \cup Slots \cup {Nil}]
      /\ loads \in [Slots -> Uploads \cup Slots \cup {Nil}]
      /\ upload \in [Uploads -> [state : {"unused", "uploading", "asking", "failed", "done"},
                                 slot : Slots \cup {Nil}]]
  BY DEF Init, NoUpload
<1>5. /\ stored \subseteq Uploads /\ signedIn \in BOOLEAN /\ front \in {"table", "picker", "gone"}
      /\ picking \in Slots \cup {Nil} /\ fetching \in BOOLEAN /\ user \in Profile \cup {Nil}
  BY DEF Init
<1> QED
  BY <1>1, <1>2, <1>3, <1>4, <1>5 DEF TypeOK, Cells

LEMMA TypeStep == TypeOK /\ [Next]_vars => TypeOK'
<1> SUFFICES ASSUME TypeOK, [Next]_vars PROVE TypeOK'
  OBVIOUS
<1> USE DEF TypeOK, remoteVars, photoVars, localVars
<1>1. CASE ProfileAnswered
  <2>1. OwnView \in Profile
    BY OwnViewIsProfile
  <2>2. CellsFor(OwnView) \in Cells
    BY <2>1, CellsForType
  <2>3. ToLoad(OwnView) \in [Slots -> Uploads \cup Slots \cup {Nil}]
    <3> DEFINE Load(k) == IF \A j \in 1..k : HasPicture(OwnView, j) THEN OwnView.url[k] ELSE Nil
    <3>1. ASSUME NEW k \in Slots PROVE Load(k) \in Uploads \cup Slots \cup {Nil}
      <4>1. OwnView.url[k] \in URLs
        BY <2>1 DEF Profile
      <4>2. CASE \A j \in 1..k : HasPicture(OwnView, j)
        <5>1. k \in 1..k
          BY DEF Slots
        <5> QED
          BY <4>1, <4>2, <5>1 DEF HasPicture, URLs
      <4>3. CASE ~\A j \in 1..k : HasPicture(OwnView, j)
        BY <4>3
      <4> QED
        BY <4>2, <4>3
    <3>2. ToLoad(OwnView) = [k \in Slots |-> Load(k)]
      BY DEF ToLoad
    <3> QED
      BY <3>1, <3>2
  <2> QED
    BY <1>1, <2>1, <2>2, <2>3 DEF ProfileAnswered, Cells
<1>2. CASE ProfileFailed
  BY <1>2 DEF ProfileFailed
<1>3. CASE \E k \in Slots : PictureLoaded(k)
  BY <1>3 DEF PictureLoaded
<1>4. CASE \E f \in Fields, t \in Texts \cup {Empty} : EditText(f, t)
  <2> PICK f \in Fields, t \in Texts \cup {Empty} : EditText(f, t)
    BY <1>4
  <2>1. t \in TextValues
    BY DEF TextValues
  <2>2. user' \in Profile \cup {Nil}
    BY <2>1 DEF EditText, Profile
  <2>3. cells' \in Cells
    BY <2>1 DEF EditText, Cells
  <2> QED
    BY <2>2, <2>3 DEF EditText, Cells
<1>5. CASE \E a \in Ages \cup {Nil} : EditAge(a)
  <2> PICK a \in Ages \cup {Nil} : EditAge(a)
    BY <1>5
  <2>1. user' \in Profile \cup {Nil}
    BY DEF EditAge, Profile
  <2>2. cells' \in Cells
    BY DEF EditAge, Cells
  <2> QED
    BY <2>1, <2>2 DEF EditAge, Cells
<1>6. CASE \E a \in MinAge..MaxAge : MoveSlider(a)
  <2>1. PICK min \in MinAge..MaxAge, max \in MinAge..MaxAge : SetMinMax(min, max)
    BY <1>6 DEF MoveSlider
  <2> DEFINE upper == IF min > max THEN min ELSE max
  <2>2. upper \in MinAge..MaxAge /\ [min |-> min, max |-> upper] \in SliderRanges
    BY AgesAssumption DEF SliderRanges
  <2>3. user' \in Profile \cup {Nil}
    BY <2>1, <2>2 DEF SetMinMax, Profile
  <2>4. cells' \in Cells
    BY <2>1, <2>2 DEF SetMinMax, Cells
  <2> QED
    BY <1>6, <2>3, <2>4 DEF MoveSlider, Cells
<1>7. CASE Scroll
  <2>1. CellsFor(user) \in Cells
    BY CellsForType
  <2>2. cells' \in Cells
    <3> DEFINE new == CellsFor(user)
    <3>1. /\ cells \in Cells /\ new.text \in [Fields -> TextValues]
          /\ new.age \in Ages \cup {Nil, -1} /\ new.ageHandled \in BOOLEAN
          /\ new.min \in MinAge..MaxAge /\ new.max \in MinAge..MaxAge
      BY <2>1 DEF Cells
    <3> HIDE DEF new
    <3>2. \/ \E f \in Fields : cells' = [cells EXCEPT !.text[f] = new.text[f]]
          \/ cells' = [cells EXCEPT !.age = new.age, !.ageHandled = new.ageHandled]
          \/ cells' = [cells EXCEPT !.min = new.min, !.max = new.max]
      BY <1>7 DEF Scroll, new
    <3>3. CASE \E f \in Fields : cells' = [cells EXCEPT !.text[f] = new.text[f]]
      <4> PICK f \in Fields : cells' = [cells EXCEPT !.text[f] = new.text[f]]
        BY <3>3
      <4> DEFINE text == [cells.text EXCEPT ![f] = new.text[f]]
      <4>1. text \in [Fields -> TextValues]
        BY <3>1 DEF Cells
      <4>2. cells' = [cells EXCEPT !.text = text]
        OBVIOUS
      <4> HIDE DEF text
      <4> QED
        BY <3>1, <4>1, <4>2 DEF Cells
    <3>4. CASE cells' = [cells EXCEPT !.age = new.age, !.ageHandled = new.ageHandled]
      BY <3>1, <3>4 DEF Cells
    <3>5. CASE cells' = [cells EXCEPT !.min = new.min, !.max = new.max]
      BY <3>1, <3>5 DEF Cells
    <3> QED
      BY <3>2, <3>3, <3>4, <3>5
  <2> QED
    BY <1>7, <2>2 DEF Scroll, Cells
<1>8. CASE CancelPicker
  BY <1>8 DEF CancelPicker
<1>9. CASE PickPhoto
  BY <1>9 DEF PickPhoto
<1>10. CASE \E k \in Slots : OpenPicker(k)
  BY <1>10 DEF OpenPicker
<1>11. CASE \E u \in Uploads : UploadAnswered(u)
  BY <1>11 DEF UploadAnswered, UploadState
<1>12. CASE \E u \in Uploads : UploadFailed(u)
  BY <1>12 DEF UploadFailed, UploadState
<1>13. CASE \E u \in Uploads : URLAnswered(u)
  <2> PICK u \in Uploads : URLAnswered(u)
    BY <1>13
  <2>1. user' \in Profile \cup {Nil}
    <3>1. CASE user' = user
      BY <3>1
    <3>2. CASE user' = Nil
      BY <3>2
    <3>3. CASE user # Nil /\ user' = [user EXCEPT !.url[upload[u].slot] = u]
      <4> DEFINE url == [user.url EXCEPT ![upload[u].slot] = u]
      <4>1. user \in Profile
        BY <3>3
      <4>2. url \in [Slots -> URLs] /\ user' = [user EXCEPT !.url = url]
        BY <3>3, <4>1 DEF Profile, URLs
      <4> HIDE DEF url
      <4> QED
        BY <4>1, <4>2 DEF Profile
    <3> QED
      BY <3>1, <3>2, <3>3 DEF URLAnswered
  <2> QED
    BY <2>1 DEF URLAnswered, UploadState
<1>14. CASE SaveData
  <2> DEFINE w == [data |-> SavedData, here |-> TRUE]
  <2>1. w \in Write
    BY SavedDataIsProfile DEF Write
  <2> HIDE DEF w
  <2>2. saves' = Append(saves, w)
    BY <1>14 DEF SaveData, w
  <2>3. saves' \in Seq(Write) /\ Len(saves') = Len(saves) + 1
    BY <2>1, <2>2
  <2>4. Len(saves') <= MaxSaves
    BY <1>14, <2>3, ValuesAssumption DEF SaveData
  <2> QED
    BY <1>14, <2>3, <2>4 DEF SaveData
<1>15. CASE SaveAnswered
  <2>1. saves' \in Seq(Write) /\ Len(saves') <= MaxSaves /\ own' \in Profile
    <3>1. saves # <<>> /\ saves' = Tail(saves) /\ own' = saves[1].data
      BY <1>15 DEF SaveAnswered
    <3>2. saves' \in Seq(Write) /\ Len(saves') <= Len(saves) /\ saves[1] \in Write
      BY <3>1, OldestSave
    <3>3. Len(saves') <= MaxSaves
      BY <3>2, ValuesAssumption
    <3> QED
      BY <3>1, <3>2, <3>3 DEF Write
  <2> QED
    BY <1>15, <2>1 DEF SaveAnswered
<1>16. CASE SaveFailed
  <2>1. saves' \in Seq(Write) /\ Len(saves') <= MaxSaves
    <3>1. saves # <<>> /\ saves' = Tail(saves)
      BY <1>16 DEF SaveFailed
    <3>2. saves' \in Seq(Write) /\ Len(saves') <= Len(saves)
      BY <3>1, OldestSave
    <3> QED
      BY <3>2, ValuesAssumption
  <2> QED
    BY <1>16, <2>1 DEF SaveFailed
<1>17. CASE Close
  BY <1>17 DEF Close
<1>18. CASE Logout
  BY <1>18 DEF Logout
<1>19. CASE Reopen
  <2>1. saves' \in Seq(Write) /\ Len(saves') = Len(saves)
    BY <1>19, LeftSaves DEF Reopen
  <2>2. cells' \in Cells
    BY <1>19, CellsForType DEF Reopen, Opened
  <2> QED
    BY <1>19, <2>1, <2>2 DEF Reopen, Opened, NoUpload, Cells
<1>20. CASE UNCHANGED vars
  BY <1>20 DEF vars
<1> QED
  BY <1>1, <1>2, <1>3, <1>4, <1>5, <1>6, <1>7, <1>8, <1>9, <1>10, <1>11, <1>12, <1>13, <1>14,
     <1>15, <1>16, <1>17, <1>18, <1>19, <1>20 DEF Next

-----------------------------------------------------------------------------
(* The cells and currentUser.                                              *)

\* The cells cellForRowAt makes of a profile show it.
LEMMA CellsForMatch ==
  ASSUME NEW p \in Profile, p # Nil
  PROVE  /\ \A f \in Fields : CellsFor(p).text[f] = Shown(p.text[f])
         /\ CellsFor(p).min = Clamp(p.range.min) /\ CellsFor(p).max = Clamp(p.range.max)
         /\ CellsFor(p).age = p.age /\ CellsFor(p).ageHandled = (p.age # Nil)
BY DEF CellsFor

LEMMA CellsStep == TypeOK /\ CellsMatchUser /\ [Next]_vars => CellsMatchUser'
<1> SUFFICES ASSUME TypeOK, CellsMatchUser, [Next]_vars, user' # Nil
             PROVE  CellsMatchUser'
  BY DEF CellsMatchUser
<1> USE DEF remoteVars, photoVars, localVars
<1>1. cells \in Cells /\ user \in Profile \cup {Nil}
  BY DEF TypeOK, Cells
<1>2. CASE user' = user /\ cells' = cells
  BY <1>2 DEF CellsMatchUser
<1>3. CASE ProfileAnswered
  <2>1. OwnView \in Profile /\ user' = OwnView /\ cells' = CellsFor(OwnView)
    BY <1>3, OwnViewIsProfile DEF ProfileAnswered
  <2> QED
    BY <2>1, CellsForMatch DEF CellsMatchUser
<1>4. CASE \E f \in Fields, t \in Texts \cup {Empty} : EditText(f, t)
  <2> PICK f \in Fields, t \in Texts \cup {Empty} : EditText(f, t)
    BY <1>4
  <2>1. user # Nil /\ user \in Profile /\ Shown(t) = t
    BY <1>1, ValuesAssumption DEF EditText, Shown
  <2>2. /\ cells' = [cells EXCEPT !.text[f] = t]
        /\ user' = [user EXCEPT !.text[f] = t]
    BY <2>1 DEF EditText
  <2>3. \A g \in Fields : cells'.text[g] = Shown(user'.text[g])
    BY <1>1, <2>1, <2>2 DEF CellsMatchUser, Cells, Profile
  <2>4. /\ cells'.min = cells.min /\ cells'.max = cells.max /\ cells'.age = cells.age
        /\ cells'.ageHandled = cells.ageHandled
        /\ user'.range = user.range /\ user'.age = user.age
    BY <1>1, <2>1, <2>2 DEF Cells, Profile
  <2> QED
    BY <2>1, <2>3, <2>4 DEF CellsMatchUser
<1>5. CASE \E a \in Ages \cup {Nil} : EditAge(a)
  <2> PICK a \in Ages \cup {Nil} : EditAge(a)
    BY <1>5
  <2>1. user # Nil /\ user \in Profile
    BY <1>1 DEF EditAge
  <2>2. /\ cells'.text = cells.text /\ cells'.min = cells.min /\ cells'.max = cells.max
        /\ cells'.age = a /\ cells'.ageHandled = cells.ageHandled
    BY <1>1 DEF EditAge, Cells
  <2>3. /\ user'.text = user.text /\ user'.range = user.range
        /\ cells.ageHandled => user'.age = a
    BY <2>1 DEF EditAge, Profile
  <2> QED
    BY <2>1, <2>2, <2>3 DEF CellsMatchUser
<1>6. CASE \E a \in MinAge..MaxAge : MoveSlider(a)
  <2>1. PICK min \in MinAge..MaxAge, max \in MinAge..MaxAge : SetMinMax(min, max)
    BY <1>1, <1>6 DEF MoveSlider, Cells
  <2> DEFINE upper == IF min > max THEN min ELSE max
  <2>2. upper \in MinAge..MaxAge
    OBVIOUS
  <2>3. Clamp(min) = min /\ Clamp(upper) = upper
    BY <2>2, AgesAssumption, ClampIsOnSlider
  <2> HIDE DEF upper
  <2>4. user # Nil /\ user \in Profile
    BY <1>1, <2>1 DEF SetMinMax
  <2>5. /\ cells' = [cells EXCEPT !.min = min, !.max = upper]
        /\ user' = [user EXCEPT !.range = [min |-> min, max |-> upper]]
    BY <2>1, <2>4 DEF SetMinMax, upper
  <2>6. /\ cells'.text = cells.text /\ cells'.age = cells.age
        /\ cells'.ageHandled = cells.ageHandled
        /\ cells'.min = min /\ cells'.max = upper
    BY <1>1, <2>5 DEF Cells
  <2>7. /\ user'.text = user.text /\ user'.age = user.age
        /\ user'.range.min = min /\ user'.range.max = upper
    BY <2>4, <2>5 DEF Profile
  <2> QED
    BY <2>3, <2>4, <2>6, <2>7 DEF CellsMatchUser
<1>7. CASE Scroll
  <2>1. user' = user /\ user # Nil /\ user \in Profile
    BY <1>1, <1>7 DEF Scroll
  <2> DEFINE new == CellsFor(user)
  <2>2. /\ \A f \in Fields : new.text[f] = Shown(user.text[f])
        /\ new.min = Clamp(user.range.min) /\ new.max = Clamp(user.range.max)
        /\ new.age = user.age
    BY <2>1, CellsForMatch
  <2> HIDE DEF new
  <2>3. \/ \E f \in Fields : cells' = [cells EXCEPT !.text[f] = new.text[f]]
        \/ cells' = [cells EXCEPT !.age = new.age, !.ageHandled = new.ageHandled]
        \/ cells' = [cells EXCEPT !.min = new.min, !.max = new.max]
    BY <1>7 DEF Scroll, new
  <2>4. CASE \E f \in Fields : cells' = [cells EXCEPT !.text[f] = new.text[f]]
    <3> PICK f \in Fields : cells' = [cells EXCEPT !.text[f] = new.text[f]]
      BY <2>4
    <3>1. /\ \A g \in Fields : cells'.text[g] = cells.text[g] \/ (g = f /\ cells'.text[g] = new.text[f])
          /\ cells'.min = cells.min /\ cells'.max = cells.max
          /\ cells'.age = cells.age /\ cells'.ageHandled = cells.ageHandled
      <4> DEFINE t == new.text[f]
      <4>1. cells' = [cells EXCEPT !.text[f] = t]
        OBVIOUS
      <4> HIDE DEF t
      <4>2. \A g \in Fields : cells'.text[g] = cells.text[g] \/ (g = f /\ cells'.text[g] = t)
        <5>1. cells.text \in [Fields -> TextValues] /\ cells'.text = [cells.text EXCEPT ![f] = t]
          BY <1>1, <4>1 DEF Cells
        <5> QED
          BY <5>1
      <4>3. /\ cells'.min = cells.min /\ cells'.max = cells.max
            /\ cells'.age = cells.age /\ cells'.ageHandled = cells.ageHandled
        BY <1>1, <4>1 DEF Cells
      <4> QED
        BY <4>2, <4>3 DEF t
    <3> QED
      BY <2>1, <2>2, <3>1 DEF CellsMatchUser
  <2>5. CASE cells' = [cells EXCEPT !.age = new.age, !.ageHandled = new.ageHandled]
    BY <1>1, <2>1, <2>2, <2>5 DEF CellsMatchUser, Cells
  <2>6. CASE cells' = [cells EXCEPT !.min = new.min, !.max = new.max]
    BY <1>1, <2>1, <2>2, <2>6 DEF CellsMatchUser, Cells
  <2> QED
    BY <2>3, <2>4, <2>5, <2>6
<1>8. CASE \E u \in Uploads : URLAnswered(u)
  <2> PICK u \in Uploads : URLAnswered(u)
    BY <1>8
  <2>1. user # Nil /\ user \in Profile /\ cells' = cells
    BY <1>1 DEF URLAnswered
  <2>2. user'.text = user.text /\ user'.age = user.age /\ user'.range = user.range
    BY <2>1 DEF URLAnswered, Profile
  <2> QED
    BY <2>1, <2>2 DEF CellsMatchUser
<1>9. CASE Reopen
  BY <1>9 DEF Reopen, Opened
<1> QED
  BY <1>2, <1>3, <1>4, <1>5, <1>6, <1>7, <1>8, <1>9
     DEF Next, vars, ProfileFailed, PictureLoaded, CancelPicker, PickPhoto, OpenPicker,
         UploadAnswered, UploadFailed, SaveData, SaveAnswered, SaveFailed, Close, Logout

LEMMA HandlerStep == TypeOK /\ NoHandlerNoAge /\ [Next]_vars => NoHandlerNoAge'
<1> SUFFICES ASSUME TypeOK, NoHandlerNoAge, [Next]_vars, user' # Nil, ~cells'.ageHandled
             PROVE  user'.age = Nil
  BY DEF NoHandlerNoAge
<1> USE DEF remoteVars, photoVars, localVars
<1>1. cells \in Cells /\ user \in Profile \cup {Nil}
  BY DEF TypeOK, Cells
<1>2. CASE /\ cells'.ageHandled = cells.ageHandled
           /\ user # Nil /\ user'.age = user.age
  BY <1>2 DEF NoHandlerNoAge
<1>3. CASE ProfileAnswered
  <2>1. OwnView \in Profile /\ user' = OwnView /\ cells' = CellsFor(OwnView)
    BY <1>3, OwnViewIsProfile DEF ProfileAnswered
  <2> QED
    BY <2>1, CellsForMatch
<1>4. CASE \E f \in Fields, t \in Texts \cup {Empty} : EditText(f, t)
  <2>1. PICK f \in Fields, t \in Texts \cup {Empty} : EditText(f, t)
    BY <1>4
  <2>2. user # Nil /\ cells' = [cells EXCEPT !.text[f] = t]
        /\ user' = [user EXCEPT !.text[f] = t]
    BY <2>1 DEF EditText
  <2> QED
    BY <1>1, <1>2, <2>2 DEF Cells, Profile
<1>5. CASE \E a \in Ages \cup {Nil} : EditAge(a)
  <2>1. PICK a \in Ages \cup {Nil} : EditAge(a)
    BY <1>5
  <2>2. cells'.ageHandled = cells.ageHandled /\ user # Nil
    BY <1>1, <2>1 DEF EditAge, Cells
  <2>3. user' = user
    BY <2>1, <2>2 DEF EditAge
  <2> QED
    BY <1>2, <2>2, <2>3
<1>6. CASE \E a \in MinAge..MaxAge : MoveSlider(a)
  <2>1. PICK min, max : SetMinMax(min, max)
    BY <1>6 DEF MoveSlider
  <2> DEFINE upper == IF min > max THEN min ELSE max
  <2>2. user # Nil /\ cells' = [cells EXCEPT !.min = min, !.max = upper]
        /\ user' = [user EXCEPT !.range = [min |-> min, max |-> upper]]
    BY <2>1 DEF SetMinMax
  <2> HIDE DEF upper
  <2> QED
    BY <1>1, <1>2, <2>2 DEF Cells, Profile
<1>7. CASE Scroll
  <2>1. user' = user /\ user # Nil /\ user \in Profile
    BY <1>1, <1>7 DEF Scroll
  <2> DEFINE new == CellsFor(user)
  <2>2. new.ageHandled = (user.age # Nil)
    BY <2>1, CellsForMatch
  <2> HIDE DEF new
  <2>3. CASE cells' = [cells EXCEPT !.age = new.age, !.ageHandled = new.ageHandled]
    BY <1>1, <2>1, <2>2, <2>3 DEF Cells
  <2>4. CASE \/ \E f \in Fields : cells' = [cells EXCEPT !.text[f] = new.text[f]]
             \/ cells' = [cells EXCEPT !.min = new.min, !.max = new.max]
    BY <1>1, <1>2, <2>1, <2>4 DEF Cells
  <2> QED
    BY <1>7, <2>3, <2>4 DEF Scroll, new
<1>8. CASE \E u \in Uploads : URLAnswered(u)
  <2>1. user # Nil /\ cells' = cells /\ user'.age = user.age
    BY <1>1, <1>8 DEF URLAnswered, Profile
  <2> QED
    BY <1>2, <2>1
<1>9. CASE Reopen
  BY <1>9 DEF Reopen, Opened
<1>10. CASE user' = user /\ cells' = cells
  BY <1>2, <1>10
<1> QED
  BY <1>3, <1>4, <1>5, <1>6, <1>7, <1>8, <1>9, <1>10
     DEF Next, vars, ProfileFailed, PictureLoaded, CancelPicker, PickPhoto, OpenPicker,
         UploadAnswered, UploadFailed, SaveData, SaveAnswered, SaveFailed, Close, Logout

-----------------------------------------------------------------------------
(* The photos and their uploads.                                           *)

\* The photos of a profile are ones Storage holds.
Held(p, s) == \A k \in Slots : p.url[k] \in Uploads => p.url[k] \in s

\* PhotosAreStored, one copy of the profile at a time.
LEMMA PhotosAreHeld ==
  PhotosAreStored <=> /\ Held(own, stored)
                      /\ \A i \in 1..Len(saves) : Held(saves[i].data, stored)
                      /\ user # Nil => Held(user, stored)
BY DEF PhotosAreStored, Profiles, Held

LEMMA PhotosStep ==
  TypeOK /\ PhotosAreStored /\ AskingIsStored /\ [Next]_vars
    => PhotosAreStored' /\ AskingIsStored'
<1> SUFFICES ASSUME TypeOK, PhotosAreStored, AskingIsStored, [Next]_vars
             PROVE  PhotosAreStored' /\ AskingIsStored'
  OBVIOUS
<1> USE DEF remoteVars, photoVars, localVars
<1>1. saves \in Seq(Write) /\ user \in Profile \cup {Nil}
  BY DEF TypeOK
<1>2. /\ Held(own, stored)
      /\ \A i \in 1..Len(saves) : Held(saves[i].data, stored)
      /\ user # Nil => Held(user, stored)
  BY PhotosAreHeld
<1>3. ASSUME /\ Held(own', stored')
             /\ \A i \in 1..Len(saves') : Held(saves'[i].data, stored')
             /\ user' # Nil => Held(user', stored')
      PROVE  PhotosAreStored'
  BY <1>3 DEF PhotosAreStored, Profiles, Held
<1>4. CASE UNCHANGED <<own, saves, user, stored, upload>>
  BY <1>4 DEF PhotosAreStored, Profiles, AskingIsStored
<1>5. CASE ProfileAnswered
  <2>1. own' = own /\ saves' = saves /\ stored' = stored /\ upload' = upload /\ user' = OwnView
    BY <1>5 DEF ProfileAnswered
  <2>2. Held(OwnView, stored)
    BY <1>2, OwnViewIsProfile
  <2> QED
    BY <1>2, <1>3, <2>1, <2>2 DEF AskingIsStored
<1>6. CASE \/ \E f \in Fields, t \in Texts \cup {Empty} : EditText(f, t)
           \/ \E a \in Ages \cup {Nil} : EditAge(a)
           \/ \E a \in MinAge..MaxAge : MoveSlider(a)
  <2>1. own' = own /\ saves' = saves /\ stored' = stored /\ upload' = upload
    BY <1>6 DEF EditText, EditAge, MoveSlider
  <2>2. user' # Nil => user # Nil /\ user'.url = user.url
    <3>1. CASE \E f \in Fields, t \in Texts \cup {Empty} : EditText(f, t)
      BY <1>1, <3>1 DEF EditText, Profile
    <3>2. CASE \E a \in Ages \cup {Nil} : EditAge(a)
      BY <1>1, <3>2 DEF EditAge, Profile
    <3>3. CASE \E a \in MinAge..MaxAge : MoveSlider(a)
      <4>1. \/ user' = Nil
            \/ user # Nil /\ \E r : user' = [user EXCEPT !.range = r]
        BY <3>3 DEF MoveSlider, SetMinMax
      <4> QED
        BY <1>1, <4>1 DEF Profile
    <3> QED
      BY <1>6, <3>1, <3>2, <3>3
  <2> QED
    BY <1>2, <1>3, <2>1, <2>2 DEF Held, AskingIsStored
<1>7. CASE PickPhoto
  <2>1. own' = own /\ saves' = saves /\ stored' = stored /\ user' = user
    BY <1>7 DEF PickPhoto
  <2>2. AskingIsStored'
    BY <1>7 DEF PickPhoto, AskingIsStored, TypeOK
  <2> QED
    BY <1>2, <1>3, <2>1, <2>2
<1>8. CASE \E u \in Uploads : UploadAnswered(u)
  <2> PICK u \in Uploads : UploadAnswered(u)
    BY <1>8
  <2>1. own' = own /\ saves' = saves /\ stored' = stored \cup {u} /\ user' = user
    BY DEF UploadAnswered
  <2>2. \A v \in Uploads : v = u \/ upload'[v] = upload[v]
    BY DEF UploadAnswered, UploadState, TypeOK
  <2> QED
    BY <1>2, <1>3, <2>1, <2>2 DEF Held, AskingIsStored
<1>9. CASE \E u \in Uploads : UploadFailed(u)
  <2>1. own' = own /\ saves' = saves /\ stored' = stored /\ user' = user
    BY <1>9 DEF UploadFailed
  <2>2. AskingIsStored'
    BY <1>9 DEF UploadFailed, UploadState, AskingIsStored, TypeOK
  <2> QED
    BY <1>2, <1>3, <2>1, <2>2
<1>10. CASE \E u \in Uploads : URLAnswered(u)
  <2> PICK u \in Uploads : URLAnswered(u)
    BY <1>10
  <2>1. own' = own /\ saves' = saves /\ stored' = stored /\ u \in stored
    BY DEF URLAnswered, AskingIsStored
  <2>2. AskingIsStored'
    BY <2>1 DEF URLAnswered, UploadState, AskingIsStored, TypeOK
  <2>3. user' # Nil => Held(user', stored)
    <3> DEFINE slot == upload[u].slot
    <3>1. CASE user' = user
      BY <1>2, <3>1
    <3>2. CASE user # Nil /\ user' = [user EXCEPT !.url[slot] = u]
      <4> HIDE DEF slot
      <4>1. user.url \in [Slots -> URLs] /\ user'.url = [user.url EXCEPT ![slot] = u]
        BY <1>1, <3>2 DEF Profile
      <4>2. \A k \in Slots : user'.url[k] \in {u, user.url[k]}
        BY <4>1
      <4> QED
        BY <1>2, <2>1, <3>2, <4>2 DEF Held
    <3> QED
      BY <3>1, <3>2 DEF URLAnswered
  <2> QED
    BY <1>2, <1>3, <2>1, <2>2, <2>3
<1>11. CASE SaveData
  <2> DEFINE w == [data |-> SavedData, here |-> TRUE]
  <2>1. w.data = SavedData /\ w \in Write /\ Held(SavedData, stored)
    BY <1>2, SavedDataIsProfile DEF Write, Held
  <2> HIDE DEF w
  <2>2. saves' = Append(saves, w) /\ UNCHANGED <<own, user, stored, upload>>
    BY <1>11 DEF SaveData, w
  <2>3. \A i \in 1..Len(saves') : saves'[i] = w \/ (i \in 1..Len(saves) /\ saves'[i] = saves[i])
    BY <1>1, <2>1, <2>2
  <2> QED
    BY <1>2, <1>3, <2>1, <2>2, <2>3 DEF AskingIsStored
<1>12. CASE SaveAnswered \/ SaveFailed
  <2>1. saves # <<>> /\ saves' = Tail(saves) /\ own' \in {own, saves[1].data}
        /\ UNCHANGED <<user, stored, upload>>
    BY <1>12 DEF SaveAnswered, SaveFailed
  <2>2. 1 \in 1..Len(saves)
        /\ \A i \in 1..Len(saves') : i + 1 \in 1..Len(saves) /\ saves'[i] = saves[i + 1]
    BY <1>1, <2>1, OldestSave
  <2> QED
    BY <1>2, <1>3, <2>1, <2>2 DEF AskingIsStored
<1>13. CASE Reopen
  <2>1. Len(saves') = Len(saves) /\ \A i \in 1..Len(saves) : saves'[i].data = saves[i].data
    BY <1>1, <1>13, LeftSaves DEF Reopen
  <2>2. own' = own /\ stored' = stored /\ user' = Nil
        /\ \A u \in Uploads : upload'[u].state = "unused"
    BY <1>13 DEF Reopen, Opened, NoUpload
  <2> QED
    BY <1>2, <1>3, <2>1, <2>2 DEF AskingIsStored
<1> QED
  BY <1>4, <1>5, <1>6, <1>7, <1>8, <1>9, <1>10, <1>11, <1>12, <1>13
     DEF Next, vars, ProfileFailed, PictureLoaded, Scroll, CancelPicker, OpenPicker, Close, Logout

LEMMA UploadsStep ==
  TypeOK /\ OneUploadAtATime /\ PickerHasTheScreen /\ [Next]_vars
    => OneUploadAtATime' /\ PickerHasTheScreen'
<1> SUFFICES ASSUME TypeOK, OneUploadAtATime, PickerHasTheScreen, [Next]_vars
             PROVE  OneUploadAtATime' /\ PickerHasTheScreen'
  OBVIOUS
<1> USE DEF remoteVars, photoVars, localVars
<1>1. CASE upload' = upload /\ (front' = "picker" => front = "picker")
  BY <1>1 DEF OneUploadAtATime, PickerHasTheScreen, Active
<1>2. CASE \E k \in Slots : OpenPicker(k)
  <2>1. upload' = upload /\ \A u \in Uploads : ~Active(u)
    BY <1>2 DEF OpenPicker, Touchable, Covered, Active
  <2> QED
    BY <2>1 DEF OneUploadAtATime, PickerHasTheScreen, Active
<1>3. CASE PickPhoto
  <2>1. front' = "table" /\ \A u \in Uploads : ~Active(u)
    BY <1>3 DEF PickPhoto, PickerHasTheScreen
  <2>2. upload' = upload \/ \E u \in Uploads : \A v \in Uploads : v = u \/ upload'[v] = upload[v]
    BY <1>3 DEF PickPhoto, TypeOK
  <2> QED
    BY <2>1, <2>2 DEF OneUploadAtATime, PickerHasTheScreen, Active
<1>4. CASE \E u \in Uploads : UploadAnswered(u) \/ UploadFailed(u) \/ URLAnswered(u)
  <2> PICK u \in Uploads : UploadAnswered(u) \/ UploadFailed(u) \/ URLAnswered(u)
    BY <1>4
  <2>1. Active(u) /\ front' = front
    BY DEF UploadAnswered, UploadFailed, URLAnswered, Active
  <2>2. \A v \in Uploads : v = u \/ upload'[v] = upload[v]
    BY DEF UploadAnswered, UploadFailed, URLAnswered, UploadState, TypeOK
  <2> QED
    BY <2>1, <2>2 DEF OneUploadAtATime, PickerHasTheScreen, Active
<1>5. CASE Reopen
  <2>1. front' = "table" /\ \A u \in Uploads : upload'[u].state = "unused"
    BY <1>5 DEF Reopen, Opened, NoUpload
  <2> QED
    BY <2>1 DEF OneUploadAtATime, PickerHasTheScreen
<1> QED
  BY <1>1, <1>2, <1>3, <1>4, <1>5
     DEF Next, vars, ProfileAnswered, ProfileFailed, PictureLoaded, EditText, EditAge, MoveSlider,
         Scroll, CancelPicker, SaveData, SaveAnswered, SaveFailed, Close, Logout

-----------------------------------------------------------------------------
(* The invariant, and what it says of every behaviour.                     *)

LEMMA SettingsInit == Init => SettingsInv
<1> SUFFICES ASSUME Init PROVE SettingsInv
  OBVIOUS
<1>1. TypeOK
  BY TypeInit
<1>2. CellsMatchUser /\ NoHandlerNoAge
  BY DEF Init, CellsMatchUser, NoHandlerNoAge
<1>3. PhotosAreStored
  <2>1. \A k \in Slots : own.url[k] \in Slots \cup {Nil}
    BY DEF Init, Registered, Completed
  <2>2. Profiles = {own}
    BY DEF Init, Profiles
  <2> QED
    BY <2>1, <2>2, ValuesAssumption DEF PhotosAreStored, Slots
<1>4. AskingIsStored /\ OneUploadAtATime /\ PickerHasTheScreen
  BY DEF Init, NoUpload, AskingIsStored, OneUploadAtATime, PickerHasTheScreen
<1> QED
  BY <1>1, <1>2, <1>3, <1>4 DEF SettingsInv

LEMMA SettingsStep == SettingsInv /\ [Next]_vars => SettingsInv'
BY TypeStep, CellsStep, HandlerStep, PhotosStep, UploadsStep DEF SettingsInv

\* Every state the screen reaches satisfies the inductive invariant.
THEOREM SettingsInvHolds == Spec => []SettingsInv
BY SettingsInit, SettingsStep, PTL DEF Spec

\* The profile, the cells, the saves and the uploads keep their types.
THEOREM SettingsTypeCorrect == Spec => []TypeOK
BY SettingsInvHolds, PTL DEF SettingsInv

\* The text cells, the sliders and a handled age cell always show what
\* currentUser holds, whatever is edited, scrolled, loaded or saved in between.
THEOREM CellsAlwaysMatchUser == Spec => []CellsMatchUser
BY SettingsInvHolds, PTL DEF SettingsInv

\* No range out of order reaches currentUser, a setData call or the document.
THEOREM RangesAlwaysOrdered == Spec => []RangesAreOrdered
BY SettingsTypeCorrect, RangesFollow, PTL

\* No copy of the profile ever refers to a photo Storage does not hold.
THEOREM PhotosAlwaysStored == Spec => []PhotosAreStored
BY SettingsInvHolds, PTL DEF SettingsInv

\* The HUDs keep the uploads apart, for any number of photo buttons.
THEOREM UploadsComeOneAtATime == Spec => []OneUploadAtATime
BY SettingsInvHolds, PTL DEF SettingsInv

-----------------------------------------------------------------------------
\* Only Save Data adds to the calls outstanding.
LEMMA OnlySaveDataSaves ==
  ASSUME TypeOK, [Next]_vars, Len(saves') > Len(saves)
  PROVE  SaveData
<1> USE DEF remoteVars
<1>1. saves \in Seq(Write) /\ Len(saves) \in Nat
  BY DEF TypeOK
<1>2. CASE saves' = saves
  BY <1>1, <1>2
<1>3. CASE SaveAnswered \/ SaveFailed
  <2>1. saves # <<>> /\ saves' = Tail(saves)
    BY <1>3 DEF SaveAnswered, SaveFailed
  <2>2. Len(saves') <= Len(saves) /\ Len(saves') \in Nat
    BY <1>1, <2>1, OldestSave
  <2> QED
    BY <1>1, <2>2
<1>4. CASE Reopen
  <2>1. Len(saves') = Len(saves)
    BY <1>1, <1>4, LeftSaves DEF Reopen
  <2> QED
    BY <1>1, <2>1
<1> QED
  BY <1>2, <1>3, <1>4
     DEF Next, vars, ProfileAnswered, ProfileFailed, PictureLoaded, EditText, EditAge, MoveSlider,
         Scroll, CancelPicker, PickPhoto, OpenPicker, UploadAnswered, UploadFailed, URLAnswered,
         Close, Logout

LEMMA SaveEffect ==
  ASSUME SettingsInv, [Next]_vars, user # Nil, Len(saves') > Len(saves)
  PROVE  LET data == saves'[Len(saves')].data
         IN  /\ \A f \in Fields :
                  data.text[f] = IF user.text[f] = Nil THEN Placeholder ELSE cells.text[f]
             /\ data.range = IF user.range \in {NoRange, BlindRange} THEN BlindRange
                             ELSE [min |-> cells.min, max |-> cells.max]
             /\ data.age = IF cells.ageHandled THEN Default(cells.age, -1) ELSE -1
<1> DEFINE data == saves'[Len(saves')].data
<1> DEFINE w == [data |-> SavedData, here |-> TRUE]
<1>1. saves' = Append(saves, w)
  BY OnlySaveDataSaves DEF SettingsInv, SaveData
<1>2. w \in Write /\ w.data = SavedData /\ saves \in Seq(Write)
  BY SavedDataIsProfile DEF SettingsInv, TypeOK, Write
<1> HIDE DEF w
<1>3. data = SavedData
  BY <1>1, <1>2
<1> HIDE DEF data
<1>4. user \in Profile
  BY DEF SettingsInv, TypeOK
<1>5. /\ data.text = [f \in Fields |-> Default(user.text[f], Placeholder)]
      /\ data.age = Default(user.age, -1)
      /\ data.range = [min |-> Default(user.range.min, -1), max |-> Default(user.range.max, -1)]
  BY <1>3 DEF SavedData
<1>6. /\ \A f \in Fields : cells.text[f] = Shown(user.text[f])
      /\ cells.min = Clamp(user.range.min) /\ cells.max = Clamp(user.range.max)
      /\ cells.ageHandled => cells.age = user.age
  BY DEF SettingsInv, CellsMatchUser
<1>7. \A f \in Fields :
        data.text[f] = IF user.text[f] = Nil THEN Placeholder ELSE cells.text[f]
  BY <1>5, <1>6 DEF Shown, Default
<1>8. data.range = IF user.range \in {NoRange, BlindRange} THEN BlindRange
                   ELSE [min |-> cells.min, max |-> cells.max]
  <2>1. user.range \in SliderRanges \cup {NoRange, BlindRange}
    BY <1>4 DEF Profile
  <2>2. CASE user.range \in SliderRanges
    <3>1. user.range.min \in MinAge..MaxAge /\ user.range.max \in MinAge..MaxAge
      BY <2>2 DEF SliderRanges
    <3>2. user.range.min # Nil /\ user.range.max # Nil
      BY <3>1, AgesAssumption
    <3>3. cells.min = user.range.min /\ cells.max = user.range.max
      BY <1>6, <3>1, ClampIsOnSlider
    <3>4. user.range \notin {NoRange, BlindRange}
      BY <3>1, AgesAssumption DEF NoRange, BlindRange
    <3> QED
      BY <1>5, <3>2, <3>3, <3>4 DEF Default
  <2>3. CASE user.range = NoRange
    BY <1>5, <2>3 DEF NoRange, BlindRange, Default
  <2>4. CASE user.range = BlindRange
    BY <1>5, <2>4, AgesAssumption DEF BlindRange, Default
  <2> QED
    BY <2>1, <2>2, <2>3, <2>4
<1>9. data.age = IF cells.ageHandled THEN Default(cells.age, -1) ELSE -1
  BY <1>5, <1>6 DEF SettingsInv, NoHandlerNoAge, Default
<1> QED
  BY <1>7, <1>8, <1>9 DEF data

\* Whatever has been edited, scrolled and uploaded since the profile was
\* loaded, a save writes what the cells show, or the default of a text, range or
\* age that currentUser lacks.
THEOREM LoadedSavesWriteOrDefault == Spec => LoadedSaveWrites
<1>1. SettingsInv /\ [Next]_vars =>
        [user # Nil /\ Len(saves') > Len(saves) =>
           LET data == saves'[Len(saves')].data
           IN  /\ \A f \in Fields :
                    data.text[f] = IF user.text[f] = Nil THEN Placeholder ELSE cells.text[f]
               /\ data.range = IF user.range \in {NoRange, BlindRange} THEN BlindRange
                               ELSE [min |-> cells.min, max |-> cells.max]
               /\ data.age = IF cells.ageHandled THEN Default(cells.age, -1) ELSE -1]_vars
  BY SaveEffect
<1> QED
  BY <1>1, SettingsInvHolds, PTL DEF Spec, LoadedSaveWrites
=============================================================================
