---------------------------- MODULE ProfileCard ----------------------------
(***************************************************************************)
(* One card of TinderClone's deck: a ProfileView with its                  *)
(* UserProfileViewModel.  A tap on the right or left half turns to the     *)
(* next or previous photo: displayIndex moves round the ring of image      *)
(* names, and its didSet lights the bar of that index and has SDWebImage   *)
(* load the photo.  Loads answer late, so a turn cancels the load before.  *)
(***************************************************************************)
EXTENDS Integers, Sequences

CONSTANTS
  URLs,             \* photos Storage holds
  NilURL, EmptyURL, \* a profile's URL that is missing, or ""
  NoPhoto,          \* an image view without an image
  StockPhoto,       \* the picture in the app bundle
  Loads,            \* bound: loads SDWebImage has not finished with
  NoLoad

ASSUME PhotosAssumption == {NilURL, EmptyURL, NoPhoto, StockPhoto} \cap URLs = {}
ASSUME LoadsAssumption == NoLoad \notin Loads

VARIABLES
  names,    \* imageNames of the view model
  index,    \* displayIndex, counted from 0
  lit,      \* the bars of imageBarStackView that are white
  image,    \* imgProfile.image
  load,     \* the loads SDWebImage is busy with
  current,  \* the load the image view knows as its own
  place,    \* where the card is
  crashed   \* an array was indexed out of its bounds: the app is gone

photoVars == <<lit, image, load, current>>
vars == <<names, index, lit, image, load, current, place, crashed>>

LoadStates == {"free", "fetching", "arrived", "failed"}
Unused == [state |-> "free", url |-> NilURL, cancelled |-> FALSE]

LoadType == [state : LoadStates, url : URLs \cup {NilURL}, cancelled : BOOLEAN]

TypeOK ==
  /\ names \in Seq(URLs)
  /\ index \in Int
  /\ lit \subseteq Nat
  /\ image \in URLs \cup {NoPhoto, StockPhoto}
  /\ load \in [Loads -> LoadType]
  /\ current \in Loads \cup {NoLoad}
  /\ place \in {"centre", "dragged", "aside", "away", "removed"}
  /\ crashed \in BOOLEAN

-----------------------------------------------------------------------------
(* The photos of a profile, and the ring they form.                        *)

\* A profile's ImageURL, ImageURL2 and ImageURL3; every upload has a name of
\* its own, so no photo is in two of them.
Profiles ==
  {p \in [1..3 -> URLs \cup {NilURL, EmptyURL}] :
     \A i, j \in 1..3 : i # j => p[i] \notin URLs \/ p[i] # p[j]}

IfAny(url) == IF url \in {NilURL, EmptyURL} THEN <<>> ELSE <<url>>

\* createUserProfileViewModel
ImageNames(p) == IfAny(p[1]) \o IfAny(p[2]) \o IfAny(p[3])

NextIndexOneTooFar(i, count) == IF i + 1 > count THEN 0 ELSE i + 1

NextIndex(i, count) == IF i + 1 >= count THEN 0 ELSE i + 1

PreviousIndex(i, count) == IF i - 1 < 0 THEN count - 1 ELSE i - 1

InBounds(i, count) == i \in 0 .. count - 1

-----------------------------------------------------------------------------
(* SDWebImage, as sd_setImage uses it.                                     *)

CancelNothing(loads, l) == loads

\* Cancelling: a load still fetching is dropped; one whose answer is already
\* under way to the main queue is only marked.
Cancel(loads, l) ==
  IF l = NoLoad THEN loads
  ELSE [loads EXCEPT ![l] = IF @.state = "fetching" THEN Unused
                            ELSE [@ EXCEPT !.cancelled = TRUE]]

\* sd_setImage(with: url): cancel the load before, clear the image, load.
SetImage(url) ==
  \E l \in Loads :
    /\ load[l].state = "free"
    /\ load' = [Cancel(load, current) EXCEPT
                  ![l] = [state |-> "fetching", url |-> url, cancelled |-> FALSE]]
    /\ current' = l
    /\ image' = NoPhoto

\* The photo is there, from the net or a cache, or cannot be had (at once, if
\* its URL has failed for good before); a block with the answer goes to the
\* main queue.
Fetched(l) ==
  /\ load[l].state = "fetching"
  /\ \E outcome \in {"arrived", "failed"} : load' = [load EXCEPT ![l].state = outcome]
  /\ UNCHANGED <<names, index, lit, image, current, place, crashed>>

\* The block runs.  A cancelled load sets nothing, and neither does a failed
\* one: the view stays without an image.
Answered(l) ==
  /\ load[l].state \in {"arrived", "failed"}
  /\ image' = IF load[l].state = "arrived" /\ ~load[l].cancelled
              THEN load[l].url ELSE image
  /\ load' = [load EXCEPT ![l] = Unused]
  /\ current' = IF current = l THEN NoLoad ELSE current
  /\ UNCHANGED <<names, index, lit, place, crashed>>

-----------------------------------------------------------------------------
(* The card.                                                               *)

\* The view model has just been set: a bar per photo, the first of them lit
\* and its photo being loaded.  Without photos the card shows what the app's
\* catalogue has under the stock photo's file name, if anything.
Init ==
  /\ \E p \in Profiles : names = ImageNames(p)
  /\ index = 0
  /\ place = "centre"
  /\ crashed = FALSE
  /\ IF names = <<>>
     THEN /\ lit = {}
          /\ image \in {StockPhoto, NoPhoto}
          /\ current = NoLoad
          /\ load = [l \in Loads |-> Unused]
     ELSE /\ lit = {0}
          /\ image = NoPhoto
          /\ current \in Loads
          /\ load = [l \in Loads |->
                       IF l = current
                       THEN [state |-> "fetching", url |-> names[1], cancelled |-> FALSE]
                       ELSE Unused]

\* displayIndex is set to i: its didSet reads the image name and calls the
\* observer, which lights the bar and sets the image.
Display(i) ==
  /\ index' = i
  /\ IF InBounds(i, Len(names))
     THEN SetImage(names[i + 1]) /\ lit' = {i} /\ UNCHANGED crashed
     ELSE crashed' = TRUE /\ UNCHANGED photoVars

\* catchTheTap, on the right half and on the left half.  While the card is
\* dragged the pan recogniser has the touches to itself.
TapRight ==
  /\ place \in {"centre", "aside"}
  /\ Display(NextIndex(index, Len(names)))
  /\ UNCHANGED <<names, place>>

TapLeft ==
  /\ place \in {"centre", "aside"}
  /\ Display(PreviousIndex(index, Len(names)))
  /\ UNCHANGED <<names, place>>

Drag ==
  /\ place \in {"centre", "aside"}
  /\ place' = "dragged"
  /\ UNCHANGED <<names, index, photoVars, crashed>>

\* endPanAnimation: past the limit the card leaves the screen (but not its
\* superview), short of it the card goes back.
EndDrag ==
  /\ place = "dragged"
  /\ place' \in {"away", "centre"}
  /\ UNCHANGED <<names, index, photoVars, crashed>>

\* The system cancels the pan; the card stays where it is.
CancelDrag ==
  /\ place = "dragged"
  /\ place' = "aside"
  /\ UNCHANGED <<names, index, photoVars, crashed>>

\* The deck is emptied.  The observer and the card hold each other, so the
\* card lives on, out of reach, and so do its loads.
Remove ==
  /\ place # "removed"
  /\ place' = "removed"
  /\ UNCHANGED <<names, index, photoVars, crashed>>

Next ==
  /\ ~crashed
  /\ \/ TapRight \/ TapLeft
     \/ Drag \/ EndDrag \/ CancelDrag \/ Remove
     \/ \E l \in Loads : Fetched(l) \/ Answered(l)

Spec == Init /\ [][Next]_vars

-----------------------------------------------------------------------------
\* However many loads overlap and in whatever order they answer, the photo on
\* the card is the one of the bar that is lit, or there is none yet.
PhotoBelongsToBar ==
  names # <<>> /\ ~crashed =>
    /\ lit = {index}
    /\ image \in {names[index + 1], NoPhoto}

\* An image name is looked up out of bounds only on the card of a profile
\* without photos.
CrashOnlyWithoutPhotos == crashed => names = <<>>

\* A tap on one half and then one on the other show the photo of before, from
\* every photo and for any number of them.
TurningBackReturns ==
  LET count == Len(names)
  IN  InBounds(index, count) =>
        /\ PreviousIndex(NextIndex(index, count), count) = index
        /\ NextIndex(PreviousIndex(index, count), count) = index
=============================================================================
